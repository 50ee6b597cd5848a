----------------------- MODULE ContentPipelineProofs -----------------------
(***************************************************************************)
(* Proofs about ContentPipeline: types, custody of documents, the order of *)
(* the steps and the meaning of the status Completed, for any number of    *)
(* documents, handlers, steps, attempts and messages.                      *)
(***************************************************************************)
EXTENDS ContentPipeline, TLAPS

(* A slot that is offered for a new message is free.                       *)
LEMMA FreeIsFree == ASSUME NEW s \in FreeSlots PROVE s \in Slot /\ queue[s] = None
BY DEF FreeSlots

(* A sent message is one, on a slot that was free.                         *)
LEMMA SendFacts ==
  ASSUME TypeOK, NEW d \in Doc, NEW rest \in SUBSET Step, NEW k \in Step, Send(d, rest, k)
  PROVE  /\ queue' \in [Slot -> Message \cup {None}]
         /\ \E s \in Slot :
              /\ queue[s] = None
              /\ queue'[s] = [doc |-> d, remaining |-> rest, step |-> k,
                              loc |-> "visible", count |-> 0, holder |-> None]
              /\ \A t \in Slot \ {s} : queue'[t] = queue[t]
<1>1. PICK s \in FreeSlots :
        queue' = [queue EXCEPT ![s] = [doc |-> d, remaining |-> rest, step |-> k,
                                       loc |-> "visible", count |-> 0,
                                       holder |-> None]]
  BY DEF Send
<1>2. s \in Slot /\ queue[s] = None
  BY FreeIsFree
<1>3. [doc |-> d, remaining |-> rest, step |-> k, loc |-> "visible",
       count |-> 0, holder |-> None] \in Message
  BY PipelineAssumption DEF Message
<1> QED BY <1>1, <1>2, <1>3 DEF TypeOK

(* A handler that is at work has a whole record.                           *)
LEMMA InHandType ==
  ASSUME TypeOK, NEW h \in Handler, InHand(h)
  PROVE  handler[h] \in Busy
BY DEF TypeOK, InHand

(* A handler whose pc is one of a message's is at work.                    *)
LEMMA AtPc ==
  ASSUME NEW h \in Handler, handler[h].pc \in Pc
  PROVE  InHand(h)
BY DEF InHand, Idle, Down, Pc

LEMMA GoesType ==
  ASSUME TypeOK, NEW h \in Handler, InHand(h), NEW pc \in Pc,
         handler' = [handler EXCEPT ![h].pc = pc]
  PROVE  handler' \in [Handler -> Busy \cup {Idle, Down}]
<1>1. handler[h] \in Busy
  BY InHandType
<1>2. [handler[h] EXCEPT !.pc = pc] \in Busy
  BY <1>1 DEF Busy
<1> QED BY <1>2 DEF TypeOK

LEMMA RecordType ==
  ASSUME TypeOK, NEW d \in Doc, NEW status \in {"working", "Error", "Completed"}
  PROVE  /\ WithStatus(d, status) \in [Doc -> Record \cup {None}]
         /\ WithModel(d, status, TRUE) \in [Doc -> Record \cup {None}]
         /\ WithModel(d, status, FALSE) \in [Doc -> Record \cup {None}]
BY DEF TypeOK, WithStatus, WithModel, Record

LEMMA TypeInit == Init => TypeOK
BY DEF Init, TypeOK

LEMMA TypeStep == TypeOK /\ [Next]_vars => TypeOK'
<1> SUFFICES ASSUME TypeOK, [Next]_vars PROVE TypeOK'
  OBVIOUS
<1> USE PipelineAssumption
<1>0. CASE UNCHANGED vars
  BY <1>0 DEF vars, TypeOK
<1>1. ASSUME NEW h \in Handler, NEW s \in Slot, Receive(h, s) PROVE TypeOK'
  <2> DEFINE n == IF queue[s].count > MaxDequeue
                  THEN queue[s].count ELSE queue[s].count + 1
  <2>1. queue[s] \in Message
    BY <1>1 DEF Receive, TypeOK
  <2>2. n \in 1..(MaxDequeue + 1)
    BY <2>1 DEF Message
  <2>3. [queue[s] EXCEPT !.loc = "leased", !.count = n, !.holder = h] \in Message
    <3>1. n \in 0..(MaxDequeue + 1)
      BY <2>2
    <3> HIDE DEF n
    <3> QED BY <2>1, <3>1 DEF Message
  <2>4. [pc |-> "received", slot |-> s, doc |-> queue[s].doc,
         remaining |-> queue[s].remaining, count |-> n] \in Busy
    <3>1. queue[s].doc \in Doc /\ queue[s].remaining \in SUBSET Step
      BY <2>1 DEF Message
    <3> HIDE DEF n
    <3> QED BY <2>2, <3>1 DEF Busy, Pc
  <2> QED BY <1>1, <2>3, <2>4 DEF Receive, TypeOK
<1>2. ASSUME NEW h \in Handler, Begin(h) PROVE TypeOK'
  <2>1. InHand(h) /\ handler[h].doc \in Doc
    BY <1>2, AtPc, InHandType DEF Begin, Pc, Busy
  <2> QED BY <1>2, <2>1, GoesType, RecordType DEF Begin, Goes, TypeOK, Pc
<1>3. ASSUME NEW h \in Handler, SaveResult(h) PROVE TypeOK'
  <2>1. InHand(h) /\ handler[h].doc \in Doc
    BY <1>3, AtPc, InHandType DEF SaveResult, Pc, Busy
  <2> QED BY <1>3, <2>1, GoesType, RecordType DEF SaveResult, Goes, TypeOK, Pc
<1>4. ASSUME NEW h \in Handler, WriteOutput(h) PROVE TypeOK'
  <2>1. InHand(h) /\ handler[h] \in Busy
    BY <1>4, AtPc, InHandType DEF WriteOutput, Pc, OnlyFilesLeft
  <2>2. [handler[h] EXCEPT !.pc = "executed", !.remaining = AfterUpdateStep(h)] \in Busy
    BY <2>1 DEF Busy, Pc, AfterUpdateStep
  <2>3. handler' \in [Handler -> Busy \cup {Idle, Down}]
    <3>1. CASE handler' = [handler EXCEPT ![h].pc = "executed",
                                          ![h].remaining = AfterUpdateStep(h)]
      BY <2>2, <3>1 DEF TypeOK
    <3>2. CASE handler' = [handler EXCEPT ![h].pc = "failed"]
      BY <2>1, <3>2, GoesType DEF Pc
    <3> QED BY <1>4, <3>1, <3>2 DEF WriteOutput, OnlyFilesLeft
  <2>4. StepOf[h] \in Step /\ handler[h].doc \in Doc
    BY <2>1 DEF Busy
  <2> QED BY <1>4, <2>3, <2>4 DEF WriteOutput, TypeOK, OnlyFilesLeft
<1>5. ASSUME NEW h \in Handler, PassOn(h) PROVE TypeOK'
  <2>1. InHand(h) /\ handler[h] \in Busy
    BY <1>5, AtPc, InHandType DEF PassOn, Pc
  <2>2. queue' \in [Slot -> Message \cup {None}]
    <3>1. CASE StepOf[h] = NumSteps
      BY <1>5, <3>1 DEF PassOn, TypeOK
    <3>2. CASE StepOf[h] # NumSteps
      <4>1. StepOf[h] + 1 \in Step
        BY <3>2 DEF Step
      <4> QED BY <1>5, <2>1, <3>2, <4>1, SendFacts DEF PassOn, Busy
    <3> QED BY <3>1, <3>2
  <2> QED BY <1>5, <2>1, <2>2, GoesType DEF PassOn, Goes, TypeOK, Pc
<1>6. ASSUME NEW h \in Handler, Delete(h) \/ DeleteBuried(h) PROVE TypeOK'
  <2>1. InHand(h) /\ handler[h].slot \in Slot
    BY <1>6, AtPc, InHandType DEF Delete, DeleteBuried, Pc, Busy
  <2>2. PICK pc \in Pc : handler' = [handler EXCEPT ![h].pc = pc]
    BY <1>6 DEF Delete, DeleteBuried, Goes, Pc
  <2>3. queue' = [queue EXCEPT ![handler[h].slot] = None]
    BY <1>6 DEF Delete, DeleteBuried
  <2>4. UNCHANGED <<deadLetters, record, outputs, submit, sent>>
    BY <1>6 DEF Delete, DeleteBuried
  <2> QED BY <2>1, <2>2, <2>3, <2>4, GoesType DEF TypeOK
<1>7. ASSUME NEW h \in Handler, Finish(h) PROVE TypeOK'
  <2>1. InHand(h) /\ handler[h].doc \in Doc
    BY <1>7, AtPc, InHandType DEF Finish, Pc, Busy
  <2> QED BY <1>7, <2>1, GoesType, RecordType DEF Finish, TypeOK, Pc
<1>8. ASSUME NEW h \in Handler, Raises(h) PROVE TypeOK'
  <2>1. InHand(h)
    BY <1>8, AtPc DEF Raises, Pc
  <2> QED BY <1>8, <2>1, GoesType DEF Raises, TypeOK, Pc
<1>9. ASSUME NEW h \in Handler, Report(h) \/ ReportAgain(h) PROVE TypeOK'
  <2>1. InHand(h) /\ handler[h].doc \in Doc
    BY <1>9, AtPc, InHandType DEF Report, ReportAgain, Pc, Busy
  <2>2. handler' \in [Handler -> Busy \cup {Idle, Down}]
    <3>1. CASE Report(h)
      BY <2>1, <3>1, GoesType DEF Report, Pc
    <3>2. CASE ReportAgain(h)
      BY <3>2 DEF ReportAgain, TypeOK
    <3> QED BY <1>9, <3>1, <3>2
  <2>3. record' \in [Doc -> Record \cup {None}]
    <3>1. record' = WithModel(handler[h].doc, "Error", FALSE)
      BY <1>9 DEF Report, ReportAgain
    <3> QED BY <2>1, <3>1, RecordType
  <2>4. UNCHANGED <<queue, deadLetters, outputs, submit, sent>>
    BY <1>9 DEF Report, ReportAgain
  <2> QED BY <2>2, <2>3, <2>4 DEF TypeOK
<1>10. ASSUME NEW h \in Handler, Retry(h) PROVE TypeOK'
  <2>1. handler[h].slot \in Slot /\ queue[handler[h].slot] \in Message
    BY <1>10, AtPc, InHandType DEF Retry, Pc, Busy, Holds, TypeOK
  <2>2. [queue[handler[h].slot] EXCEPT !.loc = "leased", !.holder = None] \in Message
    BY <2>1 DEF Message
  <2> QED BY <1>10, <2>1, <2>2 DEF Retry, TypeOK
<1>11. ASSUME NEW h \in Handler, Bury(h) PROVE TypeOK'
  <2>1. InHand(h) /\ handler[h].doc \in Doc /\ StepOf[h] \in Step
    BY <1>11, AtPc, InHandType DEF Bury, Pc, Busy
  <2>2. deadLetters' \subseteq Doc \X Step
    BY <1>11, <2>1 DEF Bury, TypeOK
  <2>3. handler' \in [Handler -> Busy \cup {Idle, Down}]
    BY <1>11, <2>1, GoesType DEF Bury, Pc
  <2> QED BY <1>11, <2>2, <2>3 DEF Bury, TypeOK
<1>12. ASSUME NEW h \in Handler, Refused(h) PROVE TypeOK'
  <2>1. InHand(h)
    BY <1>12 DEF Refused, InHand
  <2>2. handler' \in [Handler -> Busy \cup {Idle, Down}]
    <3>1. CASE handler' = [handler EXCEPT ![h].pc = "failed"]
      BY <2>1, <3>1, GoesType DEF Pc
    <3>2. CASE handler' = [handler EXCEPT ![h] = Down]
      BY <3>2 DEF TypeOK
    <3> QED BY <1>12, <3>1, <3>2 DEF Refused
  <2> QED BY <1>12, <2>2 DEF Refused, TypeOK
<1>13. ASSUME NEW h \in Handler, Crash(h) PROVE TypeOK'
  <2>1. \A s \in Slot : queue[s] # None => [queue[s] EXCEPT !.holder = None] \in Message
    BY DEF TypeOK, Message
  <2> QED BY <1>13, <2>1 DEF Crash, TypeOK
<1>14. ASSUME NEW h \in Handler, Restart(h) PROVE TypeOK'
  BY <1>14 DEF Restart, TypeOK
<1>15. ASSUME NEW s \in Slot, Expire(s) PROVE TypeOK'
  <2>1. [queue[s] EXCEPT !.loc = "visible"] \in Message
    BY <1>15 DEF Expire, TypeOK, Message
  <2> QED BY <1>15, <2>1 DEF Expire, TypeOK
<1>16. ASSUME NEW d \in Doc, ApiSends(d) \/ WorkflowSends(d) PROVE TypeOK'
  <2>1. Send(d, Step, 1) /\ 1 \in Step
    BY <1>16 DEF ApiSends, WorkflowSends, Step
  <2>2. queue' \in [Slot -> Message \cup {None}]
    BY <2>1, SendFacts
  <2> QED BY <1>16, <2>2 DEF ApiSends, WorkflowSends, TypeOK
<1>17. ASSUME NEW d \in Doc, ApiRecords(d) \/ WorkflowRecords(d) PROVE TypeOK'
  <2>1. record' \in [Doc -> Record \cup {None}]
    <3>1. \/ record' = WithStatus(d, "working")
          \/ record' = WithModel(d, "working", FALSE)
          \/ record' = record
      BY <1>17 DEF ApiRecords, WorkflowRecords
    <3>2. /\ WithStatus(d, "working") \in [Doc -> Record \cup {None}]
          /\ WithModel(d, "working", FALSE) \in [Doc -> Record \cup {None}]
      BY RecordType
    <3>3. record \in [Doc -> Record \cup {None}]
      BY DEF TypeOK
    <3> QED BY <3>1, <3>2, <3>3
  <2> QED BY <1>17, <2>1 DEF ApiRecords, WorkflowRecords, TypeOK
<1>18. ASSUME NEW d \in Doc, Redeliver(d) \/ ShortCircuit(d) PROVE TypeOK'
  BY <1>18 DEF Redeliver, ShortCircuit, TypeOK
<1> QED BY <1>0, <1>1, <1>2, <1>3, <1>4, <1>5, <1>6, <1>7, <1>8, <1>9, <1>10,
           <1>11, <1>12, <1>13, <1>14, <1>15, <1>16, <1>17, <1>18
        DEF Next, HandlerStep, SubmitStep

(* Every variable keeps its type.                                          *)
THEOREM PipelineTypeCorrect == Spec => []TypeOK
<1> QED BY TypeInit, TypeStep, PTL DEF Spec
-----------------------------------------------------------------------------
(* What a step does to the messages: to none or one of them, apart from its*)
(* lease.                                                                  *)

SamePayload(s) ==
  \/ queue'[s] = queue[s]
  \/ /\ queue[s] # None /\ queue'[s] # None
     /\ queue'[s].doc = queue[s].doc
     /\ queue'[s].step = queue[s].step
     /\ queue'[s].remaining = queue[s].remaining

NewMessage(s) ==
  /\ queue[s] = None /\ queue'[s] # None
  /\ \/ queue'[s].step = 1 /\ queue'[s].remaining = Step
     \/ \E h \in Handler :
          /\ handler[h].pc = "executed" /\ StepOf[h] # NumSteps
          /\ queue'[s].doc = handler[h].doc
          /\ queue'[s].remaining = handler[h].remaining
          /\ queue'[s].step = StepOf[h] + 1

GoneMessage(s) ==
  /\ queue'[s] = None
  /\ \E h \in Handler : /\ InHand(h) /\ Holds(h) /\ handler[h].slot = s
                        /\ handler[h].pc \in {"passed", "buried"}

QueueFlow ==
  \/ \A s \in Slot : SamePayload(s)
  \/ \E s \in Slot : /\ NewMessage(s) \/ GoneMessage(s)
                     /\ \A t \in Slot \ {s} : SamePayload(t)

(* A receipt that is current was so before, or its message has just been   *)
(* received.                                                               *)
HolderFlow(h) ==
  \A s \in Slot : queue'[s] # None /\ queue'[s].holder = h =>
    \/ queue[s] # None /\ queue[s].holder = h
    \/ /\ handler'[h].doc = queue'[s].doc /\ handler'[h].slot = s
       /\ queue'[s].step = StepOf[h]

(* What a step does to a handler.                                          *)
Takes(h) ==
  \E s \in Slot :
    /\ queue[s] # None /\ queue[s].step = StepOf[h]
    /\ handler'[h].pc = "received"
    /\ handler'[h].slot = s
    /\ handler'[h].doc = queue[s].doc
    /\ handler'[h].remaining = queue[s].remaining
    /\ queue' [s] # None /\ queue'[s].doc = queue[s].doc /\ queue'[s].step = queue[s].step

GoesOn(h) ==
  /\ InHand(h)
  /\ handler'[h].slot = handler[h].slot
  /\ handler'[h].doc = handler[h].doc
  /\ \/ handler'[h].pc \in {"failed", "reported", "dropped"}
     \/ /\ handler[h].pc = "received" /\ handler'[h].pc = "executing"
        /\ handler'[h].remaining = handler[h].remaining
     \/ /\ handler[h].pc = "executing" /\ handler'[h].pc = "saving"
        /\ handler'[h].remaining = handler[h].remaining
     \/ /\ handler[h].pc \in {"executing", "saving"} /\ handler'[h].pc = "executed"
        /\ handler'[h].remaining = handler[h].remaining \ {StepOf[h]}
        /\ StepOf[h] \in outputs'[handler[h].doc]
     \/ /\ handler[h].pc = "executed" /\ handler'[h].pc = "passed"
        /\ handler'[h].remaining = handler[h].remaining
        /\ \/ StepOf[h] = NumSteps
           \/ \E s \in Slot : /\ queue'[s] # None
                              /\ queue'[s].doc = handler[h].doc
                              /\ queue'[s].step = StepOf[h] + 1
     \/ /\ handler[h].pc = "passed" /\ handler'[h].pc = "deleted"
        /\ handler'[h].remaining = handler[h].remaining
     \/ /\ handler'[h].pc = "buried"
        /\ <<handler[h].doc, StepOf[h]>> \in deadLetters'

HandlerFlow(h) ==
  \/ handler'[h] = handler[h]
  \/ handler'[h] \in {Idle, Down}
  \/ Takes(h)
  \/ GoesOn(h)

(* What is written stays, and Completed is written by the last step.       *)
Grows ==
  /\ \A d \in Doc : outputs[d] \subseteq outputs'[d]
  /\ deadLetters \subseteq deadLetters'

RecordFlow(d) ==
  record'[d] # None /\ record'[d].status = "Completed" =>
    \/ record'[d] = record[d]
    \/ \E h \in Handler : /\ handler[h].pc = "deleted" /\ handler[h].doc = d
                          /\ handler[h].remaining = {}

(* Send puts the message in a slot that was free and touches no other.      *)
LandsIn(s, d, rest, k) ==
  /\ queue[s] = None /\ queue'[s] # None
  /\ queue'[s].doc = d /\ queue'[s].step = k /\ queue'[s].remaining = rest
  /\ queue'[s].holder = None
  /\ \A t \in Slot \ {s} : queue'[t] = queue[t]

Lands(d, rest, k) == \E s \in Slot : LandsIn(s, d, rest, k)

LEMMA SendIsNew ==
  ASSUME TypeOK, NEW d \in Doc, NEW rest \in SUBSET Step, NEW k \in Step, Send(d, rest, k)
  PROVE  Lands(d, rest, k)
<1>1. PICK s \in Slot :
        /\ queue[s] = None
        /\ queue'[s] = [doc |-> d, remaining |-> rest, step |-> k,
                        loc |-> "visible", count |-> 0, holder |-> None]
        /\ \A t \in Slot \ {s} : queue'[t] = queue[t]
  BY SendFacts
<1>2. queue'[s] # None
  <2>1. queue' \in [Slot -> Message \cup {None}]
    BY SendFacts
  <2>2. [doc |-> d, remaining |-> rest, step |-> k, loc |-> "visible",
         count |-> 0, holder |-> None] \in Message
    BY PipelineAssumption DEF Message
  <2>3. None \notin Message
    BY PipelineAssumption DEF Message
  <2> QED BY <1>1, <2>1, <2>2, <2>3
<1> QED BY <1>1, <1>2 DEF Lands, LandsIn

LEMMA QueueFlows == TypeOK /\ [Next]_vars => QueueFlow /\ \A x \in Handler : HolderFlow(x)
<1> SUFFICES ASSUME TypeOK, [Next]_vars
             PROVE  QueueFlow /\ \A x \in Handler : HolderFlow(x)
  OBVIOUS
<1> USE PipelineAssumption
<1>0. CASE queue' = queue
  BY <1>0 DEF QueueFlow, SamePayload, HolderFlow
<1>1. ASSUME NEW h \in Handler, NEW s \in Slot, Receive(h, s)
      PROVE  QueueFlow /\ \A x \in Handler : HolderFlow(x)
  <2>1. queue[s] \in Message
    BY <1>1 DEF Receive, TypeOK
  <2>2. /\ \A t \in Slot \ {s} : queue'[t] = queue[t]
        /\ queue'[s] # None /\ queue'[s].doc = queue[s].doc
        /\ queue'[s].step = queue[s].step /\ queue'[s].remaining = queue[s].remaining
        /\ queue'[s].holder = h
    <3> DEFINE n == IF queue[s].count > MaxDequeue
                    THEN queue[s].count ELSE queue[s].count + 1
    <3>0. n \in 0..(MaxDequeue + 1)
      BY <2>1 DEF Message
    <3>1. queue' = [queue EXCEPT ![s] = [@ EXCEPT !.loc = "leased",
                                                  !.count = n, !.holder = h]]
      BY <1>1 DEF Receive
    <3> HIDE DEF n
    <3>2. queue'[s] = [queue[s] EXCEPT !.loc = "leased", !.count = n, !.holder = h]
      BY <3>1 DEF TypeOK
    <3>3. queue'[s] \in Message
      BY <2>1, <3>0, <3>2 DEF Message
    <3> QED BY <2>1, <3>1, <3>2, <3>3 DEF TypeOK, Message
  <2>3. handler'[h].doc = queue[s].doc /\ handler'[h].slot = s
    BY <1>1 DEF Receive, TypeOK
  <2>4. queue[s].step = StepOf[h] /\ queue[s] # None
    BY <1>1 DEF Receive
  <2> QED BY <2>2, <2>3, <2>4 DEF QueueFlow, SamePayload, HolderFlow
<1>2. ASSUME NEW h \in Handler, PassOn(h), StepOf[h] # NumSteps
      PROVE  QueueFlow /\ \A x \in Handler : HolderFlow(x)
  <2>1. handler[h].doc \in Doc /\ handler[h].remaining \in SUBSET Step
    BY <1>2, AtPc, InHandType DEF PassOn, Pc, Busy
  <2>2. StepOf[h] + 1 \in Step /\ handler[h].pc = "executed"
    BY <1>2 DEF PassOn, Step
  <2>3. Lands(handler[h].doc, handler[h].remaining, StepOf[h] + 1)
    <3>1. Send(handler[h].doc, handler[h].remaining, StepOf[h] + 1)
      BY <1>2 DEF PassOn
    <3> QED BY <2>1, <2>2, <3>1, SendIsNew
  <2>4. PICK s \in Slot : LandsIn(s, handler[h].doc, handler[h].remaining, StepOf[h] + 1)
    BY <2>3 DEF Lands
  <2>5. QueueFlow
    BY <1>2, <2>2, <2>4 DEF LandsIn, QueueFlow, NewMessage, SamePayload
  <2> QED BY <2>4, <2>5 DEF LandsIn, HolderFlow
<1>3. ASSUME NEW h \in Handler, Delete(h) \/ DeleteBuried(h)
      PROVE  QueueFlow /\ \A x \in Handler : HolderFlow(x)
  <2>1. InHand(h) /\ handler[h].slot \in Slot
    BY <1>3, AtPc, InHandType DEF Delete, DeleteBuried, Pc, Busy
  <2>2. Holds(h) /\ handler[h].pc \in {"passed", "buried"}
    BY <1>3 DEF Delete, DeleteBuried
  <2>3. queue' = [queue EXCEPT ![handler[h].slot] = None]
    BY <1>3 DEF Delete, DeleteBuried
  <2>4. GoneMessage(handler[h].slot)
    BY <2>1, <2>2, <2>3 DEF GoneMessage, TypeOK
  <2>5. \A t \in Slot \ {handler[h].slot} : queue'[t] = queue[t]
    BY <2>3 DEF TypeOK
  <2> QED BY <2>1, <2>3, <2>4, <2>5 DEF QueueFlow, SamePayload, HolderFlow, TypeOK
<1>4. ASSUME NEW h \in Handler, Retry(h)
      PROVE  QueueFlow /\ \A x \in Handler : HolderFlow(x)
  <2> DEFINE s == handler[h].slot
  <2>1. s \in Slot /\ queue[s] \in Message
    BY <1>4, AtPc, InHandType DEF Retry, Pc, Busy, Holds, TypeOK
  <2>2. queue'[s] = [queue[s] EXCEPT !.loc = "leased", !.holder = None]
    BY <1>4, <2>1 DEF Retry, TypeOK
  <2>3. queue'[s] \in Message
    BY <2>1, <2>2 DEF Message
  <2>4. \A t \in Slot \ {s} : queue'[t] = queue[t]
    BY <1>4 DEF Retry, TypeOK
  <2>5. /\ queue[s] # None /\ queue'[s] # None
        /\ queue'[s].doc = queue[s].doc
        /\ queue'[s].step = queue[s].step
        /\ queue'[s].remaining = queue[s].remaining
        /\ queue'[s].holder = None
    BY <2>1, <2>2, <2>3 DEF Message
  <2> HIDE DEF s
  <2> QED BY <2>4, <2>5 DEF QueueFlow, SamePayload, HolderFlow
<1>5. ASSUME NEW h \in Handler, Crash(h)
      PROVE  QueueFlow /\ \A x \in Handler : HolderFlow(x)
  <2>1. ASSUME NEW s \in Slot
        PROVE  /\ SamePayload(s)
               /\ queue'[s] # None => queue[s] # None /\ queue'[s].holder \in {None, queue[s].holder}
    <3>1. CASE queue[s] # None /\ queue[s].holder = h
      <4>1. queue[s] \in Message
        BY <3>1 DEF TypeOK
      <4>2. queue'[s] = [queue[s] EXCEPT !.holder = None]
        BY <1>5, <3>1 DEF Crash
      <4>3. queue'[s] \in Message
        BY <4>1, <4>2 DEF Message
      <4> QED BY <4>1, <4>2, <4>3 DEF SamePayload, Message
    <3>2. CASE ~(queue[s] # None /\ queue[s].holder = h)
      BY <1>5, <3>2 DEF Crash, SamePayload
    <3> QED BY <3>1, <3>2
  <2> QED BY <2>1 DEF QueueFlow, HolderFlow
<1>6. ASSUME NEW s \in Slot, Expire(s)
      PROVE  QueueFlow /\ \A x \in Handler : HolderFlow(x)
  <2>1. queue[s] \in Message
    BY <1>6 DEF Expire, TypeOK
  <2>2. queue'[s] = [queue[s] EXCEPT !.loc = "visible"]
    BY <1>6 DEF Expire, TypeOK
  <2>3. queue'[s] \in Message
    BY <2>1, <2>2 DEF Message
  <2>4. \A t \in Slot \ {s} : queue'[t] = queue[t]
    BY <1>6 DEF Expire, TypeOK
  <2> QED BY <2>1, <2>2, <2>3, <2>4 DEF QueueFlow, SamePayload, HolderFlow, Message
<1>7. ASSUME NEW d \in Doc, ApiSends(d) \/ WorkflowSends(d)
      PROVE  QueueFlow /\ \A x \in Handler : HolderFlow(x)
  <2>1. Send(d, Step, 1) /\ 1 \in Step
    BY <1>7 DEF ApiSends, WorkflowSends, Step
  <2>2. PICK s \in Slot :
           /\ queue[s] = None /\ queue'[s] # None
           /\ queue'[s].doc = d /\ queue'[s].step = 1
           /\ queue'[s].remaining = Step /\ queue'[s].holder = None
           /\ \A t \in Slot \ {s} : queue'[t] = queue[t]
    BY <2>1, SendIsNew DEF Lands, LandsIn
  <2>3. QueueFlow
    BY <2>2 DEF QueueFlow, NewMessage, SamePayload
  <2> QED BY <2>2, <2>3 DEF HolderFlow
<1>8. ASSUME NEW h \in Handler, HandlerStep(h)
      PROVE  QueueFlow /\ \A x \in Handler : HolderFlow(x)
  <2>1. CASE PassOn(h) /\ StepOf[h] = NumSteps
    BY <1>0, <2>1 DEF PassOn
  <2> QED BY <1>0, <1>1, <1>2, <1>3, <1>4, <1>8, <2>1
          DEF HandlerStep, Begin, SaveResult, WriteOutput, Finish, Report, Bury,
              ReportAgain, Refused, Restart, OnlyFilesLeft
<1>9. CASE UNCHANGED vars
  BY <1>0, <1>9 DEF vars
<1>10. ASSUME NEW h \in Handler, Raises(h)
       PROVE  QueueFlow /\ \A x \in Handler : HolderFlow(x)
  BY <1>0, <1>10 DEF Raises
<1>11. ASSUME NEW d \in Doc, SubmitStep(d)
       PROVE  QueueFlow /\ \A x \in Handler : HolderFlow(x)
  BY <1>0, <1>7, <1>11 DEF SubmitStep, ApiRecords, WorkflowRecords, Redeliver, ShortCircuit
<1> QED BY <1>5, <1>6, <1>8, <1>9, <1>10, <1>11 DEF Next

(* What is written stays.                                                  *)
LEMMA OnlyGrows == TypeOK /\ [Next]_vars => Grows
<1> SUFFICES ASSUME TypeOK, [Next]_vars PROVE Grows
  OBVIOUS
<1>1. CASE outputs' = outputs /\ deadLetters' = deadLetters
  BY <1>1 DEF Grows
<1>2. ASSUME NEW h \in Handler, WriteOutput(h) PROVE Grows
  BY <1>2 DEF WriteOutput, Grows, TypeOK, OnlyFilesLeft
<1>3. ASSUME NEW h \in Handler, Bury(h) PROVE Grows
  BY <1>3 DEF Bury, Grows
<1> QED BY <1>1, <1>2, <1>3
        DEF Next, vars, HandlerStep, SubmitStep, Receive, Begin, SaveResult, PassOn,
            Delete, Finish, Report, Retry, DeleteBuried, ReportAgain, Refused, Restart,
            Raises, Crash, Expire, ApiSends, ApiRecords, WorkflowRecords,
            WorkflowSends, Redeliver, ShortCircuit

(* A handler whose pc alone changes keeps its message.                     *)
LEMMA PcMoves ==
  ASSUME TypeOK, NEW h \in Handler, InHand(h), NEW pc \in Pc,
         handler' = [handler EXCEPT ![h].pc = pc]
  PROVE  /\ handler'[h].pc = pc
         /\ handler'[h].slot = handler[h].slot
         /\ handler'[h].doc = handler[h].doc
         /\ handler'[h].remaining = handler[h].remaining
         /\ \A x \in Handler \ {h} : handler'[x] = handler[x]
<1>1. handler[h] \in Busy
  BY InHandType
<1>2. handler'[h] = [handler[h] EXCEPT !.pc = pc]
  BY DEF TypeOK
<1>3. \A x \in Handler \ {h} : handler'[x] = handler[x]
  BY DEF TypeOK
<1> QED BY <1>1, <1>2, <1>3 DEF Busy

LEMMA HandlerFlows == TypeOK /\ [Next]_vars => \A x \in Handler : HandlerFlow(x)
<1> SUFFICES ASSUME TypeOK, [Next]_vars PROVE \A x \in Handler : HandlerFlow(x)
  OBVIOUS
<1>0. CASE handler' = handler
  BY <1>0 DEF HandlerFlow
<1>1. ASSUME NEW h \in Handler, NEW s \in Slot, Receive(h, s)
      PROVE  \A x \in Handler : HandlerFlow(x)
  <2>1. queue[s] \in Message
    BY <1>1 DEF Receive, TypeOK
  <2>2. /\ handler'[h].pc = "received" /\ handler'[h].slot = s
        /\ handler'[h].doc = queue[s].doc
        /\ handler'[h].remaining = queue[s].remaining
        /\ \A x \in Handler \ {h} : handler'[x] = handler[x]
    BY <1>1 DEF Receive, TypeOK
  <2>3. queue[s] # None /\ queue[s].step = StepOf[h]
    BY <1>1 DEF Receive
  <2>4. queue'[s] # None /\ queue'[s].doc = queue[s].doc /\ queue'[s].step = queue[s].step
    <3> DEFINE n == IF queue[s].count > MaxDequeue
                    THEN queue[s].count ELSE queue[s].count + 1
    <3>1. n \in 0..(MaxDequeue + 1)
      BY <2>1, PipelineAssumption DEF Message
    <3>2. queue'[s] = [queue[s] EXCEPT !.loc = "leased", !.count = n, !.holder = h]
      BY <1>1 DEF Receive, TypeOK
    <3> HIDE DEF n
    <3>3. queue'[s] \in Message
      BY <2>1, <3>1, <3>2 DEF Message
    <3> QED BY ZenonT(30), <2>1, <3>2, <3>3, PipelineAssumption DEF Message
  <2>5. Takes(h)
    BY <2>2, <2>3, <2>4 DEF Takes
  <2> QED BY <2>2, <2>5 DEF HandlerFlow
<1>2. ASSUME NEW h \in Handler, NEW pc \in Pc, InHand(h),
             handler' = [handler EXCEPT ![h].pc = pc],
             \/ pc \in {"failed", "reported", "dropped"}
             \/ handler[h].pc = "received" /\ pc = "executing"
             \/ handler[h].pc = "executing" /\ pc = "saving"
             \/ handler[h].pc = "passed" /\ pc = "deleted"
             \/ pc = "buried" /\ <<handler[h].doc, StepOf[h]>> \in deadLetters'
             \/ /\ handler[h].pc = "executed" /\ pc = "passed"
                /\ \/ StepOf[h] = NumSteps
                   \/ \E s \in Slot : /\ queue'[s] # None
                                      /\ queue'[s].doc = handler[h].doc
                                      /\ queue'[s].step = StepOf[h] + 1
      PROVE  \A x \in Handler : HandlerFlow(x)
  <2>1. /\ handler'[h].pc = pc
        /\ handler'[h].slot = handler[h].slot
        /\ handler'[h].doc = handler[h].doc
        /\ handler'[h].remaining = handler[h].remaining
        /\ \A x \in Handler \ {h} : handler'[x] = handler[x]
    BY <1>2, PcMoves
  <2>2. GoesOn(h)
    BY <1>2, <2>1 DEF GoesOn
  <2> QED BY <2>1, <2>2 DEF HandlerFlow
<1>3. ASSUME NEW h \in Handler, NEW v \in {Idle, Down}, handler' = [handler EXCEPT ![h] = v]
      PROVE  \A x \in Handler : HandlerFlow(x)
  BY <1>3 DEF TypeOK, HandlerFlow
<1>4. ASSUME NEW h \in Handler, Begin(h) PROVE \A x \in Handler : HandlerFlow(x)
  BY <1>2, <1>4, AtPc DEF Begin, Goes, Pc
<1>5. ASSUME NEW h \in Handler, SaveResult(h) PROVE \A x \in Handler : HandlerFlow(x)
  BY <1>2, <1>5, AtPc DEF SaveResult, Goes, Pc
<1>6. ASSUME NEW h \in Handler, WriteOutput(h) PROVE \A x \in Handler : HandlerFlow(x)
  <2>1. InHand(h) /\ handler[h] \in Busy /\ handler[h].pc \in {"executing", "saving"}
    BY <1>6, AtPc, InHandType DEF WriteOutput, Pc, OnlyFilesLeft
  <2>2. CASE handler' = [handler EXCEPT ![h].pc = "executed",
                                        ![h].remaining = AfterUpdateStep(h)]
    <3>1. handler'[h] = [handler[h] EXCEPT !.pc = "executed", !.remaining = AfterUpdateStep(h)]
      BY <2>2 DEF TypeOK
    <3>2. /\ handler'[h].pc = "executed"
          /\ handler'[h].slot = handler[h].slot
          /\ handler'[h].doc = handler[h].doc
          /\ handler'[h].remaining = handler[h].remaining \ {StepOf[h]}
      BY <2>1, <3>1 DEF Busy, AfterUpdateStep
    <3>3. StepOf[h] \in outputs'[handler[h].doc]
      BY <1>6, <2>1 DEF WriteOutput, TypeOK, Busy, OnlyFilesLeft
    <3>4. GoesOn(h)
      BY <2>1, <3>2, <3>3 DEF GoesOn
    <3>5. \A x \in Handler \ {h} : handler'[x] = handler[x]
      BY <2>2 DEF TypeOK
    <3> QED BY <3>4, <3>5 DEF HandlerFlow
  <2>3. CASE handler' = [handler EXCEPT ![h].pc = "failed"]
    BY <1>2, <2>1, <2>3 DEF Pc
  <2> QED BY <1>6, <2>2, <2>3 DEF WriteOutput, OnlyFilesLeft
<1>7. ASSUME NEW h \in Handler, PassOn(h) PROVE \A x \in Handler : HandlerFlow(x)
  <2>1. InHand(h) /\ handler[h] \in Busy /\ handler[h].pc = "executed"
    BY <1>7, AtPc, InHandType DEF PassOn, Pc
  <2>2. \/ StepOf[h] = NumSteps
        \/ \E s \in Slot : /\ queue'[s] # None
                           /\ queue'[s].doc = handler[h].doc
                           /\ queue'[s].step = StepOf[h] + 1
    <3>1. CASE StepOf[h] # NumSteps
      <4>1. StepOf[h] + 1 \in Step
        BY <3>1, PipelineAssumption DEF Step
      <4>2. Send(handler[h].doc, handler[h].remaining, StepOf[h] + 1)
        BY <1>7, <3>1 DEF PassOn
      <4>3. handler[h].doc \in Doc /\ handler[h].remaining \in SUBSET Step
        BY <2>1 DEF Busy
      <4> QED BY <4>1, <4>2, <4>3, SendIsNew DEF Lands, LandsIn
    <3> QED BY <3>1
  <2>3. PICK pc \in {"passed", "failed"} : handler' = [handler EXCEPT ![h].pc = pc]
    BY <1>7 DEF PassOn, Goes
  <2> QED BY <1>2, <2>1, <2>2, <2>3 DEF Pc
<1>8. ASSUME NEW h \in Handler, Delete(h) \/ DeleteBuried(h)
      PROVE  \A x \in Handler : HandlerFlow(x)
  <2>1. InHand(h)
    BY <1>8, AtPc DEF Delete, DeleteBuried, Pc
  <2>2. CASE Delete(h)
    <3>1. PICK pc \in {"deleted", "failed"} : handler' = [handler EXCEPT ![h].pc = pc]
      BY <2>2 DEF Delete, Goes
    <3>2. handler[h].pc = "passed"
      BY <2>2 DEF Delete
    <3> QED BY <1>2, <2>1, <3>1, <3>2 DEF Pc
  <2>3. CASE DeleteBuried(h)
    BY <1>2, <2>1, <2>3 DEF DeleteBuried, Pc
  <2> QED BY <1>8, <2>2, <2>3
<1>9. ASSUME NEW h \in Handler, Finish(h) PROVE \A x \in Handler : HandlerFlow(x)
  <2>1. InHand(h)
    BY <1>9, AtPc DEF Finish, Pc
  <2>2. CASE handler' = [handler EXCEPT ![h] = Idle]
    BY <1>3, <2>2
  <2>3. CASE handler' = [handler EXCEPT ![h].pc = "failed"]
    BY <1>2, <2>1, <2>3 DEF Pc
  <2> QED BY <1>9, <2>2, <2>3 DEF Finish
<1>10. ASSUME NEW h \in Handler, Raises(h) \/ Report(h)
       PROVE  \A x \in Handler : HandlerFlow(x)
  <2>1. InHand(h)
    BY <1>10, AtPc DEF Raises, Report, Pc
  <2>2. PICK pc \in {"failed", "reported"} : handler' = [handler EXCEPT ![h].pc = pc]
    BY <1>10 DEF Raises, Report
  <2> QED BY <1>2, <2>1, <2>2 DEF Pc
<1>11. ASSUME NEW h \in Handler, Retry(h) \/ ReportAgain(h) \/ Restart(h)
       PROVE  \A x \in Handler : HandlerFlow(x)
  BY <1>3, <1>11 DEF Retry, ReportAgain, Restart
<1>12. ASSUME NEW h \in Handler, Bury(h) PROVE \A x \in Handler : HandlerFlow(x)
  <2>1. InHand(h) /\ <<handler[h].doc, StepOf[h]>> \in deadLetters'
    BY <1>12, AtPc DEF Bury, Pc
  <2>2. handler' = [handler EXCEPT ![h].pc = "buried"]
    BY <1>12 DEF Bury
  <2> QED BY <1>2, <2>1, <2>2 DEF Pc
<1>13. ASSUME NEW h \in Handler, Refused(h) \/ Crash(h)
       PROVE  \A x \in Handler : HandlerFlow(x)
  <2>1. CASE handler' = [handler EXCEPT ![h] = Down]
    BY <1>3, <2>1
  <2>2. CASE Refused(h) /\ handler' = [handler EXCEPT ![h].pc = "failed"]
    <3>1. InHand(h)
      BY <2>2 DEF Refused, InHand
    <3> QED BY <1>2, <2>2, <3>1 DEF Pc
  <2> QED BY <1>13, <2>1, <2>2 DEF Refused, Crash
<1> QED BY <1>0, <1>1, <1>4, <1>5, <1>6, <1>7, <1>8, <1>9, <1>10, <1>11, <1>12, <1>13
        DEF Next, vars, HandlerStep, SubmitStep, Expire, ApiSends, ApiRecords,
            WorkflowRecords, WorkflowSends, Redeliver, ShortCircuit

(* Completed is written by the last status write of a handler with nothing *)
(* left to do, and by nothing else.                                        *)
LEMMA RecordFlows == TypeOK /\ [Next]_vars => \A d \in Doc : RecordFlow(d)
<1> SUFFICES ASSUME TypeOK, [Next]_vars PROVE \A d \in Doc : RecordFlow(d)
  OBVIOUS
<1>0. CASE record' = record
  BY <1>0 DEF RecordFlow
<1>1. ASSUME NEW d \in Doc, NEW status \in {"working", "Error"},
             \/ record' = WithStatus(d, status)
             \/ record' = WithModel(d, status, TRUE)
             \/ record' = WithModel(d, status, FALSE)
      PROVE  \A x \in Doc : RecordFlow(x)
  <2>1. \A x \in Doc \ {d} : record'[x] = record[x]
    BY <1>1 DEF WithStatus, WithModel, TypeOK
  <2>2. record'[d].status = status
    <3>1. PICK result : record' = [record EXCEPT ![d] = [status |-> status, result |-> result]]
      <4> DEFINE r == IF record[d] = None THEN FALSE ELSE record[d].result
      <4>1. WithStatus(d, status) = [record EXCEPT ![d] = [status |-> status, result |-> r]]
        BY DEF WithStatus
      <4> HIDE DEF r
      <4> QED BY <1>1, <4>1 DEF WithModel
    <3> QED BY <3>1 DEF TypeOK
  <2> QED BY <2>1, <2>2 DEF RecordFlow
<1>2. ASSUME NEW h \in Handler, Finish(h) PROVE \A d \in Doc : RecordFlow(d)
  <2>1. handler[h].pc = "deleted" /\ handler[h].doc \in Doc
    BY <1>2, AtPc, InHandType DEF Finish, Pc, Busy
  <2>2. CASE Completed(h)
    <3>1. \A x \in Doc \ {handler[h].doc} : record'[x] = record[x]
      BY <1>2, <2>1, <2>2 DEF Finish, WithStatus, TypeOK
    <3> QED BY <2>1, <2>2, <3>1 DEF RecordFlow, Completed
  <2>3. CASE ~Completed(h)
    BY <1>1, <1>2, <2>1, <2>3 DEF Finish
  <2> QED BY <2>2, <2>3
<1>3. ASSUME NEW h \in Handler, Begin(h) \/ SaveResult(h) \/ Report(h) \/ ReportAgain(h)
      PROVE  \A d \in Doc : RecordFlow(d)
  <2>1. handler[h].doc \in Doc
    BY <1>3, AtPc, InHandType DEF Begin, SaveResult, Report, ReportAgain, Pc, Busy
  <2> QED BY <1>1, <1>3, <2>1 DEF Begin, SaveResult, Report, ReportAgain
<1>4. ASSUME NEW d \in Doc, ApiRecords(d) \/ WorkflowRecords(d)
      PROVE  \A x \in Doc : RecordFlow(x)
  BY <1>0, <1>1, <1>4 DEF ApiRecords, WorkflowRecords
<1> QED BY <1>0, <1>2, <1>3, <1>4
        DEF Next, vars, HandlerStep, SubmitStep, Receive, WriteOutput, PassOn, Delete,
            Retry, Bury, DeleteBuried, Refused, Restart, Raises, Crash, Expire,
            ApiSends, WorkflowSends, Redeliver, ShortCircuit, OnlyFilesLeft
-----------------------------------------------------------------------------
(* The conjuncts of the invariant, one after the other.                    *)

LEMMA MessageType ==
  ASSUME TypeOK, NEW s \in Slot, queue[s] # None
  PROVE  queue[s].doc \in Doc /\ queue[s].step \in Step
BY DEF TypeOK, Message

LEMMA StepsInOrderStep ==
  ASSUME PipelineInvariant, [Next]_vars PROVE StepsInOrder'
<1> USE PipelineAssumption
<1>1. TypeOK /\ StepsInOrder /\ HandlersInOrder
  BY DEF PipelineInvariant
<1>2. QueueFlow /\ Grows
  BY <1>1, QueueFlows, OnlyGrows
<1> SUFFICES ASSUME NEW s \in Slot, queue'[s] # None
             PROVE  /\ 1..(queue'[s].step - 1) \subseteq outputs'[queue'[s].doc]
                    /\ queue'[s].remaining = queue'[s].step..NumSteps
  BY DEF StepsInOrder
<1>3. CASE SamePayload(s)
  BY <1>1, <1>2, <1>3, MessageType DEF SamePayload, StepsInOrder, Grows
<1>4. CASE queue[s] = None /\ queue'[s].step = 1 /\ queue'[s].remaining = Step
  BY <1>4 DEF Step
<1>5. ASSUME NEW h \in Handler, handler[h].pc = "executed",
             queue'[s].doc = handler[h].doc,
             queue'[s].remaining = handler[h].remaining,
             queue'[s].step = StepOf[h] + 1
      PROVE  /\ 1..(queue'[s].step - 1) \subseteq outputs'[queue'[s].doc]
             /\ queue'[s].remaining = queue'[s].step..NumSteps
  <2>1. InHand(h) /\ handler[h].doc \in Doc /\ StepOf[h] \in 1..NumSteps
    BY <1>1, <1>5, AtPc, InHandType DEF Pc, Busy, Step
  <2>2. /\ 1..(StepOf[h] - 1) \subseteq outputs[handler[h].doc]
        /\ StepOf[h] \in outputs[handler[h].doc]
        /\ handler[h].remaining = (StepOf[h] + 1)..NumSteps
    BY <1>1, <1>5, <2>1 DEF HandlersInOrder
  <2>3. 1..StepOf[h] \subseteq outputs[handler[h].doc]
    BY <2>1, <2>2
  <2>4. (StepOf[h] + 1) - 1 = StepOf[h]
    BY <2>1
  <2> QED BY <1>2, <1>5, <2>1, <2>2, <2>3, <2>4 DEF Grows
<1>6. SamePayload(s) \/ NewMessage(s)
  BY <1>2 DEF QueueFlow, GoneMessage
<1> QED BY <1>3, <1>4, <1>5, <1>6 DEF NewMessage

LEMMA HandlersInOrderStep ==
  ASSUME PipelineInvariant, [Next]_vars PROVE HandlersInOrder'
<1> USE PipelineAssumption
<1>1. TypeOK /\ StepsInOrder /\ HandlersInOrder
  BY DEF PipelineInvariant
<1>2. Grows /\ \A x \in Handler : HandlerFlow(x)
  BY <1>1, HandlerFlows, OnlyGrows
<1> SUFFICES ASSUME NEW h \in Handler, handler'[h] \notin {Idle, Down}
             PROVE  /\ 1..(StepOf[h] - 1) \subseteq outputs'[handler'[h].doc]
                    /\ handler'[h].pc \in {"received", "executing", "saving"} =>
                         handler'[h].remaining = StepOf[h]..NumSteps
                    /\ handler'[h].pc \in {"executed", "passed", "deleted"} =>
                         /\ StepOf[h] \in outputs'[handler'[h].doc]
                         /\ handler'[h].remaining = (StepOf[h] + 1)..NumSteps
  BY DEF HandlersInOrder, InHand
<1>3. CASE handler'[h] = handler[h]
  <2>1. InHand(h) /\ handler[h].doc \in Doc
    BY <1>1, <1>3, InHandType DEF InHand, Busy
  <2>2. outputs[handler[h].doc] \subseteq outputs'[handler[h].doc]
    BY <1>2, <2>1 DEF Grows
  <2> QED BY <1>1, <1>3, <2>1, <2>2 DEF HandlersInOrder
<1>4. CASE Takes(h)
  <2>1. PICK s \in Slot :
          /\ queue[s] # None /\ queue[s].step = StepOf[h]
          /\ handler'[h].pc = "received"
          /\ handler'[h].doc = queue[s].doc
          /\ handler'[h].remaining = queue[s].remaining
    BY <1>4 DEF Takes
  <2>2. outputs[queue[s].doc] \subseteq outputs'[queue[s].doc]
    BY <1>1, <1>2, <2>1, MessageType DEF Grows
  <2> QED BY <1>1, <2>1, <2>2 DEF StepsInOrder
<1>5. CASE GoesOn(h)
  <2>1. InHand(h) /\ handler[h].doc \in Doc /\ StepOf[h] \in 1..NumSteps
    BY <1>1, <1>5, InHandType DEF GoesOn, Busy, Step
  <2>2. handler'[h].doc = handler[h].doc
    BY <1>5 DEF GoesOn
  <2>3. outputs[handler[h].doc] \subseteq outputs'[handler[h].doc]
    BY <1>2, <2>1 DEF Grows
  <2>4. /\ 1..(StepOf[h] - 1) \subseteq outputs'[handler[h].doc]
        /\ handler[h].pc \in {"received", "executing", "saving"} =>
             handler[h].remaining = StepOf[h]..NumSteps
        /\ handler[h].pc \in {"executed", "passed", "deleted"} =>
             /\ StepOf[h] \in outputs'[handler[h].doc]
             /\ handler[h].remaining = (StepOf[h] + 1)..NumSteps
    BY <1>1, <2>1, <2>3 DEF HandlersInOrder
  <2>5. (StepOf[h]..NumSteps) \ {StepOf[h]} = (StepOf[h] + 1)..NumSteps
    BY <2>1
  <2>6. CASE handler'[h].pc \in {"failed", "reported", "dropped", "buried"}
    BY <2>2, <2>4, <2>6
  <2>7. CASE /\ handler[h].pc \in {"received", "executing"}
             /\ handler'[h].pc \in {"executing", "saving"}
             /\ handler'[h].remaining = handler[h].remaining
    BY <2>2, <2>4, <2>7
  <2>8. CASE /\ handler[h].pc \in {"executing", "saving"} /\ handler'[h].pc = "executed"
             /\ handler'[h].remaining = handler[h].remaining \ {StepOf[h]}
             /\ StepOf[h] \in outputs'[handler[h].doc]
    BY <2>2, <2>4, <2>5, <2>8
  <2>9. CASE /\ handler[h].pc \in {"executed", "passed"}
             /\ handler'[h].pc \in {"passed", "deleted"}
             /\ handler'[h].remaining = handler[h].remaining
    BY <2>2, <2>4, <2>9
  <2> QED BY <1>5, <2>6, <2>7, <2>8, <2>9 DEF GoesOn
<1> QED BY <1>2, <1>3, <1>4, <1>5 DEF HandlerFlow

LEMMA HoldsOwnStep ==
  ASSUME PipelineInvariant, [Next]_vars PROVE HoldsOwn'
<1>1. TypeOK /\ HoldsOwn
  BY DEF PipelineInvariant
<1>2. QueueFlow /\ \A x \in Handler : HolderFlow(x) /\ HandlerFlow(x)
  BY <1>1, QueueFlows, HandlerFlows
<1> SUFFICES ASSUME NEW h \in Handler, handler'[h] \notin {Idle, Down},
                    queue'[handler'[h].slot] # None,
                    queue'[handler'[h].slot].holder = h
             PROVE  /\ queue'[handler'[h].slot].doc = handler'[h].doc
                    /\ queue'[handler'[h].slot].step = StepOf[h]
  BY DEF HoldsOwn, InHand, Holds
<1>3. TypeOK'
  BY <1>1, TypeStep
<1>4. handler'[h].slot \in Slot
  BY <1>3 DEF TypeOK, Busy
<1>5. CASE Takes(h)
  BY <1>5 DEF Takes
<1>6. CASE /\ handler'[h].doc = queue'[handler'[h].slot].doc
           /\ queue'[handler'[h].slot].step = StepOf[h]
  BY <1>6
<1>7. CASE /\ queue[handler'[h].slot] # None /\ queue[handler'[h].slot].holder = h
           /\ InHand(h) /\ handler'[h].slot = handler[h].slot
           /\ handler'[h].doc = handler[h].doc
  <2>1. /\ queue[handler[h].slot].doc = handler[h].doc
        /\ queue[handler[h].slot].step = StepOf[h]
    BY <1>1, <1>7 DEF HoldsOwn, Holds
  <2>2. SamePayload(handler[h].slot)
    BY <1>2, <1>4, <1>7 DEF QueueFlow, NewMessage, GoneMessage
  <2> QED BY <1>7, <2>1, <2>2 DEF SamePayload
<1>8. handler'[h] = handler[h] \/ Takes(h) \/ GoesOn(h)
  BY <1>2 DEF HandlerFlow
<1>9. \/ queue[handler'[h].slot] # None /\ queue[handler'[h].slot].holder = h
      \/ /\ handler'[h].doc = queue'[handler'[h].slot].doc
         /\ queue'[handler'[h].slot].step = StepOf[h]
  BY <1>2, <1>4 DEF HolderFlow
<1> QED BY <1>5, <1>6, <1>7, <1>8, <1>9 DEF GoesOn, InHand

(* Kept(d, k), said of the state after a step.                             *)
KeptNext(d, k) ==
  \/ \E s \in Slot : queue'[s] # None /\ queue'[s].doc = d /\ queue'[s].step >= k
  \/ \E j \in Step : j >= k /\ <<d, j>> \in deadLetters'
  \/ NumSteps \in outputs'[d]

(* What is kept at a step is kept there or later for good: its message is  *)
(* deleted only by a handler that has passed the document on or buried it. *)
LEMMA KeptStays ==
  ASSUME PipelineInvariant, [Next]_vars, NEW d \in Doc, NEW k \in Nat, Kept(d, k)
  PROVE  KeptNext(d, k)
<1> USE PipelineAssumption
<1>1. TypeOK /\ HoldsOwn /\ KeptBeforeDelete
  BY DEF PipelineInvariant
<1>2. QueueFlow /\ Grows
  BY <1>1, QueueFlows, OnlyGrows
<1>3. CASE NumSteps \in outputs[d] \/ \E j \in Step : j >= k /\ <<d, j>> \in deadLetters
  BY <1>2, <1>3 DEF KeptNext, Grows
<1>4. ASSUME NEW s \in Slot, queue[s] # None, queue[s].doc = d, queue[s].step >= k,
             SamePayload(s)
      PROVE  KeptNext(d, k)
  BY <1>4 DEF KeptNext, SamePayload
<1>5. ASSUME NEW s \in Slot, queue[s] # None, queue[s].doc = d, queue[s].step >= k,
             GoneMessage(s), \A t \in Slot \ {s} : SamePayload(t)
      PROVE  KeptNext(d, k)
  <2>1. PICK h \in Handler : /\ InHand(h) /\ Holds(h) /\ handler[h].slot = s
                             /\ handler[h].pc \in {"passed", "buried"}
    BY <1>5 DEF GoneMessage
  <2>2. handler[h].doc = d /\ queue[s].step = StepOf[h]
    BY <1>1, <1>5, <2>1 DEF HoldsOwn
  <2>3. StepOf[h] \in Nat /\ StepOf[h] \in Step
    BY DEF Step
  <2>4. CASE handler[h].pc = "buried"
    <3>1. <<d, StepOf[h]>> \in deadLetters
      BY <1>1, <2>1, <2>2, <2>4 DEF KeptBeforeDelete
    <3> QED BY <1>3, <1>5, <2>2, <2>3, <3>1
  <2>5. CASE handler[h].pc = "passed"
    <3>1. Kept(d, StepOf[h] + 1)
      BY <1>1, <2>1, <2>2, <2>5 DEF KeptBeforeDelete
    <3>2. \A j \in Step : j >= StepOf[h] + 1 => j >= k /\ j # StepOf[h]
      BY <1>5, <2>2, <2>3 DEF Step
    <3>3. CASE NumSteps \in outputs[d]
      BY <1>3, <3>3
    <3>4. CASE \E j \in Step : j >= StepOf[h] + 1 /\ <<d, j>> \in deadLetters
      BY <1>3, <3>2, <3>4
    <3>5. ASSUME NEW t \in Slot, queue[t] # None, queue[t].doc = d,
                 queue[t].step >= StepOf[h] + 1
          PROVE  KeptNext(d, k)
      <4>1. queue[t].step \in Step
        BY <1>1, <3>5, MessageType
      <4>2. t # s /\ queue[t].step >= k
        BY <2>2, <3>2, <3>5, <4>1
      <4> QED BY <1>4, <1>5, <3>5, <4>2
    <3> QED BY <3>1, <3>3, <3>4, <3>5 DEF Kept
  <2> QED BY <2>1, <2>4, <2>5
<1>6. ASSUME NEW s \in Slot, queue[s] # None
      PROVE  SamePayload(s) \/ (GoneMessage(s) /\ \A t \in Slot \ {s} : SamePayload(t))
  BY <1>2, <1>6 DEF QueueFlow, NewMessage
<1> QED BY <1>3, <1>4, <1>5, <1>6 DEF Kept

LEMMA KeptBeforeDeleteStep ==
  ASSUME PipelineInvariant, [Next]_vars PROVE KeptBeforeDelete'
<1> USE PipelineAssumption
<1>1. TypeOK /\ HandlersInOrder /\ KeptBeforeDelete
  BY DEF PipelineInvariant
<1>2. Grows /\ \A x \in Handler : HandlerFlow(x)
  BY <1>1, HandlerFlows, OnlyGrows
<1> SUFFICES ASSUME NEW h \in Handler, handler'[h] \notin {Idle, Down}
             PROVE  /\ handler'[h].pc = "passed" => KeptNext(handler'[h].doc, StepOf[h] + 1)
                    /\ handler'[h].pc = "buried" =>
                         <<handler'[h].doc, StepOf[h]>> \in deadLetters'
  BY DEF KeptBeforeDelete, InHand, Kept, KeptNext
<1>3. StepOf[h] \in 1..NumSteps /\ StepOf[h] + 1 \in Nat
  BY DEF Step
<1>4. CASE handler'[h] = handler[h]
  <2>1. InHand(h) /\ handler[h].doc \in Doc
    BY <1>1, <1>4, InHandType DEF InHand, Busy
  <2>2. ASSUME handler[h].pc = "passed" PROVE KeptNext(handler[h].doc, StepOf[h] + 1)
    <3>1. Kept(handler[h].doc, StepOf[h] + 1)
      BY <1>1, <2>1, <2>2 DEF KeptBeforeDelete
    <3> QED BY <1>3, <2>1, <3>1, KeptStays
  <2>3. handler[h].pc = "buried" => <<handler[h].doc, StepOf[h]>> \in deadLetters'
    BY <1>1, <1>2, <2>1 DEF KeptBeforeDelete, Grows
  <2> QED BY <1>4, <2>2, <2>3
<1>5. CASE Takes(h)
  BY <1>5 DEF Takes
<1>6. CASE GoesOn(h)
  <2>1. InHand(h) /\ handler[h].doc \in Doc /\ handler'[h].doc = handler[h].doc
    BY <1>1, <1>6, InHandType DEF GoesOn, Busy
  <2>2. ASSUME handler'[h].pc = "passed" PROVE KeptNext(handler'[h].doc, StepOf[h] + 1)
    <3>1. handler[h].pc = "executed"
      BY <1>6, <2>2 DEF GoesOn
    <3>2. CASE StepOf[h] = NumSteps
      <4>1. NumSteps \in outputs[handler[h].doc]
        BY <1>1, <2>1, <3>1, <3>2 DEF HandlersInOrder
      <4> QED BY <1>2, <2>1, <4>1 DEF KeptNext, Grows
    <3>3. ASSUME NEW s \in Slot, queue'[s] # None, queue'[s].doc = handler[h].doc,
                 queue'[s].step = StepOf[h] + 1
          PROVE  KeptNext(handler'[h].doc, StepOf[h] + 1)
      BY <1>3, <2>1, <3>3 DEF KeptNext
    <3> QED BY <1>6, <2>2, <3>1, <3>2, <3>3 DEF GoesOn
  <2>3. handler'[h].pc = "buried" => <<handler'[h].doc, StepOf[h]>> \in deadLetters'
    BY <1>6, <2>1 DEF GoesOn
  <2> QED BY <2>2, <2>3
<1> QED BY <1>2, <1>4, <1>5, <1>6 DEF HandlerFlow

(* A document that is sent is on the first queue.                          *)
LEMMA NewlySent ==
  ASSUME TypeOK, [Next]_vars, NEW d \in sent', d \notin sent
  PROVE  \E s \in Slot : queue'[s] # None /\ queue'[s].doc = d
<1>1. CASE sent' = sent
  BY <1>1
<1>2. ASSUME NEW e \in Doc, ApiSends(e) \/ WorkflowSends(e)
      PROVE  \E s \in Slot : queue'[s] # None /\ queue'[s].doc = d
  <2>1. d = e
    BY <1>2 DEF ApiSends, WorkflowSends
  <2>2. Send(e, Step, 1) /\ 1 \in Step
    BY <1>2, PipelineAssumption DEF ApiSends, WorkflowSends, Step
  <2> QED BY <2>1, <2>2, SendIsNew DEF Lands, LandsIn
<1> QED BY <1>1, <1>2
        DEF Next, vars, HandlerStep, SubmitStep, Receive, Begin, SaveResult, WriteOutput,
            PassOn, Delete, Finish, Report, Retry, Bury, DeleteBuried, ReportAgain,
            Refused, Restart, Raises, Crash, Expire, ApiRecords, WorkflowRecords,
            Redeliver, ShortCircuit, OnlyFilesLeft

LEMMA NoDocumentLostStep ==
  ASSUME PipelineInvariant, [Next]_vars PROVE NoDocumentLost'
<1>1. TypeOK /\ NoDocumentLost
  BY DEF PipelineInvariant
<1> SUFFICES ASSUME NEW d \in sent'
             PROVE  \/ \E s \in Slot : queue'[s] # None /\ queue'[s].doc = d
                    \/ \E k \in Step : <<d, k>> \in deadLetters'
                    \/ NumSteps \in outputs'[d]
  BY DEF NoDocumentLost
<1>2. CASE d \in sent
  <2>1. \A k \in Step : k >= 1
    BY DEF Step
  <2>2. Kept(d, 1)
    BY <1>1, <1>2, <2>1, MessageType DEF NoDocumentLost, Kept
  <2>3. KeptNext(d, 1)
    BY <1>1, <1>2, <2>2, KeptStays DEF TypeOK
  <2> QED BY <2>3 DEF KeptNext
<1>3. CASE d \notin sent
  BY <1>1, <1>3, NewlySent
<1> QED BY <1>2, <1>3

LEMMA CompletedMeansSavedStep ==
  ASSUME PipelineInvariant, [Next]_vars PROVE CompletedMeansSaved'
<1> USE PipelineAssumption
<1>1. TypeOK /\ HandlersInOrder /\ CompletedMeansSaved
  BY DEF PipelineInvariant
<1>2. Grows /\ \A d \in Doc : RecordFlow(d)
  BY <1>1, RecordFlows, OnlyGrows
<1> SUFFICES ASSUME NEW d \in Doc, record'[d] # None, record'[d].status = "Completed"
             PROVE  NumSteps \in outputs'[d]
  BY DEF CompletedMeansSaved
<1>3. CASE record'[d] = record[d]
  BY <1>1, <1>2, <1>3 DEF CompletedMeansSaved, Grows
<1>4. ASSUME NEW h \in Handler, handler[h].pc = "deleted", handler[h].doc = d,
             handler[h].remaining = {}
      PROVE  NumSteps \in outputs'[d]
  <2>1. InHand(h) /\ StepOf[h] \in 1..NumSteps
    BY <1>4, AtPc DEF Pc, Step
  <2>2. StepOf[h] \in outputs[d] /\ (StepOf[h] + 1)..NumSteps = {}
    BY <1>1, <1>4, <2>1 DEF HandlersInOrder
  <2>3. StepOf[h] = NumSteps
    BY <2>1, <2>2
  <2> QED BY <1>2, <2>2, <2>3 DEF Grows
<1> QED BY <1>2, <1>3, <1>4 DEF RecordFlow
-----------------------------------------------------------------------------
LEMMA PipelineInvariantInit == Init => PipelineInvariant
<1> SUFFICES ASSUME Init PROVE PipelineInvariant
  OBVIOUS
<1>1. TypeOK
  BY TypeInit
<1>2. NoDocumentLost /\ StepsInOrder /\ CompletedMeansSaved
  BY DEF Init, NoDocumentLost, StepsInOrder, CompletedMeansSaved
<1>3. HoldsOwn /\ HandlersInOrder /\ KeptBeforeDelete
  BY DEF Init, HoldsOwn, HandlersInOrder, KeptBeforeDelete, InHand
<1> QED BY <1>1, <1>2, <1>3 DEF PipelineInvariant

LEMMA PipelineInvariantStep == PipelineInvariant /\ [Next]_vars => PipelineInvariant'
<1> SUFFICES ASSUME PipelineInvariant, [Next]_vars PROVE PipelineInvariant'
  OBVIOUS
<1>1. TypeOK'
  BY TypeStep DEF PipelineInvariant
<1> QED BY <1>1, NoDocumentLostStep, StepsInOrderStep, CompletedMeansSavedStep,
           HoldsOwnStep, HandlersInOrderStep, KeptBeforeDeleteStep
        DEF PipelineInvariant

(* The inductive invariant holds in every reachable state.                 *)
THEOREM PipelineInvariantHolds == Spec => []PipelineInvariant
<1> QED BY PipelineInvariantInit, PipelineInvariantStep, PTL DEF Spec

(* Custody: a document that was sent is never lost, whatever crashes,      *)
(* expires, fails or is delivered twice: the handlers pass a document on,  *)
(* or dead-letter it, before they delete its message.                      *)
THEOREM DocumentsAreKept == Spec => []NoDocumentLost
<1>1. PipelineInvariant => NoDocumentLost
  BY DEF PipelineInvariant
<1> QED BY <1>1, PipelineInvariantHolds, PTL

(* A step never runs without the output of the steps before it.            *)
THEOREM StepsRunInOrder == Spec => []StepsInOrder
<1>1. PipelineInvariant => StepsInOrder
  BY DEF PipelineInvariant
<1> QED BY <1>1, PipelineInvariantHolds, PTL

(* The status Completed, however many duplicates of a document are under   *)
(* way, is only said of a document whose save step has written its output. *)
THEOREM CompletedIsSaved == Spec => []CompletedMeansSaved
<1>1. PipelineInvariant => CompletedMeansSaved
  BY DEF PipelineInvariant
<1> QED BY <1>1, PipelineInvariantHolds, PTL
=============================================================================
