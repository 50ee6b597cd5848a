----------------------- MODULE ServiceContainerProofs -----------------------
(***************************************************************************)
(* Proofs about ServiceContainer for any number of tasks, services, scopes *)
(* and faults: its types, and, when one task at most opens scopes, what a  *)
(* scope holds and leaves behind.                                          *)
(***************************************************************************)
EXTENDS ServiceContainer, TLAPS

Kept == [service : Service, for : Scope \cup {None}, open : BOOLEAN]
TaskRecord ==
  [open : Seq(Frame), at : {"run", "make", "close"},
   service : Service \cup {None}, via : Scope \cup {None},
   old : Scope \cup {None}, todo : SUBSET Nat]

(* What TypeOK asks of one task when n instances have been made.           *)
TaskOK(r, n) ==
  /\ r \in TaskRecord /\ r.todo \subseteq 1..n
  /\ r.at = "make" => r.service \in Service
  /\ r.at = "close" => r.open # <<>>

(* The task t becomes r and every other task stays.                        *)
Becomes(t, r) == task' = [task EXCEPT ![t] = r]

LEMMA TypeInParts ==
  TypeOK <=>
    /\ instances \in [Service -> Nat \cup {None}]
    /\ entries \in [Scope -> [Service -> Nat \cup {None}] \cup {None}]
    /\ current \in Scope \cup {None}
    /\ task \in [Task -> TaskRecord] /\ \A t \in Task : TaskOK(task[t], Len(made))
    /\ \A c \in Scope, v \in Service : Holds(c, v) \in 1..Len(made) \cup {None}
    /\ made \in Seq(Kept)
    /\ past \in [opened : SUBSET Scope, ended : SUBSET Scope, spoiled : BOOLEAN,
                 faults : Nat]
BY DEF TypeOK, TaskOK, TaskRecord, Kept, At, Instance

LEMMA BecomesFacts ==
  ASSUME TypeOK, NEW t \in Task, NEW r, Becomes(t, r)
  PROVE  task'[t] = r /\ \A s \in Task \ {t} : task'[s] = task[s]
BY DEF TypeOK, Becomes

LEMMA BecomesOK ==
  ASSUME TypeOK, NEW t \in Task, NEW r, Becomes(t, r), NEW n \in Nat, TaskOK(r, n),
         Len(made) <= n
  PROVE  task' \in [Task -> TaskRecord] /\ \A s \in Task : TaskOK(task'[s], n)
<1>1. Len(made) \in Nat
  BY TypeInParts
<1>2. \A s \in Task : TaskOK(task[s], n)
  BY <1>1, TypeInParts DEF TaskOK
<1>3. \A s \in Task : TaskOK(task'[s], n)
  BY <1>2, BecomesFacts
<1> QED BY <1>3, TypeInParts DEF Becomes, TaskOK

LEMMA InnermostOK ==
  ASSUME TypeOK, NEW t \in Task
  PROVE  /\ Innermost(t) \in Scope \cup {None} /\ Opened(t) \subseteq Scope
         /\ task[t].open \in Seq(Frame) /\ Len(task[t].open) \in Nat
         /\ DOMAIN task[t].open = 1..Len(task[t].open)
         /\ \A k \in 1..Len(task[t].open) : task[t].open[k] \in Frame
         /\ task[t].open # <<>> => /\ Len(task[t].open) >= 1
                                   /\ Innermost(t) \in Opened(t)
                                   /\ Innermost(t) = task[t].open[Len(task[t].open)].scope
<1>1. task[t].open \in Seq(Frame)
  BY TypeInParts DEF TaskRecord
<1>2. /\ Len(task[t].open) \in Nat /\ DOMAIN task[t].open = 1..Len(task[t].open)
      /\ \A k \in 1..Len(task[t].open) : task[t].open[k] \in Frame
      /\ task[t].open # <<>> => Len(task[t].open) >= 1
  BY <1>1
<1> QED BY <1>1, <1>2 DEF Innermost, Opened, Frame

LEMMA MakesFacts ==
  ASSUME TypeOK, NEW t \in Task, NEW v \in Service, NEW via \in Scope \cup {None},
         Makes(t, v, via)
  PROVE  /\ made' \in Seq(Kept) /\ Len(made) \in Nat /\ Len(made') = Len(made) + 1
         /\ \A i \in 1..Len(made) : made'[i] = made[i]
         /\ made'[Len(made) + 1] = [service |-> v, for |-> Means(t, via), open |-> TRUE]
<1>1. [service |-> v, for |-> Means(t, via), open |-> TRUE] \in Kept
  BY InnermostOK DEF Means, Kept
<1> QED BY <1>1, TypeInParts DEF Makes

LEMMA KeepOK ==
  ASSUME TypeOK, NEW c \in Scope, NEW v \in Service, NEW i \in Nat, Keep(c, v, i)
  PROVE  /\ entries' \in [Scope -> [Service -> Nat \cup {None}] \cup {None}]
         /\ \A d \in Scope, w \in Service :
              Holds(d, w)' = IF d = c /\ w = v THEN i ELSE Holds(d, w)
<1>1. /\ entries \in [Scope -> [Service -> Nat \cup {None}] \cup {None}]
      /\ None \notin [Service -> Nat \cup {None}]
  BY ContainerAssumption, TypeInParts
<1> DEFINE old == IF entries[c] = None THEN [w \in Service |-> None] ELSE entries[c]
<1>2. old \in [Service -> Nat \cup {None}] /\ entries' = [entries EXCEPT ![c] = [old EXCEPT ![v] = i]]
  BY <1>1 DEF Keep
<1>3. [old EXCEPT ![v] = i] \in [Service -> Nat \cup {None}]
  BY <1>2
<1>4. ASSUME NEW d \in Scope, NEW w \in Service
      PROVE  Holds(d, w)' = IF d = c /\ w = v THEN i ELSE Holds(d, w)
  <2>1. CASE d = c
    <3>1. entries'[d] # None /\ entries'[d][w] = IF w = v THEN i ELSE old[w]
      BY <1>1, <1>2, <1>3, <2>1
    <3>2. old[w] = Holds(d, w)
      BY <2>1 DEF Holds
    <3> HIDE DEF old
    <3> QED BY <2>1, <3>1, <3>2 DEF Holds
  <2>2. CASE d # c
    BY <1>1, <1>2, <2>2 DEF Holds
  <2> QED BY <2>1, <2>2
<1> HIDE DEF old
<1> QED BY <1>1, <1>2, <1>3, <1>4

---------------------------------------------------------------------------
(* Types.                                                                  *)

LEMMA TypeInit == Init => TypeOK
BY ContainerAssumption DEF Init, TypeOK, At, Instance, Holds

(* The record a task becomes in each of the ways the actions have.         *)
LEMMA TaskFacts ==
  ASSUME TypeOK, NEW t \in Task
  PROVE  /\ task[t] \in TaskRecord /\ task[t].todo \subseteq 1..Len(made)
         /\ Len(made) \in Nat /\ 1..Len(made) \subseteq Nat
         /\ At(t, "make") => task[t].service \in Service
         /\ At(t, "close") => task[t].open # <<>>
BY TypeInParts DEF TaskOK, At

LEMMA MakeTaskOK ==
  ASSUME TypeOK, NEW t \in Task, NEW v \in Service, NEW via \in Scope \cup {None}
  PROVE  TaskOK([task[t] EXCEPT !.at = "make", !.service = v, !.via = via,
                                !.old = current], Len(made))
<1>1. current \in Scope \cup {None}
  BY TypeInParts
<1> QED BY <1>1, TaskFacts DEF TaskOK, TaskRecord

LEMMA RunTaskOK ==
  ASSUME TypeOK, NEW t \in Task
  PROVE  TaskOK([task[t] EXCEPT !.at = "run", !.service = None, !.via = None,
                                !.old = None], Len(made))
BY TaskFacts DEF TaskOK, TaskRecord

LEMMA CloseTaskOK ==
  ASSUME TypeOK, NEW t \in Task, NEW d \in SUBSET (1..Len(made)), task[t].open # <<>>
  PROVE  /\ TaskOK([task[t] EXCEPT !.at = "close", !.todo = d], Len(made))
         /\ At(t, "close") => TaskOK([task[t] EXCEPT !.todo = d], Len(made))
BY TaskFacts DEF TaskOK, TaskRecord, At

LEMMA OpenTaskOK ==
  ASSUME TypeOK, NEW t \in Task, NEW open \in Seq(Frame)
  PROVE  /\ At(t, "run") => TaskOK([task[t] EXCEPT !.open = open], Len(made))
         /\ TaskOK([task[t] EXCEPT !.at = "run", !.todo = {}, !.open = open], Len(made))
BY TaskFacts DEF TaskOK, TaskRecord, At

LEMMA MoreMadeOK ==
  ASSUME NEW r, NEW m \in Nat, NEW n \in Nat, m <= n, TaskOK(r, m)
  PROVE  TaskOK(r, n)
BY DEF TaskOK

(* What is kept in no scope or cached in none changes one entry at most.   *)
LEMMA CacheOK ==
  ASSUME TypeOK, NEW v \in Service, NEW i \in Nat, Cache(v, i)
  PROVE  /\ instances' \in [Service -> Nat \cup {None}]
         /\ \A w \in Service : instances'[w] = IF w = v THEN i ELSE instances[w]
BY DEF TypeOK, Cache


(* When n instances are made and t becomes r, the tasks keep their types.  *)
LEMMA ReturnsFacts ==
  ASSUME TypeOK, NEW t \in Task, Returns(t)
  PROVE  /\ Becomes(t, [task[t] EXCEPT !.at = "run", !.service = None, !.via = None,
                                       !.old = None])
         /\ current' \in Scope \cup {None}
BY TypeInParts DEF Returns, PutBack, Becomes, TaskOK, TaskRecord

LEMMA PopFacts ==
  ASSUME TypeOK, NEW t \in Task, Pop(t), task[t].open # <<>>
  PROVE  LET open == SubSeq(task[t].open, 1, Len(task[t].open) - 1) IN
         /\ open \in Seq(Frame)
         /\ Becomes(t, [task[t] EXCEPT !.at = "run", !.todo = {}, !.open = open])
<1>1. task[t].open \in Seq(Frame) /\ Len(task[t].open) \in Nat /\ Len(task[t].open) >= 1
  BY InnermostOK
<1>2. SubSeq(task[t].open, 1, Len(task[t].open) - 1) \in Seq(Frame)
  BY <1>1
<1> QED BY <1>2 DEF Pop, Becomes

LEMMA TypeStep == TypeOK /\ [Next]_vars => TypeOK'
<1> SUFFICES ASSUME TypeOK, [Next]_vars PROVE TypeOK'
  OBVIOUS
<1>0. /\ instances \in [Service -> Nat \cup {None}]
      /\ entries \in [Scope -> [Service -> Nat \cup {None}] \cup {None}]
      /\ current \in Scope \cup {None}
      /\ task \in [Task -> TaskRecord]
      /\ \A s \in Task : TaskOK(task[s], Len(made))
      /\ \A c \in Scope, v \in Service : Holds(c, v) \in 1..Len(made) \cup {None}
      /\ made \in Seq(Kept) /\ Len(made) \in Nat
      /\ past \in [opened : SUBSET Scope, ended : SUBSET Scope, spoiled : BOOLEAN,
                   faults : Nat]
  BY TypeInParts
<1> DEFINE Tasks(n) == /\ task' \in [Task -> TaskRecord]
                       /\ \A s \in Task : TaskOK(task'[s], n)
           Store(n) == /\ instances' \in [Service -> Nat \cup {None}]
                       /\ entries' \in [Scope -> [Service -> Nat \cup {None}] \cup {None}]
                       /\ \A c \in Scope, v \in Service : Holds(c, v)' \in 1..n \cup {None}
                       /\ made' \in Seq(Kept) /\ Len(made') = n
           Scopes == /\ current' \in Scope \cup {None}
                     /\ past' \in [opened : SUBSET Scope, ended : SUBSET Scope,
                                   spoiled : BOOLEAN, faults : Nat]
<1>1. ASSUME NEW n \in Nat, Tasks(n), Store(n), Scopes
      PROVE  TypeOK'
  BY <1>1 DEF TypeOK, TaskOK, At, Instance, TaskRecord, Kept
<1>2. ASSUME UNCHANGED <<instances, entries, made>>
      PROVE  Store(Len(made))
  BY <1>0, <1>2 DEF Holds
<1>3. ASSUME NEW t \in Task, NEW r, Becomes(t, r), NEW n \in Nat, Len(made) <= n, TaskOK(r, n)
      PROVE  Tasks(n)
  BY <1>3, BecomesOK
<1>4. ASSUME NEW t \in Task, Returns(t), NEW n \in Nat, Len(made) <= n
      PROVE  Tasks(n) /\ current' \in Scope \cup {None}
  <2> DEFINE r == [task[t] EXCEPT !.at = "run", !.service = None, !.via = None, !.old = None]
  <2>1. Becomes(t, r) /\ current' \in Scope \cup {None}
    BY <1>4, ReturnsFacts
  <2>2. TaskOK(r, Len(made))
    BY RunTaskOK
  <2> HIDE DEF r
  <2>3. TaskOK(r, n)
    BY <1>0, <1>4, <2>2, MoreMadeOK
  <2> HIDE DEF Tasks
  <2> QED BY <1>3, <1>4, <2>1, <2>3
<1>5. ASSUME NEW t \in Task, NEW v \in Service, NEW via \in Scope \cup {None}, Makes(t, v, via),
             \/ Cache(v, Len(made) + 1) /\ UNCHANGED entries
             \/ \E c \in Scope : Keep(c, v, Len(made) + 1) /\ UNCHANGED instances
             \/ UNCHANGED <<instances, entries>>
      PROVE  Store(Len(made) + 1)
  <2>1. made' \in Seq(Kept) /\ Len(made') = Len(made) + 1 /\ Len(made) + 1 \in Nat
    <3>1. Makes(t, v, via)
      BY <1>5
    <3>2. made' \in Seq(Kept) /\ Len(made) \in Nat /\ Len(made') = Len(made) + 1
      BY <3>1, MakesFacts
    <3> QED BY <3>2
  <2>2. CASE Cache(v, Len(made) + 1) /\ UNCHANGED entries
    BY <1>0, <2>1, <2>2, CacheOK DEF Holds
  <2>3. ASSUME NEW c \in Scope, Keep(c, v, Len(made) + 1), UNCHANGED instances
        PROVE  Store(Len(made) + 1)
    BY <1>0, <2>1, <2>3, KeepOK
  <2>4. CASE UNCHANGED <<instances, entries>>
    BY <1>0, <2>1, <2>4 DEF Holds
  <2> QED BY <1>5, <2>2, <2>3, <2>4
<1> HIDE DEF Tasks, Store
<1>6. CASE UNCHANGED vars
  <2>1. Tasks(Len(made))
    BY <1>0, <1>6 DEF vars, Tasks
  <2> QED BY <1>0, <1>1, <1>2, <1>6, <2>1 DEF vars
<1>7. ASSUME NEW t \in Task, GetService(t) PROVE TypeOK'
  <2>1. PICK v \in Service, via \in Opened(t) \cup {None} :
          /\ Makes(t, v, via)
          /\ \/ Cache(v, Len(made) + 1) /\ UNCHANGED entries
             \/ /\ (IF via = None THEN current ELSE via) # None
                /\ Keep(IF via = None THEN current ELSE via, v, Len(made) + 1)
                /\ UNCHANGED instances
    BY <1>7 DEF GetService
  <2>2. via \in Scope \cup {None}
    BY InnermostOK
  <2>3. Store(Len(made) + 1) /\ Len(made) + 1 \in Nat
    BY <1>0, <1>5, <2>1, <2>2
  <2>4. Tasks(Len(made) + 1)
    BY <1>0, <1>7, MoreMadeOK DEF GetService, Tasks
  <2> QED BY <1>0, <1>1, <1>7, <2>3, <2>4 DEF GetService
<1>8. ASSUME NEW t \in Task, GetServiceAsync(t) PROVE TypeOK'
  <2>1. PICK v \in Service, via \in Opened(t) \cup {None} :
          /\ current' = IF via = None THEN current ELSE via
          /\ task' = [task EXCEPT ![t].at = "make", ![t].service = v, ![t].via = via,
                                  ![t].old = current]
    BY <1>8 DEF GetServiceAsync
  <2>2. via \in Scope \cup {None}
    BY InnermostOK
  <2> DEFINE r == [task[t] EXCEPT !.at = "make", !.service = v, !.via = via, !.old = current]
  <2>3. Becomes(t, r)
    BY <2>1, TaskFacts DEF Becomes, TaskRecord
  <2>4. TaskOK(r, Len(made))
    BY <2>2, MakeTaskOK
  <2> HIDE DEF r
  <2>5. Tasks(Len(made))
    BY <1>0, <1>3, <2>3, <2>4
  <2> QED BY <1>0, <1>1, <1>2, <1>8, <2>1, <2>2, <2>5 DEF GetServiceAsync
<1>9. ASSUME NEW t \in Task, Made(t) PROVE TypeOK'
  <2>1. task[t].service \in Service /\ task[t].via \in Scope \cup {None}
    BY <1>9, TaskFacts DEF Made, TaskRecord
  <2>2. Store(Len(made) + 1) /\ Len(made) + 1 \in Nat
    BY <1>0, <1>5, <1>9, <2>1 DEF Made
  <2>3. Tasks(Len(made) + 1) /\ current' \in Scope \cup {None}
    BY <1>0, <1>4, <1>9, <2>2 DEF Made
  <2> QED BY <1>0, <1>1, <1>9, <2>2, <2>3 DEF Made
<1>10. ASSUME NEW t \in Task, NotMade(t) PROVE TypeOK'
  <2>1. Tasks(Len(made)) /\ current' \in Scope \cup {None}
    BY <1>0, <1>4, <1>10 DEF NotMade
  <2>2. Scopes
    BY <1>0, <1>10, <2>1 DEF NotMade, Fault
  <2> QED BY <1>0, <1>1, <1>2, <1>10, <2>1, <2>2 DEF NotMade
<1>11. ASSUME NEW t \in Task, EnterScope(t) PROVE TypeOK'
  <2>1. PICK c \in Scope :
          /\ current' = c
          /\ Becomes(t, [task[t] EXCEPT !.open =
                          Append(task[t].open, [scope |-> c, old |-> current])])
          /\ past' = [past EXCEPT !.opened = @ \cup {c}]
    BY <1>11 DEF EnterScope, Becomes
  <2> DEFINE open == Append(task[t].open, [scope |-> c, old |-> current])
             r == [task[t] EXCEPT !.open = open]
  <2>2. open \in Seq(Frame)
    <3>1. [scope |-> c, old |-> current] \in Frame
      BY <1>0 DEF Frame
    <3> QED BY <3>1, InnermostOK
  <2> HIDE DEF open
  <2>3. TaskOK(r, Len(made))
    BY <1>11, <2>2, OpenTaskOK DEF EnterScope
  <2>4. Becomes(t, r)
    BY <2>1 DEF open
  <2> HIDE DEF r
  <2>5. Tasks(Len(made))
    BY <1>0, <1>3, <2>3, <2>4
  <2> QED BY <1>0, <1>1, <1>2, <1>11, <2>1, <2>5 DEF EnterScope
<1>12. ASSUME NEW t \in Task, ExitScope(t) PROVE TypeOK'
  <2> DEFINE d == {Holds(Innermost(t), v) : v \in {w \in Service : Closes(w)}} \ {None}
  <2>1. Becomes(t, [task[t] EXCEPT !.at = "close", !.todo = d]) /\ task[t].open # <<>>
    BY <1>12 DEF ExitScope, Becomes
  <2>2. Innermost(t) \in Scope
    BY <2>1, InnermostOK
  <2>3. d \in SUBSET (1..Len(made))
    BY <1>0, <2>2
  <2> HIDE DEF d
  <2> DEFINE r == [task[t] EXCEPT !.at = "close", !.todo = d]
  <2>5. TaskOK(r, Len(made)) /\ Becomes(t, r)
    BY <2>1, <2>3, CloseTaskOK
  <2> HIDE DEF r
  <2>4. Tasks(Len(made))
    BY <1>0, <1>3, <2>5
  <2> QED BY <1>0, <1>1, <1>2, <1>12, <2>4 DEF ExitScope
<1>13. ASSUME NEW t \in Task, Close(t) PROVE TypeOK'
  <2>1. PICK i \in task[t].todo :
          /\ made' = [made EXCEPT ![i].open = FALSE]
          /\ Becomes(t, [task[t] EXCEPT !.todo = task[t].todo \ {i}])
    BY <1>13 DEF Close, Becomes
  <2> DEFINE r == [task[t] EXCEPT !.todo = task[t].todo \ {i}]
  <2>2. task[t].todo \ {i} \in SUBSET (1..Len(made)) /\ task[t].open # <<>> /\ i \in 1..Len(made)
    BY <1>13, TaskFacts DEF Close
  <2>6. TaskOK(r, Len(made)) /\ Becomes(t, r)
    BY <1>13, <2>1, <2>2, CloseTaskOK DEF Close
  <2> HIDE DEF r
  <2>3. Tasks(Len(made))
    BY <1>0, <1>3, <2>6
  <2>4. made' \in Seq(Kept) /\ Len(made') = Len(made)
    <3>1. made[i] \in Kept
      BY <1>0, <2>2
    <3>1a. [made[i] EXCEPT !.open = FALSE] \in Kept
      BY <3>1 DEF Kept
    <3>2. made' = [made EXCEPT ![i] = [made[i] EXCEPT !.open = FALSE]]
      BY <2>1
    <3> QED BY <1>0, <2>2, <3>1a, <3>2
  <2>5. Store(Len(made))
    BY <1>0, <1>13, <2>4 DEF Store, Close, Holds
  <2> QED BY <1>0, <1>1, <1>13, <2>3, <2>5 DEF Close
<1>14. ASSUME NEW t \in Task, Pop(t), At(t, "close") PROVE Tasks(Len(made))
  <2>1. task[t].open # <<>>
    BY <1>14, TaskFacts
  <2> DEFINE open == SubSeq(task[t].open, 1, Len(task[t].open) - 1)
             r == [task[t] EXCEPT !.at = "run", !.todo = {}, !.open = open]
  <2>2. open \in Seq(Frame) /\ Becomes(t, r)
    BY <1>14, <2>1, PopFacts
  <2> HIDE DEF open
  <2>3. TaskOK(r, Len(made))
    BY <2>2, OpenTaskOK
  <2> HIDE DEF r
  <2> QED BY <1>0, <1>3, <2>2, <2>3
<1>15. ASSUME NEW t \in Task, CloseFails(t) PROVE TypeOK'
  <2>1. Scopes
    <3>1. /\ past.faults + 1 \in Nat
          /\ past' = [past EXCEPT !.faults = past.faults + 1, !.spoiled = TRUE]
          /\ UNCHANGED current
      BY <1>0, <1>15 DEF CloseFails
    <3> QED BY <1>0, <3>1
  <2> QED BY <1>0, <1>1, <1>2, <1>14, <1>15, <2>1 DEF CloseFails
<1>16. ASSUME NEW t \in Task, ScopeEnds(t) PROVE TypeOK'
  <2> DEFINE frame == task[t].open[Len(task[t].open)]
  <2>1. frame \in Frame
    BY <1>16, TaskFacts, InnermostOK DEF ScopeEnds
  <2>2. /\ entries' = [entries EXCEPT ![frame.scope] = None] /\ current' = frame.old
        /\ past' = [past EXCEPT !.ended = @ \cup {frame.scope}]
        /\ UNCHANGED <<instances, made>>
    BY <1>16 DEF ScopeEnds
  <2> HIDE DEF frame
  <2>3. Store(Len(made))
    BY <1>0, <2>1, <2>2 DEF Store, Holds
  <2>4. Tasks(Len(made))
    BY <1>14, <1>16 DEF ScopeEnds
  <2>5. Scopes
    BY <1>0, <2>1, <2>2 DEF Frame
  <2> QED BY <1>0, <1>1, <2>3, <2>4, <2>5
<1> QED BY <1>6, <1>7, <1>8, <1>9, <1>10, <1>11, <1>12, <1>13, <1>15, <1>16 DEF Next

(* The container's state is always of the stated types.                    *)
THEOREM ContainerTypes == Spec => []TypeOK
BY TypeInit, TypeStep, PTL DEF Spec

---------------------------------------------------------------------------
(* Closing an instance leaves the others as they are.                      *)
LEMMA CloseFacts ==
  ASSUME TypeOK, NEW t \in Task, Close(t)
  PROVE  \E i \in Instance :
           /\ i \in task[t].todo
           /\ made' = [made EXCEPT ![i] = [made[i] EXCEPT !.open = FALSE]]
           /\ Becomes(t, [task[t] EXCEPT !.todo = task[t].todo \ {i}])
           /\ Len(made') = Len(made)
           /\ \A j \in Instance : /\ made'[j].service = made[j].service
                                  /\ made'[j].for = made[j].for
                                  /\ made'[j].open = (made[j].open /\ j # i)
<1>1. PICK i \in task[t].todo : /\ made' = [made EXCEPT ![i].open = FALSE]
                                /\ task' = [task EXCEPT ![t].todo = @ \ {i}]
  BY DEF Close
<1>2. i \in Instance
  BY TaskFacts DEF Instance
<1>3. made \in Seq(Kept) /\ Len(made) \in Nat /\ \A j \in Instance : made[j] \in Kept
  BY TypeInParts DEF Instance
<1>4. \A j \in Instance : made'[j] = IF j = i THEN [made[i] EXCEPT !.open = FALSE] ELSE made[j]
  BY <1>1, <1>2, <1>3 DEF Instance
<1>5. Len(made') = Len(made) /\ made' = [made EXCEPT ![i] = [made[i] EXCEPT !.open = FALSE]]
  BY <1>1, <1>2, <1>3
<1>6. \A j \in Instance : /\ made'[j].service = made[j].service
                          /\ made'[j].for = made[j].for
                          /\ made'[j].open = (made[j].open /\ j # i)
  BY <1>3, <1>4 DEF Kept
<1> QED BY <1>1, <1>2, <1>5, <1>6 DEF Becomes

---------------------------------------------------------------------------
(* What each action does to the tasks.                                     *)

LEMMA SameOpen ==
  ASSUME NEW t, task'[t].open = task[t].open
  PROVE  Innermost(t)' = Innermost(t) /\ Opened(t)' = Opened(t)
BY DEF Innermost, Opened

LEMMA AsyncFacts ==
  ASSUME TypeOK, NEW t \in Task, GetServiceAsync(t)
  PROVE  \E v \in Service, via \in Opened(t) \cup {None} :
           LET c == IF via = None THEN current ELSE via IN
           /\ IsAsync(v) /\ MayAsk(t, v) /\ At(t, "run")
           /\ LifetimeOf[v] = "async_scoped" => c # None /\ Holds(c, v) = None
           /\ current' = c
           /\ task'[t].at = "make" /\ task'[t].service = v /\ task'[t].via = via
           /\ task'[t].old = current /\ task'[t].open = task[t].open
           /\ \A s \in Task \ {t} : task'[s] = task[s]
           /\ UNCHANGED <<instances, entries, made, past>>
<1>1. PICK v \in Service, via \in Opened(t) \cup {None} :
        LET c == IF via = None THEN current ELSE via IN
        /\ IsAsync(v) /\ MayAsk(t, v) /\ At(t, "run")
        /\ LifetimeOf[v] = "async_scoped" => c # None /\ Holds(c, v) = None
        /\ current' = c
        /\ task' = [task EXCEPT ![t].at = "make", ![t].service = v, ![t].via = via,
                                ![t].old = current]
        /\ UNCHANGED <<instances, entries, made, past>>
  BY DEF GetServiceAsync
<1>2. task[t] \in TaskRecord /\ task \in [Task -> TaskRecord]
  BY TypeInParts
<1>3. /\ task'[t].at = "make" /\ task'[t].service = v /\ task'[t].via = via
      /\ task'[t].old = current /\ task'[t].open = task[t].open
      /\ \A s \in Task \ {t} : task'[s] = task[s]
  BY <1>1, <1>2 DEF TaskRecord
<1> QED BY <1>1, <1>3

LEMMA ReturnsTask ==
  ASSUME TypeOK, NEW t \in Task, Returns(t)
  PROVE  /\ task'[t].at = "run" /\ task'[t].open = task[t].open
         /\ \A s \in Task \ {t} : task'[s] = task[s]
<1>1. task[t] \in TaskRecord /\ task \in [Task -> TaskRecord]
  BY TypeInParts
<1> QED BY <1>1 DEF Returns, TaskRecord

LEMMA EnterFacts ==
  ASSUME TypeOK, NEW t \in Task, EnterScope(t)
  PROVE  /\ t \in Scoped /\ At(t, "run")
         /\ \E c \in Scope \ past.opened :
              /\ current' = c /\ past' = [past EXCEPT !.opened = past.opened \cup {c}]
              /\ task'[t].at = "run"
              /\ task'[t].open = Append(task[t].open, [scope |-> c, old |-> current])
              /\ \A s \in Task \ {t} : task'[s] = task[s]
         /\ UNCHANGED <<instances, entries, made>>
<1>1. task[t] \in TaskRecord /\ task \in [Task -> TaskRecord]
  BY TypeInParts
<1> QED BY <1>1 DEF EnterScope, TaskRecord, At

LEMMA ExitFacts ==
  ASSUME TypeOK, NEW t \in Task, ExitScope(t)
  PROVE  /\ At(t, "run") /\ task[t].open # <<>>
         /\ task'[t].at = "close" /\ task'[t].open = task[t].open
         /\ task'[t].todo =
              {Holds(Innermost(t), v) : v \in {w \in Service : Closes(w)}} \ {None}
         /\ \A s \in Task \ {t} : task'[s] = task[s]
         /\ UNCHANGED <<instances, entries, current, made, past>>
<1>1. task[t] \in TaskRecord /\ task \in [Task -> TaskRecord]
  BY TypeInParts
<1> QED BY <1>1 DEF ExitScope, TaskRecord

LEMMA CloseTask ==
  ASSUME TypeOK, NEW t \in Task, NEW d, Becomes(t, [task[t] EXCEPT !.todo = d])
  PROVE  /\ task'[t].at = task[t].at /\ task'[t].open = task[t].open
         /\ task'[t].service = task[t].service /\ task'[t].via = task[t].via
         /\ task'[t].old = task[t].old /\ task'[t].todo = d
         /\ \A s \in Task \ {t} : task'[s] = task[s]
<1>1. task[t] \in TaskRecord /\ task \in [Task -> TaskRecord]
  BY TypeInParts
<1> QED BY <1>1 DEF Becomes, TaskRecord

LEMMA PopTask ==
  ASSUME TypeOK, NEW t \in Task, Pop(t)
  PROVE  /\ task'[t].at = "run"
         /\ task'[t].open = SubSeq(task[t].open, 1, Len(task[t].open) - 1)
         /\ \A s \in Task \ {t} : task'[s] = task[s]
<1>1. task[t] \in TaskRecord /\ task \in [Task -> TaskRecord]
  BY TypeInParts
<1> QED BY <1>1 DEF Pop, TaskRecord

---------------------------------------------------------------------------
(* Who may ask, whether or not a close has failed.                         *)

LEMMA ScopedStep == TypeOK /\ ScopesAreScoped /\ [Next]_vars => ScopesAreScoped'
<1> SUFFICES ASSUME TypeOK, ScopesAreScoped, [Next]_vars PROVE ScopesAreScoped'
  OBVIOUS
<1>1. ASSUME UNCHANGED task PROVE ScopesAreScoped'
  BY <1>1 DEF ScopesAreScoped, At, Opened
<1>2. ASSUME NEW t \in Task, \A s \in Task \ {t} : task'[s] = task[s],
             t \notin Scoped => task'[t].open = <<>>,
             task'[t].at = "make" =>
               /\ IsAsync(task'[t].service) /\ MayAsk(t, task'[t].service)
               /\ task'[t].via \in Opened(t)' \cup {None}
      PROVE  ScopesAreScoped'
  <2>1. \A s \in Task \ {t} : Opened(s)' = Opened(s)
    BY <1>2, SameOpen
  <2> QED BY <1>2, <2>1 DEF ScopesAreScoped, At
<1>3. ASSUME NEW t \in Task, GetServiceAsync(t) PROVE ScopesAreScoped'
  <2>1. PICK v \in Service, via \in Opened(t) \cup {None} :
          /\ IsAsync(v) /\ MayAsk(t, v)
          /\ task'[t].service = v /\ task'[t].via = via /\ task'[t].open = task[t].open
          /\ \A s \in Task \ {t} : task'[s] = task[s]
    BY <1>3, AsyncFacts
  <2> QED BY <1>2, <2>1, SameOpen DEF ScopesAreScoped
<1>4. ASSUME NEW t \in Task, Returns(t) PROVE ScopesAreScoped'
  BY <1>2, <1>4, ReturnsTask DEF ScopesAreScoped
<1>5. ASSUME NEW t \in Task, EnterScope(t) PROVE ScopesAreScoped'
  BY <1>2, <1>5, EnterFacts
<1>6. ASSUME NEW t \in Task, ExitScope(t) PROVE ScopesAreScoped'
  BY <1>2, <1>6, ExitFacts DEF ScopesAreScoped
<1>7. ASSUME NEW t \in Task, Close(t) PROVE ScopesAreScoped'
  <2>1. PICK d : Becomes(t, [task[t] EXCEPT !.todo = d])
    BY <1>7, CloseFacts
  <2> QED BY <1>2, <1>7, <2>1, CloseTask, TaskFacts DEF ScopesAreScoped, Close, At
<1>8. ASSUME NEW t \in Task, Pop(t), At(t, "close") PROVE ScopesAreScoped'
  <2>1. t \in Scoped
    BY <1>8, TaskFacts DEF ScopesAreScoped
  <2> QED BY <1>2, <1>8, <2>1, PopTask
<1> QED BY <1>1, <1>3, <1>4, <1>5, <1>6, <1>7, <1>8
        DEF Next, vars, GetService, Made, NotMade, CloseFails, ScopeEnds


---------------------------------------------------------------------------
(* Scopes, as long as no close has failed and one task opens them.         *)

LEMMA StackTypes ==
  ASSUME TypeOK
  PROVE  /\ past.opened \subseteq Scope /\ past.ended \subseteq Scope /\ None \notin Scope
         /\ current \in Scope \cup {None} /\ Len(made) \in Nat
         /\ \A i \in Instance : /\ made[i].service \in Service /\ i # None /\ i \in Nat
                                /\ made[i].for \in Scope \cup {None}
<1>1. made \in Seq(Kept) /\ past.opened \subseteq Scope /\ past.ended \subseteq Scope
      /\ current \in Scope \cup {None} /\ Len(made) \in Nat
  BY TypeInParts
<1>2. \A i \in Instance : made[i] \in Kept /\ i \in Nat
  BY <1>1 DEF Instance
<1> QED BY <1>1, <1>2, ContainerAssumption DEF Kept

(* A step of a task without scopes is none of theirs.                      *)
LEMMA OtherStep ==
  ASSUME TypeOK, Unspoiled, UNCHANGED <<entries, current>>,
         past'.opened = past.opened, past'.ended = past.ended, past'.spoiled = past.spoiled,
         \A s \in Scoped : task'[s] = task[s],
         Len(made') \in Nat, Len(made) <= Len(made'),
         \A i \in Instance : made'[i] = made[i],
         \A i \in Instance' \ Instance :
           /\ made'[i].for = None
           /\ LifetimeOf[made'[i].service] \notin {"scoped", "async_scoped"}
  PROVE  Unspoiled'
<1>1. \A s \in Scoped : Innermost(s)' = Innermost(s) /\ Opened(s)' = Opened(s)
  BY SameOpen
<1>2. \A c \in Scope, v \in Service : Holds(c, v)' = Holds(c, v)
  BY DEF Holds
<1>3. Instance \subseteq Instance'
  BY StackTypes DEF Instance
<1>4. Stacked'
  BY <1>1 DEF Unspoiled, Stacked
<1>5. InPlace'
  BY <1>1 DEF Unspoiled, InPlace, At, Means
<1>6. RoomForMade'
  BY DEF Unspoiled, RoomForMade, At, Holds
<1>7. MadeForOpened'
  BY <1>3 DEF Unspoiled, MadeForOpened
<1>8. ClosesAll'
  BY <1>1, <1>3 DEF Unspoiled, ClosesAll, At
<1>9. SameWithinScope'
  BY <1>3, StackTypes DEF Unspoiled, SameWithinScope, Holds
<1>10. EndedLeavesNothing'
  BY <1>3, StackTypes DEF Unspoiled, EndedLeavesNothing
<1> QED BY <1>4, <1>5, <1>6, <1>7, <1>8, <1>9, <1>10 DEF Unspoiled

(* What the scope in place has to do with the scopes of the one task.      *)
LEMMA PlaceFacts ==
  ASSUME TypeOK, Unspoiled, NEW t \in Task, t \in Scoped
  PROVE  /\ Opened(t) \subseteq past.opened \ past.ended
         /\ Innermost(t) \in Opened(t) \cup {None}
         /\ \A via \in Opened(t) \cup {None} : Means(t, via) \in Opened(t) \cup {None}
         /\ ~At(t, "make") => current = Innermost(t)
         /\ At(t, "make") => current = Means(t, task[t].via) /\ task[t].old = Innermost(t)
<1>1. Innermost(t) \in Opened(t) \cup {None}
  BY InnermostOK DEF Innermost
<1> QED BY <1>1 DEF Unspoiled, Stacked, InPlace, Means

(* Making an instance for the scope that is in place, or for none.         *)
LEMMA MakeStep ==
  ASSUME TypeOK, Unspoiled, OneScopedTask, NEW t \in Task, t \in Scoped, ~At(t, "close"),
         UNCHANGED past, NEW v \in Service, NEW via \in Opened(t) \cup {None},
         Makes(t, v, via),
         \/ LifetimeOf[v] \in {"singleton", "async_singleton"} /\ UNCHANGED entries
         \/ /\ LifetimeOf[v] \in {"scoped", "async_scoped"}
            /\ Means(t, via) # None /\ Holds(Means(t, via), v) = None
            /\ Keep(Means(t, via), v, Len(made) + 1),
         task'[t].open = task[t].open, task'[t].at = "run", current' = Innermost(t)
  PROVE  Unspoiled'
<1>0. Means(t, via) \in Opened(t) \cup {None} /\ via \in Scope \cup {None}
  BY PlaceFacts, InnermostOK
<1>1. /\ Len(made') = Len(made) + 1 /\ \A i \in Instance : made'[i] = made[i]
      /\ made'[Len(made) + 1] = [service |-> v, for |-> Means(t, via), open |-> TRUE]
      /\ Len(made) \in Nat
  BY <1>0, MakesFacts DEF Instance
<1>2. Instance' = Instance \cup {Len(made) + 1} /\ Len(made) + 1 \notin Instance
  BY <1>1 DEF Instance
<1>3. \A s \in Scoped : s = t
  BY DEF OneScopedTask
<1>4. Innermost(t)' = Innermost(t) /\ Opened(t)' = Opened(t)
  BY SameOpen
<1>5. \/ UNCHANGED entries /\ LifetimeOf[v] \notin {"scoped", "async_scoped"}
      \/ /\ Means(t, via) \in Scope \cap Opened(t) /\ Holds(Means(t, via), v) = None
         /\ \A d \in Scope, w \in Service :
              Holds(d, w)' = IF d = Means(t, via) /\ w = v THEN Len(made) + 1 ELSE Holds(d, w)
         /\ \A d \in Scope \ {Means(t, via)} : entries'[d] = entries[d]
  <2>1. CASE Keep(Means(t, via), v, Len(made) + 1) /\ Means(t, via) # None
                 /\ Holds(Means(t, via), v) = None
    <3>1. Means(t, via) \in Scope
      BY <1>0, <2>1, InnermostOK
    <3>2. Len(made) + 1 \in Nat
      BY <1>1
    <3>3. \A d \in Scope, w \in Service :
            Holds(d, w)' = IF d = Means(t, via) /\ w = v THEN Len(made) + 1 ELSE Holds(d, w)
      BY <2>1, <3>1, <3>2, KeepOK
    <3>4. \A d \in Scope \ {Means(t, via)} : entries'[d] = entries[d]
      BY <2>1, TypeInParts DEF Keep
    <3> QED BY <1>0, <2>1, <3>1, <3>3, <3>4
  <2> QED BY <2>1
<1>6. Stacked'
  BY <1>3, <1>4 DEF Unspoiled, Stacked
<1>7. InPlace'
  BY <1>3, <1>4 DEF InPlace, At
<1>8. RoomForMade'
  BY <1>3 DEF RoomForMade, At
<1>9. MadeForOpened'
  BY <1>0, <1>1, <1>2, PlaceFacts DEF Unspoiled, MadeForOpened
<1>10. ClosesAll'
  BY <1>3 DEF ClosesAll, At
<1>11. SameWithinScope'
  <2>1. ASSUME NEW i \in Instance, NEW d \in Scope, NEW w \in Service, ~past.spoiled,
               made[i].for = d, made[i].service = w, d \in past.opened \ past.ended,
               LifetimeOf[w] \in {"scoped", "async_scoped"}
        PROVE  Holds(d, w)' = i
    <3>1. Holds(d, w) = i /\ i # None
      BY <2>1, StackTypes DEF Unspoiled, SameWithinScope
    <3>2. CASE UNCHANGED entries
      BY <3>1, <3>2 DEF Holds
    <3> QED BY <1>5, <3>1, <3>2
  <2>2. ASSUME NEW d \in Scope, Means(t, via) = d, LifetimeOf[v] \in {"scoped", "async_scoped"}
        PROVE  Holds(d, v)' = Len(made) + 1
    BY <1>5, <2>2
  <2>3. SUFFICES ASSUME NEW i \in Instance', ~past.spoiled,
                        made'[i].for \in past.opened \ past.ended,
                        LifetimeOf[made'[i].service] \in {"scoped", "async_scoped"}
                 PROVE  Holds(made[i].for, made[i].service)' = i
    BY DEF SameWithinScope
  <2>4. made'[i].for \in Scope
    BY <2>3, StackTypes
  <2>5. CASE i \in Instance
    BY <1>1, <2>1, <2>3, <2>4, <2>5, StackTypes
  <2>6. CASE i = Len(made) + 1
    BY <1>1, <2>2, <2>3, <2>4, <2>6
  <2> QED BY <1>2, <2>5, <2>6
<1>12. EndedLeavesNothing'
  <2>1. Means(t, via) \notin past.ended /\ current' \notin past.ended
    BY <1>0, PlaceFacts, StackTypes
  <2>2. \A c \in past.ended : entries'[c] = entries[c]
    BY <1>5, <2>1, StackTypes
  <2> QED BY <1>1, <1>2, <2>1, <2>2 DEF Unspoiled, EndedLeavesNothing
<1> QED BY <1>6, <1>7, <1>8, <1>9, <1>10, <1>11, <1>12 DEF Unspoiled


(* What holds of what is made, kept and held is not disturbed by a step    *)
(* that makes, keeps and ends nothing.                                     *)
LEMMA QuietStep ==
  ASSUME TypeOK, Unspoiled, UNCHANGED <<entries, made>>,
         past'.ended = past.ended, past'.spoiled = past.spoiled,
         past.opened \subseteq past'.opened,
         past'.opened \cap {made[i].for : i \in Instance} \subseteq past.opened,
         current' \notin past.ended
  PROVE  SameWithinScope' /\ EndedLeavesNothing' /\ MadeForOpened'
<1>1. Instance' = Instance
  BY DEF Instance
<1>2. \A c, v : Holds(c, v)' = IF entries[c] = None THEN None ELSE entries[c][v]
  BY DEF Holds
<1> QED BY <1>1, StackTypes
        DEF Unspoiled, SameWithinScope, EndedLeavesNothing, MadeForOpened, Holds

LEMMA AsyncStep ==
  ASSUME TypeOK, Unspoiled, OneScopedTask, NEW t \in Task, t \in Scoped, GetServiceAsync(t)
  PROVE  Unspoiled'
<1>1. PICK v \in Service, via \in Opened(t) \cup {None} :
        LET c == IF via = None THEN current ELSE via IN
        /\ At(t, "run")
        /\ LifetimeOf[v] = "async_scoped" => c # None /\ Holds(c, v) = None
        /\ current' = c
        /\ task'[t].at = "make" /\ task'[t].service = v /\ task'[t].via = via
        /\ task'[t].old = current /\ task'[t].open = task[t].open
        /\ UNCHANGED <<instances, entries, made, past>>
  BY AsyncFacts
<1>2. \A s \in Scoped : s = t
  BY DEF OneScopedTask
<1>3. Innermost(t)' = Innermost(t) /\ Opened(t)' = Opened(t)
  BY <1>1, SameOpen
<1>4. current' = Means(t, via) /\ current' \in Opened(t) \cup {None} /\ current = Innermost(t)
  BY <1>1, PlaceFacts DEF At, Means
<1>5. Stacked'
  BY <1>1, <1>2, <1>3 DEF Unspoiled, Stacked
<1>6. InPlace'
  <2>1. Means(t, task[t].via)' = Means(t, via)
    BY <1>1, <1>3 DEF Means
  <2> QED BY <1>1, <1>2, <1>3, <1>4, <2>1 DEF InPlace, At
<1>7. RoomForMade'
  BY <1>1, <1>2 DEF RoomForMade, At, Holds
<1>8. ClosesAll'
  BY <1>1, <1>2 DEF ClosesAll, At
<1>9. current' \notin past.ended
  BY <1>4, PlaceFacts, StackTypes
<1> QED BY <1>1, <1>5, <1>6, <1>7, <1>8, <1>9, QuietStep DEF Unspoiled

LEMMA NotMadeStep ==
  ASSUME TypeOK, Unspoiled, OneScopedTask, NEW t \in Task, t \in Scoped,
         UNCHANGED <<entries, made>>, past'.opened = past.opened, past'.ended = past.ended,
         past'.spoiled = past.spoiled,
         task'[t].open = task[t].open, task'[t].at = "run", current' = Innermost(t)
  PROVE  Unspoiled'
<1>2. \A s \in Scoped : s = t
  BY DEF OneScopedTask
<1>3. Innermost(t)' = Innermost(t) /\ Opened(t)' = Opened(t)
  BY SameOpen
<1>5. Stacked'
  BY <1>2, <1>3 DEF Unspoiled, Stacked
<1>6. InPlace' /\ RoomForMade' /\ ClosesAll'
  BY <1>2, <1>3 DEF InPlace, RoomForMade, ClosesAll, At
<1>9. current' \notin past.ended
  BY PlaceFacts, StackTypes
<1> QED BY <1>5, <1>6, <1>9, QuietStep DEF Unspoiled

LEMMA EnterStep ==
  ASSUME TypeOK, Unspoiled, OneScopedTask, NEW t \in Task, EnterScope(t)
  PROVE  Unspoiled'
<1>1. t \in Scoped /\ At(t, "run") /\ UNCHANGED <<instances, entries, made>>
  BY EnterFacts
<1>2. PICK c \in Scope \ past.opened :
        /\ current' = c /\ past' = [past EXCEPT !.opened = past.opened \cup {c}]
        /\ task'[t].at = "run"
        /\ task'[t].open = Append(task[t].open, [scope |-> c, old |-> current])
  BY EnterFacts
<1>3. past'.opened = past.opened \cup {c} /\ past'.ended = past.ended /\ past'.spoiled = past.spoiled
  BY <1>2, TypeInParts
<1>4. \A s \in Scoped : s = t
  BY <1>1 DEF OneScopedTask
<1> DEFINE open == task[t].open
           n == Len(open)
<1>5. /\ n \in Nat /\ DOMAIN open = 1..n
      /\ DOMAIN task'[t].open = 1..(n + 1) /\ task'[t].open # <<>>
      /\ Len(task'[t].open) = n + 1
      /\ \A k \in 1..n : task'[t].open[k] = open[k]
      /\ task'[t].open[n + 1] = [scope |-> c, old |-> current]
  <2>1. open \in Seq(Frame) /\ n \in Nat /\ DOMAIN open = 1..n
    BY InnermostOK
  <2> HIDE DEF open
  <2> QED BY <1>2, <2>1 DEF open
<1>6. Innermost(t)' = c /\ Opened(t)' = Opened(t) \cup {c}
  <2>1. Innermost(t)' = c
    BY <1>5 DEF Innermost
  <2>2. Opened(t)' = {task'[t].open[i].scope : i \in 1..(n + 1)}
    BY <1>5 DEF Opened
  <2>3. Opened(t) = {open[i].scope : i \in 1..n}
    BY <1>5 DEF Opened
  <2>4. 1..(n + 1) = 1..n \cup {n + 1}
    BY <1>5
  <2> HIDE DEF n
  <2> QED BY <1>5, <2>1, <2>2, <2>3, <2>4
<1>7. current = Innermost(t)
  BY <1>1, PlaceFacts DEF At
<1>8. Stacked'
  <2>1. past'.ended \subseteq past'.opened /\ c \notin past'.ended
    BY <1>2, <1>3 DEF Unspoiled, Stacked
  <2>2. \A d \in past'.opened \ past'.ended : \E s \in Scoped : d \in Opened(s)'
    BY <1>1, <1>3, <1>4, <1>6 DEF Unspoiled, Stacked
  <2>3. Opened(t)' \subseteq past'.opened \ past'.ended
    BY <1>3, <1>6, <2>1, PlaceFacts, <1>1
  <2>4. \A j, k \in 1..(n + 1) : task'[t].open[j].scope = task'[t].open[k].scope => j = k
    <3>1. \A j, k \in 1..n : open[j].scope = open[k].scope => j = k
      BY <1>1, <1>5 DEF Unspoiled, Stacked
    <3>2. \A j \in 1..n : open[j].scope \in past.opened
      BY <1>1, <1>5 DEF Unspoiled, Stacked, Opened
    <3> HIDE DEF n, open
    <3> QED BY <1>2, <1>5, <3>1, <3>2
  <2>5. \A k \in 1..(n + 1) :
          task'[t].open[k].old = IF k = 1 THEN None ELSE task'[t].open[k - 1].scope
    <3>1. \A k \in 1..n : open[k].old = IF k = 1 THEN None ELSE open[k - 1].scope
      BY <1>1, <1>5 DEF Unspoiled, Stacked
    <3>2. current = IF n + 1 = 1 THEN None ELSE open[n].scope
      BY <1>5, <1>7 DEF Innermost
    <3> HIDE DEF n, open
    <3>3. ASSUME NEW k \in 1..n
          PROVE  task'[t].open[k].old = IF k = 1 THEN None ELSE task'[t].open[k - 1].scope
      <4>1. CASE k = 1
        BY <1>5, <3>1, <4>1
      <4>2. CASE k # 1
        <5>1. k - 1 \in 1..n
          BY <1>5, <4>2
        <5> QED BY <1>5, <3>1, <4>2, <5>1
      <4> QED BY <4>1, <4>2
    <3>4. task'[t].open[n + 1].old = IF n + 1 = 1 THEN None ELSE task'[t].open[n].scope
      <4>1. CASE n = 0
        BY <1>5, <3>2, <4>1
      <4>2. CASE n # 0
        <5>1. n \in 1..n
          BY <1>5, <4>2
        <5> QED BY <1>5, <3>2, <4>2, <5>1
      <4> QED BY <4>1, <4>2
    <3> QED BY <1>5, <3>3, <3>4
  <2> QED BY <1>4, <1>5, <2>1, <2>2, <2>3, <2>4, <2>5 DEF Stacked
<1>9. InPlace' /\ RoomForMade' /\ ClosesAll'
  BY <1>1, <1>2, <1>4, <1>6 DEF InPlace, RoomForMade, ClosesAll, At
<1>10. c \notin past.ended /\ \A i \in Instance : made[i].for # c
  BY <1>2, StackTypes DEF Unspoiled, Stacked, MadeForOpened
<1> QED BY <1>1, <1>2, <1>3, <1>8, <1>9, <1>10, QuietStep DEF Unspoiled

LEMMA ExitStep ==
  ASSUME TypeOK, Unspoiled, OneScopedTask, NEW t \in Task, t \in Scoped, ExitScope(t),
         ~past.spoiled
  PROVE  Unspoiled'
<1>1. /\ At(t, "run") /\ task[t].open # <<>>
      /\ task'[t].at = "close" /\ task'[t].open = task[t].open
      /\ task'[t].todo = {Holds(Innermost(t), v) : v \in {w \in Service : Closes(w)}} \ {None}
      /\ UNCHANGED <<instances, entries, current, made, past>>
  BY ExitFacts
<1>2. \A s \in Scoped : s = t
  BY DEF OneScopedTask
<1>3. Innermost(t)' = Innermost(t) /\ Opened(t)' = Opened(t)
  BY <1>1, SameOpen
<1>4. current = Innermost(t) /\ Innermost(t) \in past.opened \ past.ended
  BY <1>1, PlaceFacts, InnermostOK DEF At
<1>5. Stacked'
  BY <1>1, <1>2, <1>3 DEF Unspoiled, Stacked
<1>6. InPlace' /\ RoomForMade'
  BY <1>1, <1>2, <1>3, <1>4 DEF InPlace, RoomForMade, At
<1>7. ClosesAll'
  <2> SUFFICES ASSUME NEW i \in Instance, made[i].for = Innermost(t),
                      LifetimeOf[made[i].service] = "async_scoped"
               PROVE  i \in task'[t].todo
    BY <1>1, <1>2, <1>3 DEF ClosesAll, Instance
  <2>1. Holds(Innermost(t), made[i].service) = i
    BY <1>4 DEF Unspoiled, SameWithinScope
  <2>2. made[i].service \in Service /\ Closes(made[i].service) /\ i # None
    BY StackTypes DEF Closes, IsAsync
  <2> QED BY <1>1, <2>1, <2>2
<1> QED BY <1>1, <1>4, <1>5, <1>6, <1>7, QuietStep DEF Unspoiled


LEMMA CloseStep ==
  ASSUME TypeOK, Unspoiled, OneScopedTask, NEW t \in Task, t \in Scoped, Close(t)
  PROVE  Unspoiled'
<1>1. PICK i \in Instance :
        /\ Becomes(t, [task[t] EXCEPT !.todo = task[t].todo \ {i}])
        /\ Len(made') = Len(made)
        /\ \A j \in Instance : /\ made'[j].service = made[j].service
                               /\ made'[j].for = made[j].for
                               /\ made'[j].open = (made[j].open /\ j # i)
  BY CloseFacts
<1>2. \A s \in Scoped : s = t
  BY DEF OneScopedTask
<1>3. /\ At(t, "close") /\ task'[t].at = "close" /\ task'[t].open = task[t].open
      /\ task'[t].todo = task[t].todo \ {i}
      /\ UNCHANGED <<entries, current, past>>
  BY <1>1, CloseTask DEF Close, At
<1>4. Innermost(t)' = Innermost(t) /\ Opened(t)' = Opened(t) /\ Instance' = Instance
  BY <1>1, <1>3, SameOpen DEF Instance
<1>5. Stacked'
  BY <1>2, <1>3, <1>4 DEF Unspoiled, Stacked
<1>6. InPlace' /\ RoomForMade'
  BY <1>2, <1>3, <1>4 DEF Unspoiled, InPlace, RoomForMade, At
<1>7. ClosesAll'
  <2> SUFFICES ASSUME NEW j \in Instance, made[j].for = Innermost(t), j # i,
                      LifetimeOf[made[j].service] = "async_scoped", made[j].open
               PROVE  j \in task'[t].todo
    BY <1>1, <1>2, <1>4 DEF ClosesAll
  <2>1. j \in task[t].todo
    BY <1>3 DEF Unspoiled, ClosesAll
  <2> QED BY <1>3, <2>1
<1>8. MadeForOpened'
  BY <1>1, <1>3, <1>4 DEF Unspoiled, MadeForOpened
<1>9. SameWithinScope'
  BY <1>1, <1>3, <1>4 DEF Unspoiled, SameWithinScope, Holds
<1>10. EndedLeavesNothing'
  BY <1>1, <1>3, <1>4 DEF Unspoiled, EndedLeavesNothing
<1> QED BY <1>5, <1>6, <1>7, <1>8, <1>9, <1>10 DEF Unspoiled

LEMMA StackSequence ==
  ASSUME NEW s \in Seq(Frame)
  PROVE  DOMAIN s = 1..Len(s) /\ (Len(s) = 0 <=> s = <<>>)
OBVIOUS

LEMMA EndStep ==
  ASSUME TypeOK, Unspoiled, OneScopedTask, NEW t \in Task, t \in Scoped, ScopeEnds(t)
  PROVE  Unspoiled'
<1> DEFINE open == task[t].open
           n == Len(open)
           c == open[n].scope
<1>1. /\ n \in Nat /\ n >= 1 /\ DOMAIN open = 1..n /\ open \in Seq(Frame)
      /\ c \in Scope /\ c = Innermost(t)
      /\ \A k \in 1..n : open[k] \in Frame
  <2>1. open # <<>>
    BY TaskFacts DEF ScopeEnds
  <2> QED BY <2>1, InnermostOK
<1>2. /\ At(t, "close") /\ task[t].todo = {}
      /\ entries' = [entries EXCEPT ![c] = None]
      /\ current' = open[n].old
      /\ past' = [past EXCEPT !.ended = past.ended \cup {c}]
      /\ task'[t].at = "run" /\ task'[t].open = SubSeq(open, 1, n - 1)
      /\ UNCHANGED <<instances, made>>
  BY PopTask DEF ScopeEnds
<1>3. /\ past'.opened = past.opened /\ past'.ended = past.ended \cup {c}
      /\ past'.spoiled = past.spoiled
  BY <1>2, TypeInParts
<1>4. \A s \in Scoped : s = t
  BY DEF OneScopedTask
<1>5. /\ Len(task'[t].open) = n - 1 /\ DOMAIN task'[t].open = 1..(n - 1)
      /\ \A k \in 1..(n - 1) : task'[t].open[k] = open[k]
      /\ n - 1 = 0 => task'[t].open = <<>>
      /\ n - 1 > 0 => task'[t].open # <<>>
  <2> HIDE DEF n
  <2>1. n = Len(open)
    BY DEF n
  <2> HIDE DEF open
  <2>2. open \in Seq(Frame) /\ n \in Nat /\ n >= 1 /\ task'[t].open = SubSeq(open, 1, n - 1)
    BY <1>1, <1>2
  <2>3. /\ Len(task'[t].open) = n - 1 /\ task'[t].open \in Seq(Frame)
        /\ \A k \in 1..(n - 1) : task'[t].open[k] = open[k]
    BY <2>1, <2>2
  <2>4. /\ DOMAIN task'[t].open = 1..Len(task'[t].open)
        /\ Len(task'[t].open) = 0 <=> task'[t].open = <<>>
    BY <2>3, StackSequence
  <2> HIDE DEF open, n
  <2> QED BY <2>2, <2>3, <2>4
<1>6. /\ \A j, k \in 1..n : open[j].scope = open[k].scope => j = k
      /\ \A k \in 1..n : open[k].old = IF k = 1 THEN None ELSE open[k - 1].scope
      /\ Opened(t) \subseteq past.opened \ past.ended
      /\ past.ended \subseteq past.opened
      /\ \A d \in past.opened \ past.ended : d \in Opened(t)
  BY <1>1, <1>4 DEF Unspoiled, Stacked
<1>7. Opened(t) = {open[k].scope : k \in 1..n}
      /\ Opened(t)' = {open[k].scope : k \in 1..(n - 1)}
  <2>1. Opened(t)' = {task'[t].open[k].scope : k \in 1..(n - 1)}
    BY <1>5 DEF Opened
  <2>2. Opened(t) = {open[k].scope : k \in 1..n}
    BY <1>1 DEF Opened
  <2> HIDE DEF open, n
  <2> QED BY <1>5, <2>1, <2>2
<1>8. c \in Opened(t) /\ c \notin past.ended /\ Opened(t)' = Opened(t) \ {c}
  <2> HIDE DEF open, n
  <2>1. 1..n = 1..(n - 1) \cup {n} /\ n \notin 1..(n - 1)
    BY <1>1
  <2> QED BY <1>1, <1>6, <1>7, <2>1
<1>9. current' = Innermost(t)' /\ current' \in Opened(t)' \cup {None}
  <2>1. CASE n = 1
    <3>1. Innermost(t)' = None
      BY <1>5, <2>1 DEF Innermost
    <3> QED BY <1>1, <1>2, <1>6, <2>1, <3>1
  <2>2. CASE n # 1
    <3>1. n \in 1..n /\ n - 1 \in 1..(n - 1) /\ n - 1 > 0
      <4> HIDE DEF n
      <4> QED BY <1>1, <2>2
    <3>2. Innermost(t)' = open[n - 1].scope
      BY <1>5, <2>2, <3>1 DEF Innermost
    <3>3. current' = open[n - 1].scope
      BY <1>2, <1>6, <2>2, <3>1
    <3> HIDE DEF open, n
    <3> QED BY <1>7, <3>1, <3>2, <3>3
  <2> QED BY <2>1, <2>2
<1> HIDE DEF c
<1>10. Stacked'
  <2>1. past'.ended \subseteq past'.opened
    BY <1>3, <1>6, <1>8
  <2>2. /\ \A d \in past'.opened \ past'.ended : d \in Opened(t)'
        /\ Opened(t)' \subseteq past'.opened \ past'.ended
    BY <1>3, <1>6, <1>8
  <2>3. \A k \in 1..(n - 1) : k \in 1..n /\ (k # 1 => k - 1 \in 1..(n - 1))
    BY <1>1
  <2> HIDE DEF open, n
  <2>4. \A j, k \in 1..(n - 1) : task'[t].open[j].scope = task'[t].open[k].scope => j = k
    BY <1>5, <1>6, <2>3
  <2>5. \A k \in 1..(n - 1) :
          task'[t].open[k].old = IF k = 1 THEN None ELSE task'[t].open[k - 1].scope
    BY <1>5, <1>6, <2>3
  <2> QED BY <1>4, <1>5, <2>1, <2>2, <2>4, <2>5 DEF Stacked
<1>11. InPlace' /\ RoomForMade' /\ ClosesAll'
  BY <1>2, <1>4, <1>9 DEF InPlace, RoomForMade, ClosesAll, At
<1>12. Instance' = Instance
  BY <1>2 DEF Instance
<1>13. MadeForOpened'
  BY <1>2, <1>3, <1>12 DEF Unspoiled, MadeForOpened
<1>14. \A d \in Scope \ {c} : entries'[d] = entries[d]
  BY <1>2, TypeInParts
<1>15. entries'[c] = None
  BY <1>1, <1>2, TypeInParts DEF c
<1>16. SameWithinScope'
  <2> SUFFICES ASSUME NEW i \in Instance, NEW d \in Scope, NEW w \in Service, ~past.spoiled,
                      made[i].for = d, made[i].service = w, d \in past'.opened \ past'.ended,
                      LifetimeOf[w] \in {"scoped", "async_scoped"}
               PROVE  Holds(d, w)' = i
    BY <1>2, <1>3, <1>12, StackTypes DEF SameWithinScope
  <2>1. Holds(d, w) = i /\ entries'[d] = entries[d]
    BY <1>3, <1>14 DEF Unspoiled, SameWithinScope
  <2> QED BY <2>1 DEF Holds
<1>17. EndedLeavesNothing'
  <2>1. ASSUME NEW d \in past'.ended, ~past.spoiled PROVE entries'[d] = None
    BY <1>3, <1>14, <1>15, <2>1, StackTypes DEF Unspoiled, EndedLeavesNothing
  <2>2. current' \notin past'.ended
    BY <1>3, <1>6, <1>8, <1>9, StackTypes, <1>1 DEF c
  <2>3. ASSUME NEW i \in Instance, made[i].for \in past'.ended, ~past.spoiled,
               LifetimeOf[made[i].service] = "async_scoped"
        PROVE  ~made[i].open
    <3>1. CASE made[i].for \in past.ended
      BY <2>3, <3>1 DEF Unspoiled, EndedLeavesNothing
    <3>2. CASE made[i].for = Innermost(t)
      <4>1. i \notin task[t].todo /\ At(t, "close")
        BY <1>2
      <4>2. made[i].open \in BOOLEAN
        <5>1. made \in Seq(Kept)
          BY TypeInParts
        <5>2. made[i] \in Kept
          BY <5>1 DEF Instance
        <5> QED BY <5>2 DEF Kept
      <4> QED BY <2>3, <3>2, <4>1, <4>2 DEF Unspoiled, ClosesAll
    <3> QED BY <1>1, <1>3, <2>3, <3>1, <3>2 DEF c
  <2> QED BY <1>2, <1>3, <1>12, <2>1, <2>2, <2>3 DEF EndedLeavesNothing
<1> QED BY <1>10, <1>11, <1>13, <1>16, <1>17 DEF Unspoiled


(* What a task without scopes may make is for no scope.                    *)
LEMMA OtherMakes ==
  ASSUME TypeOK, ScopesAreScoped, Unspoiled, NEW t \in Task, t \notin Scoped,
         NEW v \in Service, NEW via \in Opened(t) \cup {None}, Makes(t, v, via),
         MayAsk(t, v), LifetimeOf[v] \in ServiceLifetime,
         UNCHANGED <<entries, current, past>>,
         \A s \in Scoped : task'[s] = task[s]
  PROVE  Unspoiled'
<1>1. task[t].open = <<>> /\ Opened(t) = {} /\ via = None /\ Means(t, via) = None
  BY DEF ScopesAreScoped, Opened, Means, Innermost
<1>2. /\ Len(made') = Len(made) + 1 /\ \A i \in Instance : made'[i] = made[i]
      /\ made'[Len(made) + 1] = [service |-> v, for |-> None, open |-> TRUE]
      /\ Len(made) \in Nat
  BY <1>1, MakesFacts DEF Instance
<1>3. Instance' \ Instance = {Len(made) + 1}
  BY <1>2 DEF Instance
<1>4. LifetimeOf[v] \notin {"scoped", "async_scoped"}
  BY DEF MayAsk
<1>5. \A i \in Instance' \ Instance :
        made'[i].for = None /\ LifetimeOf[made'[i].service] \notin {"scoped", "async_scoped"}
  BY <1>2, <1>3, <1>4
<1> QED BY <1>2, <1>5, OtherStep

LEMMA OtherTask ==
  ASSUME TypeOK, ScopesAreScoped, Unspoiled, NEW t \in Task, t \notin Scoped,
         \/ GetService(t) \/ GetServiceAsync(t) \/ Made(t) \/ NotMade(t)
         \/ EnterScope(t) \/ ExitScope(t) \/ Close(t) \/ CloseFails(t) \/ ScopeEnds(t)
  PROVE  Unspoiled'
<1>1. task[t].open = <<>> /\ Opened(t) = {}
  BY DEF ScopesAreScoped, Opened
<1>2. ~EnterScope(t) /\ ~ExitScope(t) /\ ~Close(t) /\ ~CloseFails(t) /\ ~ScopeEnds(t)
  BY <1>1, TaskFacts DEF EnterScope, ExitScope, Close, CloseFails, ScopeEnds
<1>3. \A s \in Scoped : s \in Task \ {t}
  BY ContainerAssumption
<1>4. At(t, "make") => /\ MayAsk(t, task[t].service) /\ task[t].via = None
                       /\ task[t].service \in Service
  BY <1>1, TaskFacts DEF ScopesAreScoped
<1>5. \A v \in Service : LifetimeOf[v] \in ServiceLifetime
  BY ContainerAssumption
<1>6. Len(made) \in Nat
  BY StackTypes
<1>7. CASE GetService(t)
  <2>1. PICK v \in Service, via \in Opened(t) \cup {None} :
          /\ MayAsk(t, v) /\ Makes(t, v, via)
          /\ UNCHANGED entries \/ LifetimeOf[v] = "scoped"
    BY <1>7 DEF GetService
  <2>2. UNCHANGED entries /\ UNCHANGED <<current, task, past>>
    BY <1>7, <2>1 DEF MayAsk, GetService
  <2> QED BY <1>5, <2>1, <2>2, OtherMakes
<1>8. CASE GetServiceAsync(t)
  <2>1. /\ current' = current /\ UNCHANGED <<entries, made, past>>
        /\ \A s \in Task \ {t} : task'[s] = task[s]
    BY <1>1, <1>8, AsyncFacts
  <2>2. Instance' = Instance
    BY <2>1 DEF Instance
  <2> QED BY <1>3, <1>6, <2>1, <2>2, OtherStep
<1>9. CASE Made(t)
  <2>1. /\ Makes(t, task[t].service, task[t].via) /\ UNCHANGED <<current, past>>
        /\ UNCHANGED entries \/ LifetimeOf[task[t].service] = "async_scoped"
        /\ At(t, "make") /\ Returns(t)
    BY <1>4, <1>9 DEF Made, Returns, PutBack
  <2>2. UNCHANGED entries /\ \A s \in Scoped : task'[s] = task[s]
    BY <1>3, <1>4, <2>1, ReturnsTask DEF MayAsk
  <2> QED BY <1>4, <1>5, <2>1, <2>2, OtherMakes
<1>10. CASE NotMade(t)
  <2>1. /\ current' = current /\ UNCHANGED <<entries, made>> /\ Returns(t)
        /\ past'.opened = past.opened /\ past'.ended = past.ended
        /\ past'.spoiled = past.spoiled
    BY <1>4, <1>10, TypeInParts DEF NotMade, Returns, PutBack, Fault
  <2>2. Instance' = Instance /\ \A s \in Scoped : task'[s] = task[s]
    BY <1>3, <2>1, ReturnsTask DEF Instance
  <2> QED BY <1>6, <2>1, <2>2, OtherStep
<1> QED BY <1>2, <1>7, <1>8, <1>9, <1>10

(* The same for the task that opens scopes; a failed close spoils.         *)
LEMMA ScopedTask ==
  ASSUME TypeOK, ScopesAreScoped, Unspoiled, OneScopedTask, ~past.spoiled,
         NEW t \in Task, t \in Scoped,
         \/ GetService(t) \/ GetServiceAsync(t) \/ Made(t) \/ NotMade(t)
         \/ EnterScope(t) \/ ExitScope(t) \/ Close(t) \/ CloseFails(t) \/ ScopeEnds(t)
  PROVE  past'.spoiled \/ Unspoiled'
<1>1. At(t, "make") => task[t].via \in Opened(t) \cup {None} /\ task[t].service \in Service
  BY TaskFacts DEF ScopesAreScoped
<1>2. Returns(t) /\ At(t, "make") =>
        /\ task'[t].open = task[t].open /\ task'[t].at = "run" /\ current' = Innermost(t)
  BY <1>1, ReturnsTask, PlaceFacts DEF Returns, PutBack, Means
<1>3. CASE GetService(t)
  <2>1. PICK v \in Service, via \in Opened(t) \cup {None} :
          LET c == IF via = None THEN current ELSE via IN
          /\ Makes(t, v, via)
          /\ \/ LifetimeOf[v] = "singleton" /\ UNCHANGED entries
             \/ /\ LifetimeOf[v] = "scoped" /\ c # None /\ Holds(c, v) = None
                /\ Keep(c, v, Len(made) + 1)
    BY <1>3 DEF GetService
  <2>2. /\ At(t, "run") /\ UNCHANGED <<current, task, past>> /\ current = Innermost(t)
        /\ (IF via = None THEN current ELSE via) = Means(t, via)
    BY <1>3, PlaceFacts DEF GetService, At, Means
  <2> QED BY <2>1, <2>2, MakeStep DEF At
<1>4. CASE GetServiceAsync(t)
  BY <1>4, AsyncStep
<1>5. CASE Made(t)
  <2> DEFINE v == task[t].service
             via == task[t].via
  <2>1. /\ At(t, "make") /\ Makes(t, v, via) /\ Returns(t) /\ UNCHANGED past
        /\ \/ LifetimeOf[v] = "async_singleton" /\ UNCHANGED entries
           \/ /\ LifetimeOf[v] = "async_scoped"
              /\ IF current = None THEN UNCHANGED entries
                 ELSE Keep(current, v, Len(made) + 1)
    BY <1>5 DEF Made
  <2>2. current = Means(t, via)
    BY <2>1, PlaceFacts
  <2>3. LifetimeOf[v] = "async_scoped" => current # None /\ Holds(current, v) = None
    BY <2>1 DEF Unspoiled, RoomForMade
  <2>4. v \in Service /\ via \in Opened(t) \cup {None}
    BY <1>1, <2>1
  <2> HIDE DEF v, via
  <2> QED BY <1>2, <2>1, <2>2, <2>3, <2>4, MakeStep DEF At
<1>6. CASE NotMade(t)
  <2>1. /\ At(t, "make") /\ Returns(t) /\ UNCHANGED <<entries, made>>
        /\ past'.opened = past.opened /\ past'.ended = past.ended
        /\ past'.spoiled = past.spoiled
    BY <1>6, TypeInParts DEF NotMade, Fault
  <2> QED BY <1>2, <2>1, NotMadeStep
<1>7. CASE CloseFails(t)
  BY <1>7, TypeInParts DEF CloseFails
<1> QED BY <1>3, <1>4, <1>5, <1>6, <1>7, EnterStep, ExitStep, CloseStep, EndStep

LEMMA SpoiledStays == TypeOK /\ past.spoiled /\ [Next]_vars => past'.spoiled
BY TypeInParts DEF Next, vars, GetService, GetServiceAsync, Made, NotMade, Fault, EnterScope,
  ExitScope, Close, CloseFails, ScopeEnds

LEMMA ContainerInit == Init => ContainerInvariant
BY TypeInit, ContainerAssumption
   DEF Init, ContainerInvariant, ScopesAreScoped, Unspoiled, Stacked, InPlace, RoomForMade,
       MadeForOpened, ClosesAll, SameWithinScope, EndedLeavesNothing, At, Innermost, Opened,
       Instance

LEMMA ContainerStep ==
  ASSUME OneScopedTask, ContainerInvariant, [Next]_vars
  PROVE  ContainerInvariant'
<1>1. TypeOK' /\ ScopesAreScoped'
  BY TypeStep, ScopedStep DEF ContainerInvariant
<1>2. ASSUME ~past'.spoiled PROVE Unspoiled'
  <2>1. TypeOK /\ ScopesAreScoped /\ ~past.spoiled /\ Unspoiled
    BY <1>2, SpoiledStays DEF ContainerInvariant
  <2>2. CASE UNCHANGED vars
    <3>1. Instance' = Instance /\ Len(made) \in Nat
      BY <2>1, <2>2, StackTypes DEF vars, Instance
    <3> QED BY <2>1, <2>2, <3>1, OtherStep DEF vars
  <2>3. ASSUME NEW t \in Task,
               \/ GetService(t) \/ GetServiceAsync(t) \/ Made(t) \/ NotMade(t)
               \/ EnterScope(t) \/ ExitScope(t) \/ Close(t) \/ CloseFails(t) \/ ScopeEnds(t)
        PROVE  Unspoiled'
    BY <1>2, <2>1, <2>3, OtherTask, ScopedTask
  <2> QED BY <2>2, <2>3 DEF Next
<1> QED BY <1>1, <1>2 DEF ContainerInvariant

LEMMA ContainerAlways ==
  ASSUME OneScopedTask
  PROVE  Spec => []ContainerInvariant
BY ContainerInit, ContainerStep, PTL DEF Spec

(* When one task opens scopes, as in every program of the repository, each *)
(* scope holds one instance of a scoped service, around nested scopes and  *)
(* failed requests, however many other tasks ask for singletons meanwhile. *)
THEOREM ScopesHoldOneInstance ==
  ASSUME OneScopedTask
  PROVE  Spec => []SameWithinScope
<1>1. ContainerInvariant => SameWithinScope
  BY DEF ContainerInvariant, Unspoiled, SameWithinScope
<1> QED BY <1>1, ContainerAlways, PTL

(* Under the same condition a scope that ended left nothing behind, if no  *)
(* close has failed.                                                       *)
THEOREM ScopesLeaveNothing ==
  ASSUME OneScopedTask
  PROVE  Spec => []EndedLeavesNothing
<1>1. ContainerInvariant => EndedLeavesNothing
  BY DEF ContainerInvariant, Unspoiled, EndedLeavesNothing
<1> QED BY <1>1, ContainerAlways, PTL
=============================================================================
