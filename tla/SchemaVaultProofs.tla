------------------------- MODULE SchemaVaultProofs -------------------------
(***************************************************************************)
(* Proofs about SchemaVault for any number of processes, schemas and sets: *)
(* its types, the agreement of records and envelopes, what sets list, and  *)
(* that a deleted set stays deleted.                                       *)
(***************************************************************************)
EXTENDS SchemaVault, TLAPS

(* The call of p becomes c and every other call stays.                     *)
Becomes(p, c) == call' = [call EXCEPT ![p] = c]

LEMMA BecomesFacts ==
  ASSUME TypeOK, NEW p \in Process, NEW c, Becomes(p, c)
  PROVE  /\ call'[p] = c
         /\ \A q \in Process \ {p} : call'[q] = call[q]
BY DEF TypeOK, Becomes

(* Moving on to another step is such a change, and keeps the other fields. *)
LEMMA GotoBecomes ==
  ASSUME TypeOK, NEW p \in Process, NEW at \in Step, Goto(p, at)
  PROVE  /\ Becomes(p, [call[p] EXCEPT !.at = at])
         /\ [call[p] EXCEPT !.at = at] \in CallRecord
BY DEF TypeOK, Goto, Becomes, CallRecord

LEMMA IdleRecord ==
  /\ Idle \in CallRecord /\ Idle.at = "idle" /\ Idle.op = "getFile"
  /\ Idle.found = {} /\ Idle.gone = {}
BY DEF Idle, NewCall, CallRecord, Operation, Step

(* What TypeOK asks of one call.                                           *)
CallOK(c) ==
  /\ c \in CallRecord
  /\ c.at # "idle" /\ c.op # "listSet" => c.schema \in SchemaId
  /\ c.at \in {"findSet", "findSchema", "update"} => c.set \in SetId
  /\ c.at \in {"findSchema", "update", "look"} => c.read \subseteq SchemaId
  /\ c.op = "listSet" => c.at \in {"findSet", "look"}

LEMMA CallsOK == TypeOK => \A p \in Process : CallOK(call[p])
BY DEF TypeOK, CallOK, At

LEMMA CallKeeps ==
  ASSUME TypeOK, NEW p \in Process, NEW c, CallOK(c), Becomes(p, c)
  PROVE  call' \in [Process -> CallRecord] /\ \A q \in Process : CallOK(call'[q])
<1>1. \A q \in Process : CallOK(call'[q])
  BY CallsOK, BecomesFacts
<1> QED BY <1>1 DEF TypeOK, Becomes, CallOK

---------------------------------------------------------------------------

LEMMA TypeInit == Init => TypeOK
<1> SUFFICES ASSUME Init PROVE TypeOK
  OBVIOUS
<1> QED BY IdleRecord, VaultAssumption DEF Init, TypeOK, At

(* TypeOK in terms of CallOK.                                              *)
LEMMA TypeFromParts ==
  ASSUME schemas \subseteq SchemaId, files \subseteq SchemaId,
         sets \in [SetId -> {None} \cup SUBSET SchemaId],
         call \in [Process -> CallRecord], \A p \in Process : CallOK(call[p]),
         past \in [given : SUBSET SchemaId, registered : SUBSET SchemaId,
                   created : SUBSET SetId, faults : 0..MaxFaults]
  PROVE  TypeOK
BY DEF TypeOK, CallOK, At

LEMMA TypeStep == TypeOK /\ [Next]_vars => TypeOK'
<1> SUFFICES ASSUME TypeOK, [Next]_vars PROVE TypeOK'
  OBVIOUS
<1> USE VaultAssumption
<1> DEFINE Calls == call' \in [Process -> CallRecord]
                    /\ \A q \in Process : CallOK(call'[q])
<1>0. CASE UNCHANGED vars
  BY <1>0 DEF vars, TypeOK, At
<1>q. ASSUME NEW p \in Process, Finish(p) PROVE Calls
  <2>1. CallOK(Idle) /\ Becomes(p, Idle)
    BY <1>q, IdleRecord DEF CallOK, Finish, Becomes
  <2> QED BY <2>1, CallKeeps
<1>g. ASSUME NEW p \in Process, NEW at \in {"insert", "purge"},
             call[p].at \in {"upload", "delete"}, Goto(p, at)
      PROVE  Calls
  <2> DEFINE c == [call[p] EXCEPT !.at = at]
  <2>1. Becomes(p, c) /\ c \in CallRecord
    BY <1>g, GotoBecomes DEF Step
  <2>2. CallOK(call[p]) /\ call[p].at \in {"upload", "delete"}
    BY <1>g, CallsOK
  <2>3. c.at = at /\ c.schema = call[p].schema /\ c.op = call[p].op
    BY <2>2 DEF CallOK, CallRecord
  <2>4. CallOK(c)
    BY <2>1, <2>2, <2>3 DEF CallOK
  <2> QED BY <2>1, <2>4, CallKeeps
<1>1. ASSUME NEW p \in Process, Register(p) PROVE TypeOK'
  <2>1. PICK s \in SchemaId \ past.given :
          /\ Becomes(p, NewCall("register", "upload", None, s))
          /\ past' = [past EXCEPT !.given = @ \cup {s}]
    BY <1>1 DEF Register, Begin, Becomes, FirstWrite
  <2>2. CallOK(NewCall("register", "upload", None, s))
    BY DEF CallOK, NewCall, CallRecord, Operation, Step
  <2>3. Calls
    BY <2>1, <2>2, CallKeeps
  <2> QED BY <1>1, <2>1, <2>3 DEF Register, TypeOK, CallOK, At
<1>2. ASSUME NEW p \in Process, Upload(p) PROVE TypeOK'
  <2>1. Calls /\ call[p].schema \in SchemaId
    BY <1>2, <1>g, CallsOK DEF Upload, At, CallOK
  <2> QED BY <1>2, <2>1 DEF Upload, TypeOK, CallOK, At
<1>3. ASSUME NEW p \in Process, Insert(p) PROVE TypeOK'
  <2>1. Calls /\ call[p].schema \in SchemaId
    BY <1>3, <1>q, CallsOK DEF Insert, At, CallOK
  <2> QED BY <1>3, <2>1 DEF Insert, TypeOK, CallOK, At
<1>4. ASSUME NEW p \in Process, Unregister(p) \/ GetFile(p) PROVE TypeOK'
  <2>1. PICK s \in schemas, op \in {"unregister", "getFile"}, at \in {"delete", "download"} :
          Becomes(p, NewCall(op, at, None, s))
    BY <1>4 DEF Unregister, GetFile, Begin, Becomes
  <2>2. CallOK(NewCall(op, at, None, s))
    BY DEF TypeOK, CallOK, NewCall, CallRecord, Operation, Step
  <2>3. Calls
    BY <2>1, <2>2, CallKeeps
  <2> QED BY <1>4, <2>3 DEF Unregister, GetFile, TypeOK, CallOK, At
<1>5. ASSUME NEW p \in Process, DeleteRecord(p) PROVE TypeOK'
  <2>1. Calls
    BY <1>5, <1>g DEF DeleteRecord, At
  <2> QED BY <1>5, <2>1 DEF DeleteRecord, TypeOK, CallOK, At
<1>6. ASSUME NEW p \in Process, DeleteFile(p) \/ Download(p) PROVE TypeOK'
  <2>1. Calls
    BY <1>6, <1>q DEF DeleteFile, Download
  <2> QED BY <1>6, <2>1 DEF DeleteFile, Download, Purged, TypeOK, CallOK, At
<1>7. ASSUME NEW p \in Process, CreateSet(p) \/ DeleteSet(p) PROVE TypeOK'
  <2>1. Calls
    BY <1>7, CallsOK DEF CreateSet, DeleteSet, TypeOK
  <2> QED BY <1>7, <2>1 DEF CreateSet, DeleteSet, TypeOK, CallOK, At
<1>8. ASSUME NEW p \in Process, EditSet(p) PROVE TypeOK'
  <2>1. PICK k \in SetId, s \in SchemaId, op \in {"addToSet", "removeFromSet"} :
          Becomes(p, NewCall(op, "findSet", k, s))
    BY <1>8 DEF EditSet, Begin, Becomes
  <2>2. CallOK(NewCall(op, "findSet", k, s))
    BY DEF CallOK, NewCall, CallRecord, Operation, Step
  <2>3. Calls
    BY <2>1, <2>2, CallKeeps
  <2> QED BY <1>8, <2>3 DEF EditSet, TypeOK, CallOK, At
<1>13. ASSUME NEW p \in Process, ListSet(p) PROVE TypeOK'
  <2>1. PICK k \in SetId :
          Becomes(p, [NewCall("listSet", "findSet", k, None) EXCEPT
                        !.gone = past.registered \ schemas])
    BY <1>13 DEF ListSet, Begin, Becomes
  <2>2. CallOK([NewCall("listSet", "findSet", k, None) EXCEPT
                  !.gone = past.registered \ schemas])
    BY DEF TypeOK, CallOK, NewCall, CallRecord, Operation, Step
  <2>3. Calls
    BY <2>1, <2>2, CallKeeps
  <2> QED BY <1>13, <2>3 DEF ListSet, TypeOK, CallOK, At
<1>14. ASSUME NEW p \in Process, Look(p) PROVE TypeOK'
  <2>1. Calls
    <3>1. CASE Finish(p)
      BY <3>1, <1>q
    <3>2. CASE ~Finish(p)
      <4>1. PICK s \in call[p].read :
              Becomes(p, [call[p] EXCEPT !.read = @ \ {s}, !.found = @ \cup Found(s)])
        BY <1>14, <3>2 DEF Look, Becomes, TypeOK
      <4> DEFINE c == [call[p] EXCEPT !.read = @ \ {s}, !.found = @ \cup Found(s)]
      <4>2. CallOK(call[p]) /\ call[p].at = "look"
        BY <1>14, CallsOK DEF Look, At
      <4>3. Found(s) \subseteq SchemaId
        BY DEF Found, TypeOK
      <4>4. CallOK(c)
        BY <4>2, <4>3 DEF CallOK, CallRecord
      <4> HIDE DEF c
      <4> QED BY <4>1, <4>4, CallKeeps DEF c
    <3> QED BY <3>1, <3>2
  <2> QED BY <1>14, <2>1 DEF Look, TypeOK, CallOK, At
<1>9. ASSUME NEW p \in Process, FindSet(p) PROVE TypeOK'
  <2>1. Calls
    <3>1. CASE sets[call[p].set] = None
      BY <1>9, <1>q, <3>1 DEF FindSet
    <3>2. CASE sets[call[p].set] # None
      <4> DEFINE c == [call[p] EXCEPT !.read = sets[call[p].set],
                                      !.at = AfterSet(call[p].op)]
      <4>1. Becomes(p, c)
        BY <1>9, <3>2 DEF FindSet, Becomes, TypeOK
      <4>2. CallOK(call[p]) /\ call[p].at = "findSet"
        BY <1>9, CallsOK DEF FindSet, At
      <4>3. sets[call[p].set] \subseteq SchemaId
        BY <3>2, <4>2 DEF CallOK, TypeOK
      <4>4. CallOK(c)
        BY <4>2, <4>3 DEF CallOK, CallRecord, Step, AfterSet
      <4> HIDE DEF c
      <4> QED BY <4>1, <4>4, CallKeeps
    <3> QED BY <3>1, <3>2
  <2> QED BY <1>9, <2>1 DEF FindSet, TypeOK, CallOK, At
<1>10. ASSUME NEW p \in Process, FindSchema(p) PROVE TypeOK'
  <2>1. Calls
    <3>1. CASE Finish(p)
      BY <3>1, <1>q
    <3>2. CASE Goto(p, "update")
      <4> DEFINE c == [call[p] EXCEPT !.at = "update"]
      <4>1. Becomes(p, c) /\ c \in CallRecord
        BY <3>2, GotoBecomes DEF Step
      <4>2. CallOK(call[p]) /\ call[p].at = "findSchema"
        BY <1>10, CallsOK DEF FindSchema, At
      <4>3. /\ c.at = "update" /\ c.schema = call[p].schema
            /\ c.set = call[p].set /\ c.read = call[p].read /\ c.op = call[p].op
        BY <4>2 DEF CallOK, CallRecord
      <4>4. CallOK(c)
        BY <4>1, <4>2, <4>3 DEF CallOK
      <4> QED BY <4>1, <4>4, CallKeeps
    <3> QED BY <1>10, <3>1, <3>2 DEF FindSchema
  <2> QED BY <1>10, <2>1 DEF FindSchema, TypeOK, CallOK, At
<1>11. ASSUME NEW p \in Process, Update(p) PROVE TypeOK'
  <2>1. Calls /\ CallOK(call[p]) /\ call[p].at = "update"
    BY <1>11, <1>q, CallsOK DEF Update, At
  <2>2. Edited(call[p]) \subseteq SchemaId
    BY <2>1 DEF CallOK, Edited
  <2>3. sets' \in [SetId -> {None} \cup SUBSET SchemaId]
    BY <1>11, <2>2 DEF Update, Store, TypeOK
  <2> QED BY <1>11, <2>1, <2>3 DEF Update, TypeOK, CallOK, At
<1>12. ASSUME NEW p \in Process, Fail(p) PROVE TypeOK'
  <2>1. Calls
    BY <1>12, <1>q DEF Fail
  <2>2. past.faults + 1 \in 0..MaxFaults
    BY <1>12 DEF Fail, TypeOK
  <2> QED BY <1>12, <2>1, <2>2 DEF Fail, TypeOK, CallOK, At
<1> QED BY <1>0, <1>1, <1>2, <1>3, <1>4, <1>5, <1>6, <1>7, <1>8, <1>9, <1>10,
           <1>11, <1>12, <1>13, <1>14 DEF Next, Act

(* The state always has its types.                                         *)
THEOREM TypeCorrect == Spec => []TypeOK
<1> QED BY TypeInit, TypeStep, PTL DEF Spec

---------------------------------------------------------------------------
(* Records and envelopes.                                                  *)

(* An id has one life: it is given to one registration, which may still    *)
(* have to write; it is registered once; and it may be unregistered.       *)
IdsInv ==
  /\ schemas \subseteq past.registered
  /\ past.registered \subseteq past.given
  /\ \A p \in Process :
       /\ call[p].at \in {"upload", "insert"} =>
            call[p].schema \in past.given \ past.registered
       /\ call[p].at \in {"delete", "purge"} => call[p].schema \in past.registered
       /\ call[p].at = "purge" => call[p].schema \notin schemas
  /\ \A p, q \in Process :
       (/\ p # q
        /\ call[p].at \in {"upload", "insert"}
        /\ call[q].at \in {"upload", "insert"}) => call[p].schema # call[q].schema

(* The envelope is there before the record and leaves after it; without a  *)
(* fault every envelope that has no record is some request's to finish.    *)
FilesInv ==
  /\ schemas \subseteq files
  /\ \A p \in Process : call[p].at = "insert" => call[p].schema \in files
  /\ past.faults = 0 =>
       \A s \in files \ schemas :
         \E p \in Process : call[p].at \in {"insert", "purge"} /\ call[p].schema = s

VaultInv == TypeOK /\ IdsInv /\ FilesInv

LEMMA VaultInit == Init => VaultInv
BY TypeInit, IdleRecord DEF Init, VaultInv, IdsInv, FilesInv

(* What a step does to the call of the process that takes it.              *)
LEMMA FinishFacts ==
  ASSUME TypeOK, NEW p \in Process, Finish(p)
  PROVE  /\ call'[p].at = "idle" /\ call'[p].found = {} /\ call'[p].gone = {}
         /\ \A q \in Process \ {p} : call'[q] = call[q]
BY IdleRecord, BecomesFacts DEF Finish, Becomes

LEMMA GotoFacts ==
  ASSUME TypeOK, NEW p \in Process, NEW at \in Step, Goto(p, at)
  PROVE  /\ call'[p].at = at /\ call'[p].op = call[p].op
         /\ call'[p].schema = call[p].schema
         /\ call'[p].set = call[p].set /\ call'[p].read = call[p].read
         /\ call'[p].found = call[p].found /\ call'[p].gone = call[p].gone
         /\ \A q \in Process \ {p} : call'[q] = call[q]
BY DEF Goto, TypeOK, CallRecord

LEMMA BeginFacts ==
  ASSUME TypeOK, NEW p \in Process, NEW op, NEW at, NEW k, NEW s,
         Begin(p, NewCall(op, at, k, s))
  PROVE  /\ call'[p].at = at /\ call'[p].schema = s
         /\ call'[p].set = k /\ call'[p].op = op
         /\ call'[p].found = {} /\ call'[p].gone = {}
         /\ \A q \in Process \ {p} : call'[q] = call[q]
<1>1. Becomes(p, NewCall(op, at, k, s))
  BY DEF Begin, Becomes
<1>2. /\ call'[p] = NewCall(op, at, k, s)
      /\ \A q \in Process \ {p} : call'[q] = call[q]
  BY <1>1, BecomesFacts
<1> QED BY <1>2 DEF NewCall

LEMMA VaultStep == VaultInv /\ [Next]_vars => VaultInv'
<1> SUFFICES ASSUME VaultInv, [Next]_vars PROVE IdsInv' /\ FilesInv'
  BY TypeStep DEF VaultInv
<1> USE DEF VaultInv
<1>0. CASE UNCHANGED vars
  BY <1>0 DEF vars, IdsInv, FilesInv
<1>1. ASSUME NEW p \in Process, Register(p) PROVE IdsInv' /\ FilesInv'
  <2>1. PICK s \in SchemaId \ past.given :
          /\ Begin(p, NewCall("register", "upload", None, s))
          /\ past' = [past EXCEPT !.given = @ \cup {s}]
    BY <1>1 DEF Register, FirstWrite
  <2>2. /\ call'[p].at = "upload" /\ call'[p].schema = s
        /\ \A q \in Process \ {p} : call'[q] = call[q]
    BY <2>1, BeginFacts
  <2>3. /\ past'.given = past.given \cup {s}
        /\ past'.registered = past.registered /\ past'.faults = past.faults
    BY <2>1 DEF TypeOK
  <2>4. call[p].at = "idle" /\ schemas' = schemas /\ files' = files
    BY <1>1 DEF Register, At
  <2>5. IdsInv'
    BY <2>2, <2>3, <2>4 DEF IdsInv
  <2>6. FilesInv'
    BY <2>2, <2>3, <2>4 DEF FilesInv
  <2> QED BY <2>5, <2>6
<1>2. ASSUME NEW p \in Process, Upload(p) PROVE IdsInv' /\ FilesInv'
  <2>1. /\ call[p].at = "upload" /\ call'[p].at = "insert"
        /\ call'[p].schema = call[p].schema
        /\ \A q \in Process \ {p} : call'[q] = call[q]
    BY <1>2, GotoFacts DEF Upload, At, Step
  <2>2. schemas' = schemas /\ past' = past /\ files' = files \cup {call[p].schema}
    BY <1>2 DEF Upload
  <2>3. IdsInv'
    BY <2>1, <2>2 DEF IdsInv
  <2>4. FilesInv'
    BY <2>1, <2>2 DEF FilesInv
  <2> QED BY <2>3, <2>4
<1>3. ASSUME NEW p \in Process, Insert(p) PROVE IdsInv' /\ FilesInv'
  <2>1. /\ call[p].at = "insert" /\ call'[p].at = "idle"
        /\ \A q \in Process \ {p} : call'[q] = call[q]
    BY <1>3, FinishFacts DEF Insert, At
  <2>2. /\ files' = files /\ schemas' = schemas \cup {call[p].schema}
        /\ past'.registered = past.registered \cup {call[p].schema}
        /\ past'.given = past.given /\ past'.faults = past.faults
    BY <1>3 DEF Insert, TypeOK
  <2>3. IdsInv'
    BY <2>1, <2>2 DEF IdsInv
  <2>4. FilesInv'
    BY <2>1, <2>2 DEF FilesInv
  <2> QED BY <2>3, <2>4
<1>4. ASSUME NEW p \in Process, Unregister(p) PROVE IdsInv' /\ FilesInv'
  <2>1. PICK s \in schemas : Begin(p, NewCall("unregister", "delete", None, s))
    BY <1>4 DEF Unregister
  <2>2. /\ call[p].at = "idle" /\ call'[p].at = "delete" /\ call'[p].schema = s
        /\ \A q \in Process \ {p} : call'[q] = call[q]
        /\ schemas' = schemas /\ files' = files /\ past' = past
    BY <1>4, <2>1, BeginFacts DEF Unregister, At
  <2> QED BY <2>2 DEF IdsInv, FilesInv
<1>5. ASSUME NEW p \in Process, DeleteRecord(p) PROVE IdsInv' /\ FilesInv'
  <2>1. /\ call[p].at = "delete" /\ call'[p].at = "purge"
        /\ call'[p].schema = call[p].schema
        /\ \A q \in Process \ {p} : call'[q] = call[q]
    BY <1>5, GotoFacts DEF DeleteRecord, At, Step
  <2>2. schemas' = schemas \ {call[p].schema} /\ files' = files /\ past' = past
    BY <1>5 DEF DeleteRecord
  <2>3. IdsInv'
    BY <2>1, <2>2 DEF IdsInv
  <2>4. FilesInv'
    BY <2>1, <2>2 DEF FilesInv
  <2> QED BY <2>3, <2>4
<1>6. ASSUME NEW p \in Process, DeleteFile(p) PROVE IdsInv' /\ FilesInv'
  <2>1. /\ call[p].at = "purge" /\ call'[p].at = "idle"
        /\ \A q \in Process \ {p} : call'[q] = call[q]
    BY <1>6, FinishFacts DEF DeleteFile, At
  <2>2. schemas' = schemas /\ files' = files \ {call[p].schema} /\ past' = past
    BY <1>6 DEF DeleteFile, Purged
  <2>3. IdsInv'
    BY <2>1, <2>2 DEF IdsInv
  <2>4. FilesInv'
    BY <2>1, <2>2 DEF FilesInv, IdsInv
  <2> QED BY <2>3, <2>4
<1>7. ASSUME NEW p \in Process,
             \/ GetFile(p) \/ Download(p) \/ EditSet(p) \/ ListSet(p)
             \/ FindSet(p) \/ FindSchema(p) \/ Look(p) \/ Update(p)
      PROVE  IdsInv' /\ FilesInv'
  <2> DEFINE elsewhere == {"idle", "download", "findSet", "findSchema", "look", "update"}
  <2>1. schemas' = schemas /\ files' = files /\ past' = past
    BY <1>7 DEF GetFile, Download, EditSet, ListSet, FindSet, FindSchema, Look, Update
  <2>2. call[p].at \in elsewhere
    BY <1>7 DEF GetFile, Download, EditSet, ListSet, FindSet, FindSchema, Look, Update,
       At
  <2>3. /\ call'[p].at \in elsewhere
        /\ \A q \in Process \ {p} : call'[q] = call[q]
    <3>1. CASE Finish(p)
      BY <3>1, FinishFacts
    <3>2. CASE Goto(p, "update")
      BY <3>2, GotoFacts DEF Step
    <3>3. CASE GetFile(p)
      BY <3>3, BeginFacts DEF GetFile
    <3>4. CASE EditSet(p)
      BY <3>4, BeginFacts DEF EditSet
    <3>5. CASE FindSet(p) /\ ~Finish(p)
      BY <3>5 DEF FindSet, AfterSet, TypeOK, CallRecord
    <3>6. CASE ListSet(p)
      BY <3>6 DEF ListSet, Begin, NewCall, TypeOK
    <3>7. CASE Look(p) /\ ~Finish(p)
      BY ZenonT(30), <3>7 DEF Look, At, TypeOK, CallRecord
    <3> QED BY <1>7, <3>1, <3>2, <3>3, <3>4, <3>5, <3>6, <3>7 DEF Download, FindSchema, Update
  <2> QED BY <2>1, <2>2, <2>3 DEF IdsInv, FilesInv
<1>8. ASSUME NEW p \in Process, CreateSet(p) \/ DeleteSet(p) PROVE IdsInv' /\ FilesInv'
  <2>1. /\ schemas' = schemas /\ files' = files /\ call' = call
        /\ past'.registered = past.registered /\ past'.given = past.given
        /\ past'.faults = past.faults
    BY <1>8 DEF CreateSet, DeleteSet, TypeOK
  <2> QED BY <2>1 DEF IdsInv, FilesInv
<1>9. ASSUME NEW p \in Process, Fail(p) PROVE IdsInv' /\ FilesInv'
  <2>1. /\ call'[p].at = "idle" /\ \A q \in Process \ {p} : call'[q] = call[q]
    BY <1>9, FinishFacts DEF Fail
  <2>2. /\ schemas' = schemas /\ files' = files
        /\ past'.registered = past.registered /\ past'.given = past.given
        /\ past'.faults # 0
    BY <1>9 DEF Fail, TypeOK
  <2> QED BY <2>1, <2>2 DEF IdsInv, FilesInv
<1> QED BY <1>0, <1>1, <1>2, <1>3, <1>4, <1>5, <1>6, <1>7, <1>8, <1>9 DEF Next, Act

(* A record in the vault always has its envelope, for any number of API    *)
(* processes and wherever their requests stop.                             *)
THEOREM RecordsHaveFiles == Spec => []RegisteredHasFile
<1>1. VaultInv => RegisteredHasFile
  BY DEF VaultInv, FilesInv, RegisteredHasFile
<1> QED BY <1>1, VaultInit, VaultStep, PTL DEF Spec

(* At rest and without a fault, records and envelopes agree.               *)
THEOREM RestIsConsistent == Spec => []OrphanNeedsFault
<1>1. VaultInv => OrphanNeedsFault
  BY DEF VaultInv, FilesInv, OrphanNeedsFault, At
<1> QED BY <1>1, VaultInit, VaultStep, PTL DEF Spec

---------------------------------------------------------------------------
(* Schema sets.                                                            *)

(* A list that a request has read, and the schema it adds, were registered;*)
(* what was unregistered before a listing began is in no answer of it.     *)
Registered(q) == q \subseteq past.registered

ListsInv ==
  /\ \A k \in SetId : sets[k] # None => Registered(sets[k])
  /\ \A p \in Process :
       /\ call[p].at \in {"findSchema", "update", "look"} => Registered(call[p].read)
       /\ (call[p].at = "update" /\ call[p].op = "addToSet") =>
            call[p].schema \in past.registered

AnswersInv ==
  \A p \in Process :
    /\ call[p].gone \subseteq past.registered \ schemas
    /\ call[p].found \cap call[p].gone = {}

SetsInv == VaultInv /\ ListsInv /\ AnswersInv

LEMMA SetsInit == Init => SetsInv
BY VaultInit, IdleRecord DEF Init, SetsInv, ListsInv, AnswersInv

(* No id is registered twice, and none is forgotten.                       *)
LEMMA NothingReturns ==
  ASSUME VaultInv, NEW p \in Process, Act(p)
  PROVE  /\ past.registered \subseteq past'.registered
         /\ past.registered \ schemas \subseteq past'.registered \ schemas'
<1>1. CASE Insert(p)
  <2>1. past'.registered = past.registered \cup {call[p].schema}
    BY <1>1 DEF Insert, VaultInv, TypeOK
  <2>2. call[p].schema \notin past.registered
    BY <1>1 DEF Insert, At, VaultInv, IdsInv
  <2> QED BY <1>1, <2>1, <2>2 DEF Insert
<1>2. CASE DeleteRecord(p)
  BY <1>2 DEF DeleteRecord
<1>3. CASE Register(p) \/ CreateSet(p) \/ Fail(p)
  BY <1>3 DEF Register, CreateSet, Fail, VaultInv, TypeOK
<1>4. CASE ~(Insert(p) \/ DeleteRecord(p) \/ Register(p) \/ CreateSet(p) \/ Fail(p))
  BY <1>4 DEF Act, Upload, Unregister, DeleteFile, GetFile, Download, DeleteSet, EditSet,
     ListSet, FindSet, FindSchema, Look, Update
<1> QED BY <1>1, <1>2, <1>3, <1>4

(* A request that begins, or ends, has found nothing; one that goes on     *)
(* keeps what it found, and a look adds only what is in the vault.         *)
LEMMA AnswersStep ==
  ASSUME SetsInv, NEW p \in Process, Act(p)
  PROVE  AnswersInv'
<1> USE DEF SetsInv, VaultInv
<1> DEFINE Keeps == \A q \in Process \ {p} : call'[q] = call[q]
           Empty == call'[p].found = {} /\ call'[p].gone \subseteq past.registered \ schemas
           Same  == call'[p].found = call[p].found /\ call'[p].gone = call[p].gone
           Adds  == /\ call'[p].gone = call[p].gone
                    /\ call'[p].found \subseteq call[p].found \cup schemas
<1>1. CASE Register(p) \/ Unregister(p) \/ GetFile(p) \/ EditSet(p)
  <2>1. Keeps /\ Empty
    BY <1>1, BeginFacts DEF Register, Unregister, GetFile, EditSet
  <2> QED BY <2>1, NothingReturns DEF AnswersInv
<1>2. CASE ListSet(p)
  <2>1. Keeps /\ Empty
    BY <1>2 DEF ListSet, Begin, NewCall, TypeOK
  <2> QED BY <2>1, NothingReturns DEF AnswersInv
<1>3. CASE Finish(p)
  <2>1. Keeps /\ Empty
    BY <1>3, FinishFacts
  <2> QED BY <2>1, NothingReturns DEF AnswersInv
<1>4. CASE ~Finish(p) /\ (Upload(p) \/ DeleteRecord(p) \/ FindSchema(p))
  <2>1. Keeps /\ Same
    BY <1>4, GotoFacts DEF Upload, DeleteRecord, FindSchema, Step
  <2> QED BY <2>1, NothingReturns DEF AnswersInv
<1>5. CASE ~Finish(p) /\ FindSet(p)
  <2>1. Keeps /\ Same
    BY <1>5 DEF FindSet, TypeOK, CallRecord
  <2> QED BY <2>1, NothingReturns DEF AnswersInv
<1>6. CASE ~Finish(p) /\ Look(p)
  <2>1. PICK s \in call[p].read :
          call' = [call EXCEPT ![p].read = @ \ {s}, ![p].found = @ \cup Found(s)]
    BY <1>6 DEF Look
  <2>2. /\ call'[p] = [call[p] EXCEPT !.read = @ \ {s}, !.found = @ \cup Found(s)]
        /\ call[p] \in CallRecord /\ Keeps
    BY <2>1 DEF TypeOK
  <2>3. Keeps /\ Adds
    BY <2>2 DEF Found, CallRecord
  <2>4. call[p].gone \cap schemas = {}
    BY DEF AnswersInv
  <2> QED BY <2>3, <2>4, NothingReturns DEF AnswersInv
<1>7. CASE CreateSet(p) \/ DeleteSet(p)
  <2>1. call' = call
    BY <1>7 DEF CreateSet, DeleteSet
  <2> QED BY <2>1, NothingReturns DEF AnswersInv
<1> QED BY <1>1, <1>2, <1>3, <1>4, <1>5, <1>6, <1>7
        DEF Act, Insert, DeleteFile, Download, Update, Fail

LEMMA ListsStep ==
  ASSUME SetsInv, NEW p \in Process, Act(p)
  PROVE  ListsInv'
<1> USE DEF SetsInv, VaultInv, Registered
<1>p. past.registered \subseteq past'.registered
  BY NothingReturns
<1> DEFINE Keeps == \A q \in Process \ {p} : call'[q] = call[q]
<1>1. CASE Register(p) \/ Unregister(p) \/ GetFile(p) \/ EditSet(p)
  <2>1. call'[p].at \in {"upload", "delete", "download", "findSet"} /\ Keeps
    BY <1>1, BeginFacts DEF Register, Unregister, GetFile, EditSet, FirstWrite
  <2>2. sets' = sets
    BY <1>1 DEF Register, Unregister, GetFile, EditSet
  <2> QED BY <2>1, <2>2, <1>p DEF ListsInv
<1>2. CASE ListSet(p)
  <2>1. call'[p].at = "findSet" /\ Keeps /\ sets' = sets
    BY <1>2 DEF ListSet, Begin, NewCall, TypeOK
  <2> QED BY <2>1, <1>p DEF ListsInv
<1>3. CASE Finish(p) /\ ~Update(p) /\ ~CreateSet(p) /\ ~DeleteSet(p)
  <2>1. call'[p].at = "idle" /\ Keeps
    BY <1>3, FinishFacts
  <2>2. sets' = sets
    BY <1>3 DEF Act, Register, Upload, Insert, Unregister, DeleteRecord,
               DeleteFile, GetFile, Download, EditSet, ListSet, FindSet, FindSchema, Look,
               Fail
  <2> QED BY <2>1, <2>2, <1>p DEF ListsInv
<1>4. CASE Upload(p) \/ DeleteRecord(p)
  <2>1. call'[p].at \in {"insert", "purge"} /\ Keeps /\ sets' = sets
    BY <1>4, GotoFacts DEF Upload, DeleteRecord, Step
  <2> QED BY <2>1, <1>p DEF ListsInv
<1>5. CASE CreateSet(p) \/ DeleteSet(p)
  <2>1. call' = call
    BY <1>5 DEF CreateSet, DeleteSet
  <2>2. \A k \in SetId : sets'[k] # None => sets'[k] = sets[k] \/ sets'[k] = {}
    BY <1>5 DEF CreateSet, DeleteSet, TypeOK
  <2> QED BY <2>1, <2>2, <1>p DEF ListsInv
<1>6. CASE ~Finish(p) /\ FindSet(p)
  <2>1. /\ call'[p].read = sets[call[p].set] /\ call'[p].op = call[p].op
        /\ call'[p].at = AfterSet(call[p].op) /\ Keeps
    BY <1>6 DEF FindSet, TypeOK, CallRecord
  <2>2. call[p].set \in SetId /\ sets[call[p].set] # None /\ sets' = sets
    BY <1>6 DEF FindSet, At, TypeOK
  <2>3. ~(call'[p].at = "update" /\ call'[p].op = "addToSet")
    BY <2>1 DEF AfterSet
  <2> QED BY <2>1, <2>2, <2>3, <1>p DEF ListsInv
<1>7. CASE ~Finish(p) /\ FindSchema(p)
  <2>1. /\ call'[p].at = "update" /\ call'[p].schema = call[p].schema
        /\ call'[p].read = call[p].read /\ Keeps
    BY <1>7, GotoFacts DEF FindSchema, Step
  <2>2. call[p].at = "findSchema" /\ sets' = sets /\ call[p].schema \in past.registered
    BY <1>7 DEF FindSchema, At, Known, IdsInv
  <2> QED BY <2>1, <2>2, <1>p DEF ListsInv
<1>8. CASE ~Finish(p) /\ Look(p)
  <2>1. PICK s \in call[p].read :
          call' = [call EXCEPT ![p].read = @ \ {s}, ![p].found = @ \cup Found(s)]
    BY <1>8 DEF Look
  <2>2. /\ call'[p] = [call[p] EXCEPT !.read = @ \ {s}, !.found = @ \cup Found(s)]
        /\ call[p] \in CallRecord /\ Keeps
    BY <2>1 DEF TypeOK
  <2>3. call[p].at = "look" /\ sets' = sets
    BY <1>8 DEF Look, At
  <2>4. call'[p].at = "look" /\ call'[p].read \subseteq call[p].read
    BY <2>2, <2>3 DEF CallRecord
  <2> QED BY <2>2, <2>3, <2>4, <1>p DEF ListsInv
<1>9. CASE Update(p)
  <2>1. call[p].at = "update" /\ call'[p].at = "idle" /\ Keeps
    BY <1>9, FinishFacts DEF Update, At
  <2>2. Edited(call[p]) \subseteq past.registered
    BY <2>1 DEF ListsInv, Edited
  <2>3. \A k \in SetId : sets'[k] = sets[k] \/ sets'[k] = Edited(call[p])
    BY <1>9 DEF Update, Store, TypeOK
  <2> QED BY <2>1, <2>2, <2>3, <1>p DEF ListsInv
<1> QED BY <1>1, <1>2, <1>3, <1>4, <1>5, <1>6, <1>7, <1>8, <1>9
        DEF Act, Insert, DeleteFile, Download, Fail

LEMMA SetsStep == SetsInv /\ [Next]_vars => SetsInv'
<1> SUFFICES ASSUME SetsInv, [Next]_vars PROVE (ListsInv /\ AnswersInv)'
  BY VaultStep DEF SetsInv
<1>1. CASE UNCHANGED vars
  BY <1>1 DEF vars, SetsInv, ListsInv, Registered, AnswersInv
<1>2. ASSUME NEW p \in Process, Act(p) PROVE (ListsInv /\ AnswersInv)'
  BY <1>2, ListsStep, AnswersStep
<1> QED BY <1>1, <1>2 DEF Next

(* Every schema a set lists was registered at some time.                   *)
THEOREM ListsAreRegistered == Spec => []ListedWasRegistered
<1>1. SetsInv => ListedWasRegistered
  BY DEF SetsInv, ListsInv, Registered, ListedWasRegistered
<1> QED BY <1>1, SetsInit, SetsStep, PTL DEF Spec

(* No answer names a schema that was unregistered before the request.      *)
THEOREM AnswersAreRecent == Spec => []AnswerIsRecent
<1>1. SetsInv => AnswerIsRecent
  BY DEF SetsInv, AnswersInv, AnswerIsRecent
<1> QED BY <1>1, SetsInit, SetsStep, PTL DEF Spec

(* No step brings a deleted set back.                                      *)
THEOREM NoSetReturns == Spec => DeletedStaysDeleted
<1> DEFINE Stays == \A k \in past.created : sets[k] = None => sets'[k] = None
<1>1. TypeOK /\ [Next]_vars => [Stays]_vars
  <2> SUFFICES ASSUME TypeOK, Next PROVE Stays
    OBVIOUS
  <2>1. ASSUME NEW p \in Process, CreateSet(p) PROVE Stays
    BY <2>1 DEF CreateSet, TypeOK
  <2>2. ASSUME NEW p \in Process, DeleteSet(p) PROVE Stays
    BY <2>2 DEF DeleteSet, TypeOK
  <2>3. ASSUME NEW p \in Process, Update(p) PROVE Stays
    BY <2>3 DEF Update, Store, TypeOK
  <2>4. ASSUME NEW p \in Process, Act(p), ~CreateSet(p), ~DeleteSet(p), ~Update(p)
        PROVE  sets' = sets
    BY <2>4 DEF Act, Register, Upload, Insert, Unregister, DeleteRecord, DeleteFile,
       GetFile, Download, EditSet, ListSet, FindSet, FindSchema, Look, Fail
  <2> QED BY <2>1, <2>2, <2>3, <2>4 DEF Next
<1> QED BY <1>1, TypeInit, TypeStep, PTL DEF Spec, DeletedStaysDeleted
=============================================================================
