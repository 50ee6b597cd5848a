---------------------------- MODULE SchemaVault ----------------------------
(***************************************************************************)
(* The schema vault of the API (schemavault.py, schemasetvault.py and the  *)
(* two classes behind them): schemas, each a record in Cosmos DB and a     *)
(* JSON envelope in blob storage, and schema sets, each a record that      *)
(* lists schemas by id (how often and in what order is left out).          *)
(*                                                                         *)
(* A handler has no await, so that an API process serves one vault call at *)
(* a time; four processes run, so that the remote calls of two requests    *)
(* interleave.  A step is one remote call.  A call that fails, and a       *)
(* process that dies, ends the request where it is, whether or not the     *)
(* last remote call took effect.                                           *)
(***************************************************************************)
EXTENDS Naturals

CONSTANTS
  Process,     (* API processes                                             *)
  SchemaId,    (* the ids uuid4 gives schemas                               *)
  SetId,       (* the ids uuid4 gives schema sets                           *)
  None,        (* no such set, nothing read                                 *)
  MaxFaults    (* bound: requests that end early                            *)

ASSUME VaultAssumption ==
  /\ \A q \in SUBSET SchemaId : q # None
  /\ MaxFaults \in Nat

VARIABLES
  schemas,     (* ids with a record in the schema collection                *)
  files,       (* ids with an envelope in blob storage                      *)
  sets,        (* the schema ids each set lists, or None                    *)
  call,        (* the request each process serves                           *)
  past         (* history: ids given out, ids ever registered, faults       *)

vars == <<schemas, files, sets, call, past>>

Operation == {"register", "unregister", "getFile", "addToSet", "removeFromSet", "listSet"}
Step == {"idle", "upload", "insert", "delete", "purge", "download",
         "findSet", "findSchema", "update", "look"}

(* A request: what it is about, what it read, and what it will answer.     *)
NewCall(op, at, k, s) ==
  [op |-> op, at |-> at, set |-> k, schema |-> s, read |-> None, found |-> {}, gone |-> {}]
Idle == NewCall("getFile", "idle", None, None)

Init ==
  /\ schemas = {} /\ files = {}
  /\ sets = [k \in SetId |-> None]
  /\ call = [p \in Process |-> Idle]
  /\ past = [given |-> {}, registered |-> {}, created |-> {}, faults |-> 0]

At(p, at)    == call[p].at = at
Begin(p, c)  == call' = [call EXCEPT ![p] = c]
Goto(p, at)  == call' = [call EXCEPT ![p].at = at]
Finish(p)    == call' = [call EXCEPT ![p] = Idle]

---------------------------------------------------------------------------
(* Schemas.                                                                *)

(* Mutant: the record is written before the envelope.                      *)
FirstWriteRecord == "insert"

FirstWrite == "upload"

(* Register_Schema_Json: a fresh id, the envelope first (AddJson).         *)
Register(p) ==
  /\ At(p, "idle")
  /\ \E s \in SchemaId \ past.given :
       /\ Begin(p, NewCall("register", FirstWrite, None, s))
       /\ past' = [past EXCEPT !.given = @ \cup {s}]
  /\ UNCHANGED <<schemas, files, sets>>

Upload(p) ==
  /\ At(p, "upload")
  /\ files' = files \cup {call[p].schema}
  /\ Goto(p, "insert")
  /\ UNCHANGED <<schemas, sets, past>>

Insert(p) ==
  /\ At(p, "insert")
  /\ schemas' = schemas \cup {call[p].schema}
  /\ past' = [past EXCEPT !.registered = @ \cup {call[p].schema}]
  /\ Finish(p)
  /\ UNCHANGED <<files, sets>>

(* Unregister_Schema and the file download look the record up first; what  *)
(* is not found is an error that changes nothing.                          *)
Unregister(p) ==
  /\ At(p, "idle")
  /\ \E s \in schemas : Begin(p, NewCall("unregister", "delete", None, s))
  /\ UNCHANGED <<schemas, files, sets, past>>

(* delete_document: the record, if it is still there.                      *)
DeleteRecord(p) ==
  /\ At(p, "delete")
  /\ schemas' = schemas \ {call[p].schema}
  /\ Goto(p, "purge")
  /\ UNCHANGED <<files, sets, past>>

(* Mutant: the name of the blob is looked up in the record, by now gone.   *)
PurgedIfFound(s) == IF s \in schemas THEN files \ {s} ELSE files

Purged(s) == files \ {s}

(* delete_blob_and_cleanup: a blob that is absent is no error.             *)
DeleteFile(p) ==
  /\ At(p, "purge")
  /\ files' = Purged(call[p].schema)
  /\ Finish(p)
  /\ UNCHANGED <<schemas, sets, past>>

GetFile(p) ==
  /\ At(p, "idle")
  /\ \E s \in schemas : Begin(p, NewCall("getFile", "download", None, s))
  /\ UNCHANGED <<schemas, files, sets, past>>

(* The download: the envelope, or an error when there is none.             *)
Download(p) ==
  /\ At(p, "download")
  /\ Finish(p)
  /\ UNCHANGED <<schemas, files, sets, past>>

---------------------------------------------------------------------------
(* Schema sets.  Creating and deleting one is a single remote call.        *)

CreateSet(p) ==
  /\ At(p, "idle")
  /\ \E k \in SetId \ past.created :
       /\ sets' = [sets EXCEPT ![k] = {}]
       /\ past' = [past EXCEPT !.created = @ \cup {k}]
  /\ UNCHANGED <<schemas, files, call>>

DeleteSet(p) ==
  /\ At(p, "idle")
  /\ \E k \in SetId : sets[k] # None /\ sets' = [sets EXCEPT ![k] = None]
  /\ UNCHANGED <<schemas, files, call, past>>

(* A client names any set and any schema, listed or not.                   *)
EditSet(p) ==
  /\ At(p, "idle")
  /\ \E k \in SetId, s \in SchemaId, op \in {"addToSet", "removeFromSet"} :
       Begin(p, NewCall(op, "findSet", k, s))
  /\ UNCHANGED <<schemas, files, sets, past>>

(* gone is history: what was unregistered by the time the request began.   *)
ListSet(p) ==
  /\ At(p, "idle")
  /\ \E k \in SetId :
       Begin(p, [NewCall("listSet", "findSet", k, None) EXCEPT
                   !.gone = past.registered \ schemas])
  /\ UNCHANGED <<schemas, files, sets, past>>

AfterSet(op) ==
  CASE op = "addToSet" -> "findSchema" [] op = "listSet" -> "look" [] OTHER -> "update"

(* The set as it is now; an addition and a listing look schemas up next.   *)
FindSet(p) ==
  /\ At(p, "findSet")
  /\ LET c == call[p] IN
       IF sets[c.set] = None THEN Finish(p)                    \* 404
       ELSE call' = [call EXCEPT ![p].read = sets[c.set], ![p].at = AfterSet(c.op)]
  /\ UNCHANGED <<schemas, files, sets, past>>

(* Mutant: the schema is not looked up.                                    *)
KnownAnyhow(s) == TRUE

Known(s) == s \in schemas

FindSchema(p) ==
  /\ At(p, "findSchema")
  /\ IF Known(call[p].schema) THEN Goto(p, "update") ELSE Finish(p)   \* 404
  /\ UNCHANGED <<schemas, files, sets, past>>

(* Mutant: the listing answers what the set lists.                         *)
FoundAnyhow(s) == {s}

Found(s) == {s} \cap schemas

(* A listing looks up each schema the set listed, and answers the records  *)
(* it found; the others are left out without a word.                       *)
Look(p) ==
  /\ At(p, "look")
  /\ \/ \E s \in call[p].read :
          call' = [call EXCEPT ![p].read = @ \ {s}, ![p].found = @ \cup Found(s)]
     \/ call[p].read = {} /\ Finish(p)
  /\ UNCHANGED <<schemas, files, sets, past>>

(* The list as it was read, with the schema appended or left out.          *)
Edited(c) ==
  IF c.op = "addToSet" THEN c.read \cup {c.schema} ELSE c.read \ {c.schema}

(* Mutant: the write is an upsert.                                         *)
StoreAnyhow(c) == sets' = [sets EXCEPT ![c.set] = Edited(c)]

(* update_document_by_query replaces the list of a set that still exists;  *)
(* the request succeeds either way.                                        *)
Store(c) ==
  IF sets[c.set] = None THEN UNCHANGED sets
  ELSE sets' = [sets EXCEPT ![c.set] = Edited(c)]

Update(p) ==
  /\ At(p, "update")
  /\ Store(call[p])
  /\ Finish(p)
  /\ UNCHANGED <<schemas, files, past>>

---------------------------------------------------------------------------

(* A remote call fails, or the process dies.                               *)
Fail(p) ==
  /\ ~At(p, "idle") /\ past.faults < MaxFaults
  /\ past' = [past EXCEPT !.faults = @ + 1]
  /\ Finish(p)
  /\ UNCHANGED <<schemas, files, sets>>

Act(p) ==
  \/ Register(p) \/ Upload(p) \/ Insert(p)
  \/ Unregister(p) \/ DeleteRecord(p) \/ DeleteFile(p)
  \/ GetFile(p) \/ Download(p)
  \/ CreateSet(p) \/ DeleteSet(p)
  \/ EditSet(p) \/ ListSet(p) \/ FindSet(p) \/ FindSchema(p) \/ Look(p) \/ Update(p)
  \/ Fail(p)

Next == \E p \in Process : Act(p)

Spec == Init /\ [][Next]_vars

---------------------------------------------------------------------------
(* Properties.                                                             *)

CallRecord ==
  [op : Operation, at : Step, set : SetId \cup {None}, schema : SchemaId \cup {None},
   read : {None} \cup SUBSET SchemaId,
   found : SUBSET SchemaId, gone : SUBSET SchemaId]

(* The type invariant; a request that is under way has what its next       *)
(* remote call needs.                                                      *)
TypeOK ==
  /\ schemas \subseteq SchemaId /\ files \subseteq SchemaId
  /\ sets \in [SetId -> {None} \cup SUBSET SchemaId]
  /\ call \in [Process -> CallRecord]
  /\ \A p \in Process :
       /\ ~At(p, "idle") /\ call[p].op # "listSet" => call[p].schema \in SchemaId
       /\ call[p].at \in {"findSet", "findSchema", "update"} => call[p].set \in SetId
       /\ call[p].at \in {"findSchema", "update", "look"} => call[p].read \subseteq SchemaId
       /\ (call[p].op = "listSet") => call[p].at \in {"findSet", "look"}
  /\ past \in [given : SUBSET SchemaId, registered : SUBSET SchemaId,
               created : SUBSET SetId, faults : 0..MaxFaults]

(* Whoever finds a schema's record finds its envelope: the order of the    *)
(* writes and of the deletions holds up under any number of requests and   *)
(* wherever they stop.  The extraction and mapping steps of the pipeline   *)
(* read the record and then the envelope.                                  *)
RegisteredHasFile == schemas \subseteq files

(* An envelope without a record is left only by a request that ended       *)
(* early: once no request is under way, a vault that met no fault holds    *)
(* exactly one envelope per record, whoever unregistered what twice.       *)
OrphanNeedsFault ==
  (past.faults = 0 /\ \A p \in Process : At(p, "idle")) => files = schemas

(* A set lists only schemas that were registered at some time: no edit,    *)
(* however late its write, brings in an id the vault never knew.  (It may  *)
(* list one that was unregistered since: unregistering edits no set.)      *)
ListedWasRegistered ==
  \A k \in SetId : sets[k] # None => sets[k] \subseteq past.registered

(* A listing answers no schema that was unregistered before the request    *)
(* was made, though its set may list it still: what it answers was in the  *)
(* vault at some moment while the request ran.                             *)
AnswerIsRecent == \A p \in Process : call[p].found \cap call[p].gone = {}

(* A set that was deleted never comes back, not even by an edit that read  *)
(* it before it was deleted and writes afterwards.                         *)
DeletedStaysDeleted ==
  [][\A k \in past.created : sets[k] = None => sets'[k] = None]_vars

=============================================================================
