------------------------- MODULE ServiceContainer --------------------------
(***************************************************************************)
(* AppContext, the container that hands out services (the same code in the *)
(* workflow, the pipeline and the API), and ServiceScope, through which a  *)
(* task asks for the services of one scope.  Tasks of one event loop       *)
(* share a container: a step runs from one await to the next.  Awaited are *)
(* the making of an async service and the closing of one; either may fail  *)
(* or be cancelled, and making one may also finish without a pause.        *)
(*                                                                         *)
(* All scopes share the one field _current_scope_id, so that only tasks in *)
(* Scoped open scopes and ask for scoped services; the source never has    *)
(* more than one such task in a process (the extract step).  Requests for  *)
(* a service that is not registered, or in the wrong way, raise and change *)
(* nothing; they are left out.  So is shutdown_async, which no program of  *)
(* the repository calls.                                                   *)
(***************************************************************************)
EXTENDS Naturals, Sequences, FiniteSets

CONSTANTS
  Task,        (* tasks of the event loop                                   *)
  Scoped,      (* those that open scopes                                    *)
  Service,     (* registered services                                       *)
  LifetimeOf,  (* how each was registered                                   *)
  Scope,       (* the ids uuid4 gives scopes                                *)
  None,        (* no scope, no entry, no instance                           *)
  MaxMade,     (* bound: instances made                                     *)
  MaxFaults    (* bound: awaits that fail or are cancelled                  *)

ServiceLifetime == {"singleton", "transient", "scoped", "async_singleton", "async_scoped"}

ASSUME ContainerAssumption ==
  /\ Scoped \subseteq Task
  /\ LifetimeOf \in [Service -> ServiceLifetime]
  /\ None \notin Scope \cup Service \cup Nat
  /\ None \notin [Service -> Nat \cup {None}]
  /\ MaxMade \in Nat /\ MaxFaults \in Nat

VARIABLES
  instances,   (* _instances: the singletons made so far                    *)
  entries,     (* _scoped_instances: what each scope holds, or None         *)
  current,     (* _current_scope_id                                         *)
  task,        (* each task's open scopes and the await it is in            *)
  made,        (* history: the instances kept, for which scope, and if open *)
  past         (* history: scopes opened and ended, a failed close, faults  *)

vars == <<instances, entries, current, task, made, past>>

(* Registering a type with a lifetime: the last registration stands.  The  *)
(* programs register everything before they ask, so that LifetimeOf, what  *)
(* comes of it, is a constant.                                             *)
Registered(services, v, lifetime) ==
  [w \in DOMAIN services \cup {v} |-> IF w = v THEN lifetime ELSE services[w]]

AddSingleton(services, v) == Registered(services, v, "singleton")
AddTransient(services, v) == Registered(services, v, "transient")
AddScoped(services, v) == Registered(services, v, "scoped")
AddAsyncSingleton(services, v) == Registered(services, v, "async_singleton")
AddAsyncScoped(services, v) == Registered(services, v, "async_scoped")

IsAsync(v) == LifetimeOf[v] \in {"async_singleton", "async_scoped"}

Init ==
  /\ instances = [v \in Service |-> None]
  /\ entries = [c \in Scope |-> None]
  /\ current = None
  /\ task = [t \in Task |-> [open |-> <<>>, at |-> "run", service |-> None,
                             via |-> None, old |-> None, todo |-> {}]]
  /\ made = <<>>
  /\ past = [opened |-> {}, ended |-> {}, spoiled |-> FALSE, faults |-> 0]

At(t, at) == task[t].at = at

(* The scope a task is in: the last it opened.                             *)
Innermost(t) ==
  IF task[t].open = <<>> THEN None ELSE task[t].open[Len(task[t].open)].scope
Opened(t) == {task[t].open[i].scope : i \in DOMAIN task[t].open}

(* A task asks the container itself, or the ServiceScope of a scope it     *)
(* opened; both mean the same scope to it when it asks in its innermost.   *)
Means(t, via) == IF via = None THEN Innermost(t) ELSE via
MayAsk(t, v)  == LifetimeOf[v] \in {"scoped", "async_scoped"} => t \in Scoped

Holds(c, v) == IF entries[c] = None THEN None ELSE entries[c][v]

(* The entry of a scope appears with its first instance.                   *)
Keep(c, v, i) ==
  entries' = [entries EXCEPT ![c] =
    [(IF @ = None THEN [w \in Service |-> None] ELSE @) EXCEPT ![v] = i]]

Makes(t, v, via) ==
  /\ Len(made) < MaxMade
  /\ made' = Append(made, [service |-> v, for |-> Means(t, via), open |-> TRUE])

Cache(v, i) == instances' = [instances EXCEPT ![v] = i]

---------------------------------------------------------------------------
(* Resolving a service.                                                    *)

(* get_service runs without a pause; ServiceScope.get_service puts its     *)
(* scope in place before and the old one back after.  (A transient service *)
(* is made anew for each request, and so is an async one: neither is kept, *)
(* nor closed, by the container.)                                          *)
GetService(t) ==
  /\ At(t, "run")
  /\ \E v \in Service, via \in Opened(t) \cup {None} :
       LET c == IF via = None THEN current ELSE via
           i == Len(made) + 1 IN
       /\ MayAsk(t, v)
       /\ Makes(t, v, via)
       /\ \/ /\ LifetimeOf[v] = "singleton" /\ instances[v] = None
             /\ Cache(v, i)
             /\ UNCHANGED entries
          \/ /\ LifetimeOf[v] = "scoped" /\ c # None
             /\ Holds(c, v) = None
             /\ Keep(c, v, i)
             /\ UNCHANGED instances
  /\ UNCHANGED <<current, task, past>>

(* get_service_async finds no instance and starts to make one; through a   *)
(* ServiceScope, the scope is in place while it waits.  (What is cached is *)
(* returned, and without a scope the request raises: nothing changes.)     *)
GetServiceAsync(t) ==
  /\ At(t, "run")
  /\ \E v \in Service, via \in Opened(t) \cup {None} :
       LET c == IF via = None THEN current ELSE via IN
       /\ IsAsync(v) /\ MayAsk(t, v)
       /\ \/ LifetimeOf[v] = "async_singleton" /\ instances[v] = None
          \/ LifetimeOf[v] = "async_scoped" /\ c # None /\ Holds(c, v) = None
       /\ current' = c
       /\ task' = [task EXCEPT ![t].at = "make", ![t].service = v, ![t].via = via,
                               ![t].old = current]
  /\ UNCHANGED <<instances, entries, made, past>>

(* Mutant: the scope stays in place.                                       *)
PutBackNothing(t) == UNCHANGED current

PutBack(t) == current' = IF task[t].via = None THEN current ELSE task[t].old

Returns(t) ==
  /\ PutBack(t)
  /\ task' = [task EXCEPT ![t].at = "run", ![t].service = None, ![t].via = None,
                          ![t].old = None]

(* The instance is there: it is cached under the scope in place by now.    *)
Made(t) ==
  LET v == task[t].service
      i == Len(made) + 1 IN
  /\ At(t, "make")
  /\ Makes(t, v, task[t].via)
  /\ \/ /\ LifetimeOf[v] = "async_singleton"
        /\ Cache(v, i)
        /\ UNCHANGED entries
     \/ /\ LifetimeOf[v] = "async_scoped"
        /\ IF current = None THEN UNCHANGED entries   \* kept under the key None
           ELSE Keep(current, v, i)
        /\ UNCHANGED instances
  /\ Returns(t)
  /\ UNCHANGED past

Fault == past.faults < MaxFaults /\ past' = [past EXCEPT !.faults = @ + 1]

NotMade(t) ==
  /\ At(t, "make") /\ Fault
  /\ Returns(t)
  /\ UNCHANGED <<instances, entries, made>>

---------------------------------------------------------------------------
(* Scopes.                                                                 *)

(* create_scope, entered.                                                  *)
EnterScope(t) ==
  /\ At(t, "run") /\ t \in Scoped
  /\ \E c \in Scope \ past.opened :
       /\ current' = c
       /\ task' = [task EXCEPT ![t].open = Append(@, [scope |-> c, old |-> current])]
       /\ past' = [past EXCEPT !.opened = @ \cup {c}]
  /\ UNCHANGED <<instances, entries, made>>

(* Mutant: the lifetime of the other kind of scoped service is looked for. *)
ClosesSync(v) == LifetimeOf[v] = "scoped"

Closes(v) == IsAsync(v)

(* The block of the innermost scope ends, with or without an exception:    *)
(* what the scope holds of async services is to be closed.                 *)
ExitScope(t) ==
  /\ At(t, "run") /\ task[t].open # <<>>
  /\ task' = [task EXCEPT ![t].at = "close", ![t].todo =
       {Holds(Innermost(t), v) : v \in {w \in Service : Closes(w)}} \ {None}]
  /\ UNCHANGED <<instances, entries, current, made, past>>

Close(t) ==
  /\ At(t, "close")
  /\ \E i \in task[t].todo :
       /\ made' = [made EXCEPT ![i].open = FALSE]
       /\ task' = [task EXCEPT ![t].todo = @ \ {i}]
  /\ UNCHANGED <<instances, entries, current, past>>

Pop(t) ==
  task' = [task EXCEPT ![t].at = "run", ![t].todo = {},
                       ![t].open = SubSeq(@, 1, Len(@) - 1)]

(* A close raises: the others are not closed, and neither the entry nor    *)
(* the field _current_scope_id is put right.                               *)
CloseFails(t) ==
  /\ At(t, "close") /\ task[t].todo # {}
  /\ past.faults < MaxFaults
  /\ past' = [past EXCEPT !.faults = @ + 1, !.spoiled = TRUE]
  /\ Pop(t)
  /\ UNCHANGED <<instances, entries, current, made>>

(* All is closed: the entry goes, and the outer scope is back in place.    *)
ScopeEnds(t) ==
  /\ At(t, "close") /\ task[t].todo = {}
  /\ LET frame == task[t].open[Len(task[t].open)] IN
       /\ entries' = [entries EXCEPT ![frame.scope] = None]
       /\ current' = frame.old
       /\ past' = [past EXCEPT !.ended = @ \cup {frame.scope}]
  /\ Pop(t)
  /\ UNCHANGED <<instances, made>>

---------------------------------------------------------------------------

Next == \E t \in Task :
  \/ GetService(t) \/ GetServiceAsync(t) \/ Made(t) \/ NotMade(t)
  \/ EnterScope(t) \/ ExitScope(t) \/ Close(t) \/ CloseFails(t) \/ ScopeEnds(t)

Spec == Init /\ [][Next]_vars

---------------------------------------------------------------------------
(* Properties.                                                             *)

Instance == 1..Len(made)

Frame == [scope : Scope, old : Scope \cup {None}]

TypeOK ==
  /\ instances \in [Service -> Nat \cup {None}]
  /\ entries \in [Scope -> [Service -> Nat \cup {None}] \cup {None}]
  /\ current \in Scope \cup {None}
  /\ task \in [Task -> [open : Seq(Frame), at : {"run", "make", "close"},
                       service : Service \cup {None}, via : Scope \cup {None},
                       old : Scope \cup {None}, todo : SUBSET Nat]]
  /\ \A c \in Scope, v \in Service : Holds(c, v) \in Instance \cup {None}
  /\ \A t \in Task : /\ task[t].todo \subseteq Instance
                     /\ At(t, "make") => task[t].service \in Service
                     /\ At(t, "close") => task[t].open # <<>>
  /\ made \in Seq([service : Service, for : Scope \cup {None}, open : BOOLEAN])
  /\ past \in [opened : SUBSET Scope, ended : SUBSET Scope, spoiled : BOOLEAN,
               faults : Nat]

(* Within a scope a scoped service is one instance: what was made for the  *)
(* innermost scope of whoever asked, directly or through a ServiceScope,   *)
(* is what that scope holds, around nested scopes and failed requests.     *)
SameWithinScope ==
  ~past.spoiled =>
    \A i \in Instance :
      (/\ made[i].for \in past.opened \ past.ended
       /\ LifetimeOf[made[i].service] \in {"scoped", "async_scoped"}) =>
         Holds(made[i].for, made[i].service) = i

(* A scope that ended without a failed close left nothing behind: no entry *)
(* from which a later request could be served, no instance of an async     *)
(* service still open, and not its id as the current scope.                *)
EndedLeavesNothing ==
  ~past.spoiled =>
    /\ \A c \in past.ended : entries[c] = None
    /\ current \notin past.ended
    /\ \A i \in Instance :
         (/\ made[i].for \in past.ended
          /\ LifetimeOf[made[i].service] = "async_scoped") => ~made[i].open

(* Async singletons are created once (add_async_singleton): two tasks that *)
(* ask before the first instance is there each make one.                   *)
AsyncSingletonMadeOnce ==
  \A i, j \in Instance :
    (/\ made[i].service = made[j].service
     /\ LifetimeOf[made[i].service] = "async_singleton") => i = j

---------------------------------------------------------------------------
(* What the proofs carry along: the facts that make the properties above   *)
(* hold step by step.  They want OneScopedTask: two tasks with scopes would*)
(* each find the other's in the field they share.                          *)

OneScopedTask == \A s, t \in Scoped : s = t

(* Only Scoped tasks open scopes and ask for what is kept in one.          *)
ScopesAreScoped ==
  \A t \in Task :
    /\ t \notin Scoped => task[t].open = <<>>
    /\ At(t, "make") => /\ IsAsync(task[t].service) /\ MayAsk(t, task[t].service)
                        /\ task[t].via \in Opened(t) \cup {None}

(* The frames of a task are a stack of different scopes, each of which     *)
(* remembers the one below; they are all the scopes that have not ended.   *)
Stacked ==
  /\ past.ended \subseteq past.opened
  /\ \A c \in past.opened \ past.ended : \E t \in Scoped : c \in Opened(t)
  /\ \A t \in Scoped :
       /\ Opened(t) \subseteq past.opened \ past.ended
       /\ \A j, k \in DOMAIN task[t].open :
            task[t].open[j].scope = task[t].open[k].scope => j = k
       /\ \A k \in DOMAIN task[t].open :
            task[t].open[k].old = IF k = 1 THEN None ELSE task[t].open[k - 1].scope

(* The scope in place is the task's innermost, or the one it asks through. *)
InPlace ==
  /\ Scoped = {} => current = None
  /\ \A t \in Scoped :
       IF At(t, "make")
       THEN current = Means(t, task[t].via) /\ task[t].old = Innermost(t)
       ELSE current = Innermost(t)

(* While an instance for a scope is being made the scope has none.         *)
RoomForMade ==
  \A t \in Scoped :
    At(t, "make") /\ LifetimeOf[task[t].service] = "async_scoped" =>
      current # None /\ Holds(current, task[t].service) = None

(* Only scopes that were opened have instances made for them; what is open *)
(* of a scope that is being closed is still to be closed.                  *)
MadeForOpened == \A i \in Instance : made[i].for \in past.opened \cup {None}
ClosesAll ==
  \A t \in Scoped : \A i \in Instance :
    /\ At(t, "close") /\ made[i].for = Innermost(t)
    /\ LifetimeOf[made[i].service] = "async_scoped" /\ made[i].open
    => i \in task[t].todo

(* A failed close spoils all but the types and who may ask.                *)
Unspoiled ==
  /\ Stacked /\ InPlace /\ RoomForMade /\ MadeForOpened /\ ClosesAll
  /\ SameWithinScope /\ EndedLeavesNothing

ContainerInvariant == TypeOK /\ ScopesAreScoped /\ (~past.spoiled => Unspoiled)

=============================================================================
