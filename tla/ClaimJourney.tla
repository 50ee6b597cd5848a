--------------------------- MODULE ClaimJourney ---------------------------
(***************************************************************************)
(* The adjuster's journey through one claim: the single-page application of*)
(* src/ContentProcessorClaimsDemo (its persisted store, the section hooks  *)
(* that fetch and poll, the sections with their buttons) and the endpoints *)
(* of claimsdemo.py it calls, which keep the decision, the acknowledged    *)
(* findings and the queued letter in blobs beside the claim and the summary*)
(* in the claim record.                                                    *)
(*                                                                         *)
(* The browser runs one event at a time; between two of its events the API *)
(* may serve any request that is out.  A request and its answer are two    *)
(* steps, because what was read can be stale when the answer is shown.     *)
(* Every call may fail: before its effect, or after it (the audit event is *)
(* appended last, and an answer can be lost).                              *)
(***************************************************************************)
EXTENDS Naturals, FiniteSets

CONSTANTS
  Finding,      (* the critical findings the gap analysis can raise         *)
  Decision,     (* the adjuster's decisions; Siu is refer_to_siu            *)
  Siu,
  Text,         (* versions of the claim summary; Drafted is the workflow's *)
  Drafted,
  None,         (* nothing cached, stored, chosen or under way              *)
  Processing,   (* the answer of an endpoint whose data is not there yet    *)
  MaxFaults,    (* bound: failed calls and page reloads                     *)
  MaxLetters,   (* bound: clicks on Send that reach the API                 *)
  MaxVisits     (* bound: sections gone back to                             *)

LetterQueued == [pc |-> "done"]   (* the API's answer to a letter           *)

ASSUME JourneyAssumption ==
  /\ Siu \in Decision /\ Drafted \in Text
  /\ MaxFaults \in Nat /\ MaxLetters \in Nat /\ MaxVisits \in Nat
  /\ None \notin Text \cup Decision \cup {LetterQueued}

Steps == 1..7            (* TOTAL_STEPS sections                            *)
Key   == 1..8            (* cache keys: what each section fetches           *)
StepOf(k) == CASE k \in {1, 2} -> 1 [] k = 3 -> 2 [] k = 5 -> 3 [] k = 4 -> 4
               [] OTHER -> k - 1
Undecided == "undecided" (* a letter drafted with no decision on record     *)

VARIABLES
  store,        (* claimStore: current step, completed steps, cache by key  *)
  page,         (* what the mounted components hold; lost by a reload       *)
  posts,        (* the changing calls under way                             *)
  server,       (* the claim record, its sidecar blobs, the queued letter   *)
  past          (* history: what was once recorded, faults, claims opened   *)

vars == <<store, page, posts, server, past>>

-----------------------------------------------------------------------------
(* claimStore.ts                                                           *)

EmptyStore == [current |-> 1, completed |-> {}, cache |-> [k \in Key |-> None]]

Larger(a, b)  == IF a > b THEN a ELSE b
Smaller(a, b) == IF a < b THEN a ELSE b

SetData(s, k, payload) == [s EXCEPT !.cache[k] = payload]
ClearData(s, keys) ==
  [s EXCEPT !.cache = [k \in Key |-> IF k \in keys THEN None ELSE @[k]]]
MarkComplete(s, step) ==
  [s EXCEPT !.completed = @ \cup {step}, !.current = Larger(@, step + 1)]
ReopenFrom(s, step) ==
  [s EXCEPT !.completed = {c \in @ : c < step}, !.current = Smaller(@, step)]
GoTo(s, step) == [s EXCEPT !.current = step]

(* JourneyPage: the current section is active whether or not it is done.   *)
Mode(s, step) == IF step = s.current THEN "active"
                 ELSE IF step \in s.completed THEN "done" ELSE "locked"
Unlocked(s, step) == Mode(s, step) # "locked"

-----------------------------------------------------------------------------
(* The components.  hook[k] is the fetch loop of useSectionData for key k: *)
(* off, asked (first fetch or polling, nothing shown), partial (shown and  *)
(* still polling), shown or error.  data[k] is its local copy, wire[k] an  *)
(* answer on its way.  gets are the side fetches of sections 4, 6 and 7.   *)

Docs == [labelled : BOOLEAN, ids : BOOLEAN]
Payload(k) == CASE k = 1 -> Docs [] k \in {6, 7} -> Text
                [] k = 8 -> Decision \cup {Undecided} [] OTHER -> {"data"}
Disposition == [decision : Decision, basis : Text]
Get == {"acks", "disposition", "emailStatus"}
GetStep(g) == CASE g = "acks" -> 4 [] g = "disposition" -> 6 [] OTHER -> 7

(* A cached payload is shown as it is, unless documents still lack ids.    *)
CacheServes(s, k) == s.cache[k] # None /\ (k = 1 => s.cache[k].ids)

(* Mounting the page: every unlocked section starts its fetches.           *)
Mounted(s) ==
  [hook |-> [k \in Key |->
      IF ~Unlocked(s, StepOf(k)) THEN "off"
      ELSE IF CacheServes(s, k) THEN "shown"
      ELSE IF s.cache[k] # None THEN "partial" ELSE "asked"],
   wire |-> [k \in Key |-> None],
   data |-> s.cache,
   gets |-> [g \in Get |-> Unlocked(s, GetStep(g))],
   loaded |-> {}, acks |-> {}, pendingAck |-> None,
   text |-> s.cache[6], attested |-> None,
   disposition |-> None, selected |-> None, sent |-> FALSE]

(* Rendering page p when the store goes from s to t: the hook of a section *)
(* that was unlocked starts, of one that was locked is cancelled; a side   *)
(* fetch starts again whenever its section changes mode.                   *)
Rendered(p, s, t) ==
  LET same(k)  == Unlocked(t, StepOf(k)) = Unlocked(s, StepOf(k))
      moved(g) == Mode(t, GetStep(g)) # Mode(s, GetStep(g))
      off(g)   == Mode(t, GetStep(g)) = "locked" \/ (g = "emailStatus" /\ p.sent)
  IN [p EXCEPT
       !.hook = [k \in Key |-> IF same(k) THEN @[k] ELSE Mounted(t).hook[k]],
       !.wire = [k \in Key |-> IF same(k) THEN @[k] ELSE None],
       !.data = [k \in Key |->
         IF same(k) \/ ~Unlocked(t, StepOf(k)) THEN @[k]
         ELSE IF CacheServes(t, k) /\ @[k] # None THEN @[k] ELSE t.cache[k]],
       !.gets = [g \in Get |->
         IF moved(g) THEN ~off(g) ELSE @[g]]]

-----------------------------------------------------------------------------
(* The server side of a new claim.  findings are decided when the workflow *)
(* ends; labels says that the classification sidecar was written, which    *)
(* intake only attempts.                                                   *)
NewServer(f) == [ready |-> FALSE, labels |-> FALSE, findings |-> f,
                 summary |-> Drafted, disposition |-> None, acks |-> {},
                 queued |-> None]

NoPosts == [ack |-> [f \in Finding |-> None], save |-> None,
            decide |-> None, send |-> None]

NoPast == [acked |-> {}, saved |-> FALSE, decided |-> FALSE, letters |-> 0,
           faults |-> 0, visits |-> 0]

Init ==
  /\ store = EmptyStore
  /\ page = Mounted(EmptyStore)
  /\ posts = NoPosts
  /\ \E f \in {{}, Finding} : server = NewServer(f)
  /\ past = NoPast

(* The workflow of the claim and its intake, seen from the journey.        *)
LabelsWritten ==
  /\ ~server.labels
  /\ server' = [server EXCEPT !.labels = TRUE]
  /\ UNCHANGED <<store, page, posts, past>>

WorkflowEnds ==
  /\ ~server.ready
  /\ server' = [server EXCEPT !.ready = TRUE]
  /\ UNCHANGED <<store, page, posts, past>>

CanFail == past.faults < MaxFaults
Fault   == [past EXCEPT !.faults = @ + 1]

-----------------------------------------------------------------------------
(* Fetching a section.  An endpoint whose data is not there yet answers    *)
(* Processing, and the loop asks again: such a poll changes nothing.       *)

Letter == IF server.disposition = None THEN Undecided
          ELSE server.disposition.decision

Answer(k) ==
  CASE k = 1 -> [labelled |-> server.labels, ids |-> server.ready]
    [] k = 2 -> IF server.labels THEN "data" ELSE Processing
    [] ~server.ready -> Processing
    [] k \in {6, 7} -> server.summary
    [] k = 8 -> Letter
    [] OTHER -> "data"

(* A partial answer is cached and shown, and polling goes on; what is shown*)
(* of the summary resets the editor and the attestation.                   *)
Show(k, payload) ==
  /\ store' = SetData(store, k, payload)
  /\ page' = [page EXCEPT
       !.wire[k] = None, !.data[k] = payload,
       !.hook[k] = IF k = 1 /\ ~payload.ids THEN "partial" ELSE "shown",
       !.text = IF k = 6 THEN payload ELSE @,
       !.attested = IF k = 6 THEN None ELSE @]

(* What sections 1 to 4 show does not depend on when it was read: there the*)
(* request and its answer are one step.                                    *)
Polling(k) == page.hook[k] \in {"asked", "partial"} /\ page.wire[k] = None

FetchServed(k) ==
  /\ Polling(k) /\ Answer(k) # Processing
  /\ IF k \in 1..5 THEN Show(k, Answer(k))
     ELSE page' = [page EXCEPT !.wire[k] = Answer(k)] /\ UNCHANGED store
  /\ UNCHANGED <<posts, server, past>>

FetchDelivered(k) ==
  /\ page.wire[k] # None
  /\ Show(k, page.wire[k])
  /\ UNCHANGED <<posts, server, past>>

FetchFails(k) ==
  /\ page.hook[k] \in {"asked", "partial"} /\ CanFail
  /\ page' = [page EXCEPT !.wire[k] = None, !.hook[k] = "error", !.data[k] = None]
  /\ past' = Fault
  /\ UNCHANGED <<store, posts, server>>

(* fraud-acks of section 4, disposition of section 6, email-status of 7.   *)
GetAnswered(g) ==
  /\ page.gets[g]
  /\ LET p == [page EXCEPT !.gets[g] = FALSE, !.loaded = @ \cup {g}] IN
     page' = CASE g = "acks" -> [p EXCEPT !.acks = server.acks]
               [] g = "disposition" -> [p EXCEPT !.disposition = server.disposition]
               [] OTHER -> [p EXCEPT !.sent = @ \/ server.queued # None]
  /\ UNCHANGED <<store, posts, server, past>>

GetFails(g) ==
  /\ page.gets[g] /\ CanFail
  /\ page' = [page EXCEPT !.gets[g] = FALSE, !.loaded = @ \cup {g}]
  /\ past' = Fault
  /\ UNCHANGED <<store, posts, server>>

-----------------------------------------------------------------------------
(* The buttons.  Only the active section shows its content.  Bound: the    *)
(* acknowledgements and the email status are there before the next click.  *)

Calm == ~page.gets["acks"] /\ ~page.gets["emailStatus"]
At(step) == store.current = step /\ Calm
Confirm(step) ==
  /\ store' = MarkComplete(store, step)
  /\ page' = Rendered(page, store, store')

(* Section 1 waits for the classification of its documents, section 4 for  *)
(* the acknowledgement of every critical finding.                          *)
NextEnabled(step) ==
  CASE step = 1 -> /\ page.hook[1] \in {"partial", "shown"}
                   /\ page.hook[2] # "asked"
                   /\ page.hook[2] = "shown" \/ page.data[1].labelled
    [] step = 2 -> page.hook[3] = "shown"
    [] step = 3 -> page.hook[5] = "shown"
    [] step = 4 -> page.hook[4] = "shown" /\ server.findings \subseteq page.acks
    [] step = 7 -> /\ page.hook[8] = "shown"
                   /\ posts.send = None /\ page.sent
    [] OTHER -> FALSE

ClickNext(step) ==
  /\ At(step) /\ NextEnabled(step)
  /\ Confirm(step)
  /\ UNCHANGED <<posts, server, past>>

(* The stepper and the Edit buttons.                                       *)
(* Mutant: the stepper is never locked.                                    *)
StepOpenAlways(step) == step # store.current

StepOpen(step) == \/ step \in store.completed /\ step # store.current
                  \/ step < store.current

StepClick(step) ==
  /\ StepOpen(step) /\ Calm
  /\ past.visits < MaxVisits
  /\ store' = GoTo(store, step)
  /\ page' = Rendered(page, store, store')
  /\ past' = [past EXCEPT !.visits = @ + 1]
  /\ UNCHANGED <<posts, server>>

(* Section 4: one call per finding at a time (bound); only the finding     *)
(* clicked last has its button disabled.                                   *)
(* Mutant: the acknowledgement is shown before it is stored.               *)
AckPendingShown(f) == [page EXCEPT !.pendingAck = f, !.acks = @ \cup {f}]

AckPending(f) == [page EXCEPT !.pendingAck = f]

ClickAck(f) ==
  /\ At(4) /\ page.hook[4] = "shown" /\ f \in server.findings
  /\ "acks" \in page.loaded /\ page.pendingAck # f /\ posts.ack[f] = None
  /\ posts' = [posts EXCEPT !.ack[f] = [pc |-> "asked", want |-> f \notin page.acks]]
  /\ page' = AckPending(f)
  /\ UNCHANGED <<store, server, past>>

(* post_fraud_ack reads the sidecar, changes the copy and writes it whole; *)
(* the API runs several processes.                                         *)
AckRead(f) ==
  /\ posts.ack[f] # None /\ posts.ack[f].pc = "asked"
  /\ posts' = [posts EXCEPT !.ack[f] =
       [pc |-> "write", acks |-> IF @.want THEN server.acks \cup {f}
                                          ELSE server.acks \ {f}]]
  /\ UNCHANGED <<store, page, server, past>>

AckWritten(f) ==
  /\ posts.ack[f] # None /\ posts.ack[f].pc = "write"
  /\ server' = [server EXCEPT !.acks = posts.ack[f].acks]
  /\ past' = [past EXCEPT !.acked = @ \cup posts.ack[f].acks]
  /\ posts' = [posts EXCEPT !.ack[f].pc = "done"]
  /\ UNCHANGED <<store, page>>

AckAnswered(f) ==
  /\ posts.ack[f] # None /\ posts.ack[f].pc = "done"
  /\ page' = [page EXCEPT !.acks = posts.ack[f].acks, !.pendingAck = None]
  /\ posts' = [posts EXCEPT !.ack[f] = None]
  /\ UNCHANGED <<store, server, past>>

AckFails(f) ==
  /\ posts.ack[f] # None /\ CanFail
  /\ page' = [page EXCEPT !.pendingAck = None]
  /\ posts' = [posts EXCEPT !.ack[f] = None]
  /\ past' = Fault
  /\ UNCHANGED <<store, server>>

-----------------------------------------------------------------------------
(* Section 5: the summary is edited, attested and saved.                   *)

EditSummary(t) ==
  /\ At(5) /\ page.hook[6] = "shown" /\ t # page.text
  /\ page' = [page EXCEPT !.text = t]
  /\ UNCHANGED <<store, posts, server, past>>

(* The attestation holds while the text is the one that was attested.      *)
ToggleAttest ==
  /\ At(5) /\ page.hook[6] = "shown"
  /\ page' = [page EXCEPT !.attested = IF @ = page.text THEN None ELSE page.text]
  /\ UNCHANGED <<store, posts, server, past>>

(* Whether the summary changed is judged against the text the section      *)
(* first loaded; whether a decision must be cleared, when Save is clicked. *)
ClickSave ==
  /\ At(5) /\ page.hook[6] = "shown" /\ posts.save = None
  /\ page.attested = page.text
  /\ LET changed == page.text # page.data[6] IN
     posts' = [posts EXCEPT !.save =
       [pc |-> "asked", text |-> page.text, changed |-> changed,
        clear |-> changed /\ 6 \in store.completed]]
  /\ UNCHANGED <<store, page, server, past>>

SavePut ==
  /\ posts.save # None /\ posts.save.pc = "asked"
  /\ server' = [server EXCEPT !.summary = posts.save.text]
  /\ past' = [past EXCEPT !.saved = TRUE]
  /\ posts' = [posts EXCEPT !.save.pc = IF posts.save.clear THEN "clear" ELSE "done"]
  /\ UNCHANGED <<store, page>>

(* delete_disposition answers "cleared" even when its upload failed.       *)
Cleared ==
  \/ server' = [server EXCEPT !.disposition = None] /\ UNCHANGED past
  \/ CanFail /\ past' = Fault /\ UNCHANGED server

SaveClears ==
  /\ posts.save # None /\ posts.save.pc = "clear"
  /\ Cleared
  /\ posts' = [posts EXCEPT !.save.pc = "done"]
  /\ UNCHANGED <<store, page>>

(* The answer re-opens the journey from section 6 and then confirms 5; the *)
(* page is rendered between the two.                                       *)
Reopened(s, save) ==
  LET cached == SetData(s, 6, save.text) IN
  IF save.changed THEN ReopenFrom(ClearData(cached, {7, 8}), 6) ELSE cached

CommitSave(save) ==
  LET reopened == Reopened(store, save) IN
  /\ store' = MarkComplete(reopened, 5)
  /\ page' = Rendered(Rendered(page, store, reopened), reopened, store')

SaveAnswered ==
  /\ posts.save # None /\ posts.save.pc = "done"
  /\ CommitSave(posts.save)
  /\ posts' = [posts EXCEPT !.save = None]
  /\ UNCHANGED <<server, past>>

SaveFails ==
  /\ posts.save # None /\ CanFail
  /\ posts' = [posts EXCEPT !.save = None]
  /\ past' = Fault
  /\ UNCHANGED <<store, page, server>>

-----------------------------------------------------------------------------
(* Section 6: the decision.  One of its calls at a time is under way.      *)

DecisionOpen == At(6) /\ page.hook[7] = "shown" /\ posts.decide = None

Choose(d) ==
  /\ DecisionOpen /\ page.disposition = None /\ "disposition" \in page.loaded
  /\ d # page.selected
  /\ page' = [page EXCEPT !.selected = d]
  /\ UNCHANGED <<store, posts, server, past>>

Submit(kind, d) ==
  /\ posts' = [posts EXCEPT !.decide =
       [pc |-> "asked", kind |-> kind,
        record |-> [decision |-> d, basis |-> page.data[7]]]]
  /\ UNCHANGED <<store, page, server, past>>

(* handleDraftLetter goes on when a decision is already shown.             *)
ClickDraftLetter ==
  /\ DecisionOpen
  /\ \/ /\ page.disposition # None
        /\ Confirm(6)
        /\ UNCHANGED <<posts, server, past>>
     \/ /\ page.disposition = None /\ page.selected # None
        /\ Submit("set", page.selected)

ClickReopen ==
  /\ DecisionOpen /\ page.disposition # None /\ "disposition" \in page.loaded
  /\ Submit("clear", page.disposition.decision)

ClickHandoff ==
  /\ DecisionOpen /\ page.disposition # None /\ "disposition" \in page.loaded
  /\ Submit("siu", Siu)

DecisionServed ==
  /\ posts.decide # None /\ posts.decide.pc = "asked"
  /\ IF posts.decide.kind = "clear" THEN Cleared
     ELSE /\ server' = [server EXCEPT !.disposition = posts.decide.record]
          /\ past' = [past EXCEPT !.decided = TRUE]
  /\ posts' = [posts EXCEPT !.decide.pc = "done"]
  /\ UNCHANGED <<store, page>>

(* A recorded decision confirms section 6, wherever the adjuster is now.   *)
DecisionAnswered ==
  /\ posts.decide # None /\ posts.decide.pc = "done"
  /\ LET kind  == posts.decide.kind
         shown == [page EXCEPT !.disposition =
                     IF kind = "clear" THEN None ELSE posts.decide.record]
     IN /\ store' = IF kind = "set" THEN MarkComplete(store, 6) ELSE store
        /\ page' = Rendered(shown, store, store')
  /\ posts' = [posts EXCEPT !.decide = None]
  /\ UNCHANGED <<server, past>>

DecisionFails ==
  /\ posts.decide # None /\ CanFail
  /\ posts' = [posts EXCEPT !.decide = None]
  /\ past' = Fault
  /\ UNCHANGED <<store, page, server>>

-----------------------------------------------------------------------------
(* Section 7: the letter is queued.  email_send replaces what was queued.  *)

(* Mutant: Send stays enabled after the letter was sent.                   *)
SendEnabledAgain == page.hook[8] = "shown" /\ posts.send = None

SendEnabled == page.hook[8] = "shown" /\ posts.send = None /\ ~page.sent

ClickSend ==
  /\ At(7) /\ SendEnabled
  /\ past.letters < MaxLetters
  /\ posts' = [posts EXCEPT !.send =
       [pc |-> "asked", letter |-> page.data[8], onRecord |-> Letter]]
  /\ UNCHANGED <<store, page, server, past>>

SendServed ==
  /\ posts.send # None /\ posts.send.pc = "asked"
  /\ server' = [server EXCEPT !.queued = posts.send.letter]
  /\ past' = [past EXCEPT !.letters = @ + 1]
  /\ posts' = [posts EXCEPT !.send = LetterQueued]
  /\ UNCHANGED <<store, page>>

SendAnswered ==
  /\ posts.send # None /\ posts.send.pc = "done"
  /\ page' = [page EXCEPT !.sent = TRUE]
  /\ posts' = [posts EXCEPT !.send = None]
  /\ UNCHANGED <<store, server, past>>

SendFails ==
  /\ posts.send # None /\ CanFail
  /\ posts' = [posts EXCEPT !.send = None]
  /\ past' = Fault
  /\ UNCHANGED <<store, page, server>>

-----------------------------------------------------------------------------
(* A reload keeps the store and loses the page with its calls (bound: a    *)
(* call the API has not served by then is not served later).               *)
Reload ==
  /\ CanFail
  /\ page' = Mounted(store)
  /\ posts' = NoPosts
  /\ past' = Fault
  /\ UNCHANGED <<store, server>>

Fetching ==
  \/ \E k \in Key : FetchServed(k) \/ FetchDelivered(k) \/ FetchFails(k)
  \/ \E g \in Get : GetAnswered(g) \/ GetFails(g)

Acknowledging ==
  \E f \in Finding : \/ ClickAck(f) \/ AckRead(f) \/ AckWritten(f)
                     \/ AckAnswered(f) \/ AckFails(f)

Reviewing ==
  \/ \E t \in Text : EditSummary(t)
  \/ ToggleAttest \/ ClickSave
  \/ SavePut \/ SaveClears \/ SaveAnswered \/ SaveFails

Deciding ==
  \/ \E d \in Decision : Choose(d)
  \/ ClickDraftLetter \/ ClickReopen \/ ClickHandoff
  \/ DecisionServed \/ DecisionAnswered \/ DecisionFails

Sending == ClickSend \/ SendServed \/ SendAnswered \/ SendFails

Next ==
  \/ LabelsWritten \/ WorkflowEnds
  \/ \E step \in Steps : ClickNext(step) \/ StepClick(step)
  \/ Fetching \/ Acknowledging \/ Reviewing \/ Deciding \/ Sending
  \/ Reload

Spec == Init /\ [][Next]_vars

-----------------------------------------------------------------------------
Maybe(S) == S \cup {None}

AckPost  == [pc : {"asked"}, want : BOOLEAN]
            \cup [pc : {"write", "done"}, acks : SUBSET Finding]
SavePost == [pc : {"asked", "clear", "done"}, text : Text,
             changed : BOOLEAN, clear : BOOLEAN]
DecidePost == [pc : {"asked", "done"}, kind : {"set", "clear", "siu"},
               record : Disposition]

(* The state has its shape; what is cached and shown for a key is what that*)
(* section fetches.                                                        *)
TypeOK ==
  /\ store.current \in 1..8 /\ store.completed \subseteq Steps
  /\ \A k \in Key : /\ store.cache[k] \in Maybe(Payload(k))
                    /\ page.data[k] \in Maybe(Payload(k))
                    /\ page.wire[k] \in Maybe(Payload(k))
                    /\ page.hook[k] \in {"off", "asked", "partial", "shown", "error"}
  /\ page.acks \subseteq Finding /\ page.pendingAck \in Maybe(Finding)
  /\ page.text \in Maybe(Text) /\ page.attested \in Maybe(Text)
  /\ page.disposition \in Maybe(Disposition) /\ page.selected \in Maybe(Decision)
  /\ page.sent \in BOOLEAN
  /\ \A f \in Finding : posts.ack[f] \in Maybe(AckPost)
  /\ posts.save \in Maybe(SavePost) /\ posts.decide \in Maybe(DecidePost)
  /\ server.disposition \in Maybe(Disposition) /\ server.acks \subseteq Finding
  /\ server.summary \in Text /\ server.findings \subseteq Finding

(* The completed sections are the first ones, in order, and the current    *)
(* section is at most the next: whatever is edited, re-opened or answered  *)
(* late, no section of the journey is skipped.                             *)
JourneyInOrder ==
  \E n \in 0..7 : store.completed = 1..n /\ store.current <= n + 1

(* What a completed section stands for was recorded by the API: every      *)
(* critical finding was acknowledged, the summary was saved, a decision was*)
(* recorded, a letter was queued.                                          *)
ConfirmedIsRecorded ==
  /\ 4 \in store.completed => server.findings \subseteq past.acked
  /\ 5 \in store.completed => past.saved
  /\ 6 \in store.completed => past.decided
  /\ 7 \in store.completed => past.letters > 0

(* The letter of a claim is queued once, and again only after a call failed*)
(* or the page was reloaded.                                               *)
SentOnce == past.letters <= 1 + past.faults

(* The letter that is sent says what the decision on record says when Send *)
(* is clicked.                                                             *)
LetterMatchesDecision ==
  posts.send \notin {None, LetterQueued} => posts.send.letter = posts.send.onRecord
=============================================================================
