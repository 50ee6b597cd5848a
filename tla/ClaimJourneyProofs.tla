------------------------- MODULE ClaimJourneyProofs ------------------------
(***************************************************************************)
(* Proofs about ClaimJourney for any findings, decisions, texts and bounds:*)
(* the sections are confirmed in order, a confirmed section was recorded,  *)
(* and the letter is sent once.                                            *)
(***************************************************************************)
EXTENDS ClaimJourney, TLAPS

(* The fields the proofs read are there.                                   *)
StoreFields  == {"current", "completed", "cache"}
PageFields   == {"hook", "wire", "data", "gets", "loaded", "acks", "pendingAck", "text",
                 "attested", "disposition", "selected", "sent"}
PostFields   == {"ack", "save", "decide", "send"}
ServerFields == {"ready", "labels", "findings", "summary", "disposition", "acks", "queued"}
PastFields   == {"acked", "saved", "decided", "letters", "faults", "visits"}

Shape ==
  /\ StoreFields \subseteq DOMAIN store /\ PageFields \subseteq DOMAIN page
  /\ PostFields \subseteq DOMAIN posts /\ ServerFields \subseteq DOMAIN server
  /\ PastFields \subseteq DOMAIN past
  /\ Finding \subseteq DOMAIN posts.ack
  /\ \A f \in Finding : posts.ack[f] # None => "pc" \in DOMAIN posts.ack[f]
  /\ posts.save # None => {"pc", "text", "changed", "clear"} \subseteq DOMAIN posts.save
  /\ posts.decide # None => {"pc", "kind", "record"} \subseteq DOMAIN posts.decide
  /\ past.letters \in Nat /\ past.faults \in Nat

(* Sections 1..n are confirmed, and the current one is at most the next.   *)
Order(s) == \E n \in 0..7 : s.completed = 1..n /\ s.current \in Nat /\ s.current <= n + 1

(* A call was begun in a section that was open.                            *)
OrderInv ==
  /\ Order(store)
  /\ posts.save # None => 1..4 \subseteq store.completed
  /\ posts.decide # None => 1..5 \subseteq store.completed

(* What the page and the calls show, or the API keeps, was recorded.       *)
RecordedInv ==
  /\ ConfirmedIsRecorded
  /\ page.acks \subseteq past.acked /\ server.acks \subseteq past.acked
  /\ \A f \in Finding : posts.ack[f] # None /\ posts.ack[f].pc = "done" =>
       posts.ack[f].acks \subseteq past.acked
  /\ posts.save # None /\ posts.save.pc \in {"clear", "done"} => past.saved
  /\ posts.decide # None /\ posts.decide.pc = "done" /\ posts.decide.kind # "clear"
       => past.decided
  /\ page.disposition # None \/ server.disposition # None => past.decided
  /\ page.sent \/ server.queued # None \/ (posts.send # None /\ posts.send.pc = "done")
       => past.letters > 0

(* A letter that is out is one of the faults' or the one the page knows of.*)
LettersInv ==
  /\ past.letters <= past.faults + 1
  /\ past.letters <= past.faults \/ page.sent \/ (posts.send # None /\ posts.send.pc = "done")
  /\ posts.send # None /\ posts.send.pc # "done" => past.letters <= past.faults

JourneyInv == Shape /\ OrderInv /\ RecordedInv /\ LettersInv

---------------------------------------------------------------------------
(* The store.                                                              *)

LEMMA MarkCompleteFacts ==
  ASSUME NEW s, StoreFields \subseteq DOMAIN s, Order(s), NEW step \in Steps,
         1..(step - 1) \subseteq s.completed
  PROVE  LET t == MarkComplete(s, step) IN
         /\ StoreFields \subseteq DOMAIN t /\ Order(t)
         /\ t.completed = s.completed \cup {step}
<1> DEFINE t == MarkComplete(s, step)
<1>1. /\ StoreFields \subseteq DOMAIN t /\ t.completed = s.completed \cup {step}
      /\ t.current = Larger(s.current, step + 1)
  BY DEF MarkComplete, StoreFields
<1>2. PICK n \in 0..7 : s.completed = 1..n /\ s.current \in Nat /\ s.current <= n + 1
  BY DEF Order
<1>3. t.completed = 1..Larger(n, step) /\ Larger(n, step) \in 0..7
  BY <1>1, <1>2 DEF Larger, Steps
<1>4. t.current \in Nat /\ t.current <= Larger(n, step) + 1
  BY <1>1, <1>2 DEF Larger, Steps
<1> HIDE DEF t
<1> QED BY <1>1, <1>3, <1>4 DEF Order, t

LEMMA ReopenFacts ==
  ASSUME NEW s, StoreFields \subseteq DOMAIN s, Order(s)
  PROVE  LET t == ReopenFrom(s, 6) IN
         /\ StoreFields \subseteq DOMAIN t /\ Order(t)
         /\ t.completed = {c \in s.completed : c < 6}
<1> DEFINE t == ReopenFrom(s, 6)
<1>1. /\ StoreFields \subseteq DOMAIN t /\ t.completed = {c \in s.completed : c < 6}
      /\ t.current = Smaller(s.current, 6)
  BY DEF ReopenFrom, StoreFields
<1>2. PICK n \in 0..7 : s.completed = 1..n /\ s.current \in Nat /\ s.current <= n + 1
  BY DEF Order
<1>3. t.completed = 1..Smaller(n, 5) /\ Smaller(n, 5) \in 0..7
  <2>1. t.completed = {c \in 1..n : c < 6}
    BY <1>1, <1>2
  <2>2. {c \in 1..n : c < 6} = 1..Smaller(n, 5)
    BY DEF Smaller
  <2>3. Smaller(n, 5) \in 0..7
    BY DEF Smaller
  <2> HIDE DEF t
  <2> QED BY <2>1, <2>2, <2>3
<1>4. t.current \in Nat /\ t.current <= Smaller(n, 5) + 1
  BY <1>1, <1>2 DEF Smaller
<1> HIDE DEF t
<1> QED BY <1>1, <1>3, <1>4 DEF Order, t

LEMMA GoToFacts ==
  ASSUME NEW s, StoreFields \subseteq DOMAIN s, Order(s), NEW step \in Steps,
         step \in s.completed \/ step < s.current
  PROVE  /\ StoreFields \subseteq DOMAIN GoTo(s, step) /\ Order(GoTo(s, step))
         /\ GoTo(s, step).completed = s.completed
<1> DEFINE t == GoTo(s, step)
<1>1. StoreFields \subseteq DOMAIN t /\ t.completed = s.completed /\ t.current = step
  BY DEF GoTo, StoreFields
<1>2. PICK n \in 0..7 : s.completed = 1..n /\ s.current \in Nat /\ s.current <= n + 1
  BY DEF Order
<1>3. step \in Nat /\ step <= n + 1
  BY <1>2 DEF Steps
<1> HIDE DEF t
<1> QED BY <1>1, <1>2, <1>3 DEF Order, t

LEMMA BeforeCurrent ==
  ASSUME NEW s, Order(s), s.current \in Steps
  PROVE  1..(s.current - 1) \subseteq s.completed
BY DEF Order, Steps

(* Caching an answer and forgetting some leaves the sections alone.        *)
LEMMA CacheFacts ==
  ASSUME NEW s, StoreFields \subseteq DOMAIN s, Order(s), NEW k, NEW payload, NEW keys
  PROVE  /\ StoreFields \subseteq DOMAIN SetData(s, k, payload)
         /\ Order(SetData(s, k, payload))
         /\ SetData(s, k, payload).completed = s.completed
         /\ StoreFields \subseteq DOMAIN ClearData(s, keys)
         /\ Order(ClearData(s, keys))
         /\ ClearData(s, keys).completed = s.completed
BY DEF SetData, ClearData, Order, StoreFields

(* Rendering keeps what the page knows of the API.                         *)
LEMMA RenderedFacts ==
  ASSUME NEW p, NEW s, NEW t, PageFields \subseteq DOMAIN p
  PROVE  LET q == Rendered(p, s, t) IN
         /\ PageFields \subseteq DOMAIN q
         /\ q.sent = p.sent /\ q.acks = p.acks /\ q.disposition = p.disposition
BY DEF Rendered, PageFields

(* Mounting the page forgets it.                                           *)
LEMMA MountedFacts ==
  ASSUME NEW s
  PROVE  LET q == Mounted(s) IN
         /\ PageFields \subseteq DOMAIN q
         /\ q.sent = FALSE /\ q.acks = {} /\ q.disposition = None
BY DEF Mounted, PageFields

---------------------------------------------------------------------------
(* Steps that change nothing the invariant is about.                       *)

StoreKept  == /\ StoreFields \subseteq DOMAIN store' /\ Order(store')
              /\ store'.completed = store.completed
PageKept   == /\ PageFields \subseteq DOMAIN page'
              /\ page'.acks = page.acks /\ page'.disposition = page.disposition
              /\ page'.sent = page.sent
ServerKept == /\ ServerFields \subseteq DOMAIN server'
              /\ server'.findings = server.findings /\ server'.acks = server.acks
              /\ server'.disposition = server.disposition
              /\ server'.queued = server.queued
PastKept   == past' = past \/ past' = Fault

LEMMA PastFacts ==
  ASSUME JourneyInv, PastKept
  PROVE  /\ PastFields \subseteq DOMAIN past'
         /\ past'.acked = past.acked /\ past'.saved = past.saved
         /\ past'.decided = past.decided /\ past'.letters = past.letters
         /\ past'.faults \in Nat /\ past'.faults >= past.faults
         /\ past' = Fault => past'.faults = past.faults + 1
BY DEF JourneyInv, Shape, PastKept, Fault, PastFields

LEMMA Frame ==
  ASSUME JourneyInv, StoreKept, PageKept, ServerKept, PastKept, posts' = posts
  PROVE  JourneyInv'
<1> USE PastFacts DEF JourneyInv, StoreKept, PageKept, ServerKept
<1>1. Shape'
  BY DEF Shape
<1>2. OrderInv'
  BY DEF OrderInv
<1>3. RecordedInv'
  BY DEF RecordedInv, ConfirmedIsRecorded
<1>4. LettersInv'
  BY DEF LettersInv, Shape
<1> QED BY <1>1, <1>2, <1>3, <1>4

LEMMA FetchStep == JourneyInv /\ Fetching => JourneyInv'
<1> SUFFICES ASSUME JourneyInv, Fetching PROVE JourneyInv'
  OBVIOUS
<1>0. /\ StoreFields \subseteq DOMAIN store /\ PageFields \subseteq DOMAIN page
      /\ ServerFields \subseteq DOMAIN server /\ Order(store)
  BY DEF JourneyInv, Shape, OrderInv
<1>s. ASSUME NEW k \in Key, NEW payload, Show(k, payload)
      PROVE  StoreKept /\ PageKept
  <2>1. StoreKept
    BY <1>0, <1>s, CacheFacts DEF Show, StoreKept
  <2>2. PageKept
    BY <1>0, <1>s DEF Show, PageKept, PageFields
  <2> QED BY <2>1, <2>2
<1>1. ASSUME NEW k \in Key, FetchServed(k) PROVE JourneyInv'
  <2>1. StoreKept /\ PageKept
    <3>1. CASE Show(k, Answer(k))
      BY <3>1, <1>s
    <3>2. CASE page' = [page EXCEPT !.wire[k] = Answer(k)] /\ UNCHANGED store
      BY <3>2, <1>0 DEF PageKept, PageFields, StoreKept
    <3> QED BY <1>1, <3>1, <3>2 DEF FetchServed
  <2> QED BY <1>0, <1>1, <2>1, Frame DEF FetchServed, ServerKept, PastKept
<1>2. ASSUME NEW k \in Key, FetchDelivered(k) PROVE JourneyInv'
  <2>1. StoreKept /\ PageKept
    BY <1>2, <1>s DEF FetchDelivered
  <2> QED BY <1>0, <1>2, <2>1, Frame DEF FetchDelivered, ServerKept, PastKept
<1>3. ASSUME NEW k \in Key, FetchFails(k) PROVE JourneyInv'
  <2>1. StoreKept /\ PageKept
    BY <1>0, <1>3 DEF FetchFails, StoreKept, PageKept, PageFields
  <2> QED BY <1>0, <1>3, <2>1, Frame DEF FetchFails, ServerKept, PastKept
<1>4. ASSUME NEW g \in Get, GetFails(g) PROVE JourneyInv'
  <2>1. StoreKept /\ PageKept
    BY <1>0, <1>4 DEF GetFails, StoreKept, PageKept, PageFields
  <2> QED BY <1>0, <1>4, <2>1, Frame DEF GetFails, ServerKept, PastKept
(* An answered side fetch shows what the API keeps.                        *)
<1>5. ASSUME NEW g \in Get, GetAnswered(g) PROVE JourneyInv'
  <2> DEFINE q == [page EXCEPT !.gets[g] = FALSE, !.loaded = @ \cup {g}]
  <2>0. /\ PageFields \subseteq DOMAIN q
        /\ q.acks = page.acks /\ q.disposition = page.disposition /\ q.sent = page.sent
    BY <1>0 DEF PageFields
  <2>1. /\ store' = store /\ posts' = posts /\ server' = server /\ past' = past
        /\ page' = CASE g = "acks" -> [q EXCEPT !.acks = server.acks]
                     [] g = "disposition" -> [q EXCEPT !.disposition = server.disposition]
                     [] OTHER -> [q EXCEPT !.sent = @ \/ server.queued # None]
    BY <1>5 DEF GetAnswered
  <2> HIDE DEF q
  <2>2. /\ PageFields \subseteq DOMAIN page'
        /\ page'.acks \in {page.acks, server.acks}
        /\ page'.disposition \in {page.disposition, server.disposition}
        /\ page'.sent = page.sent \/ page'.sent = (page.sent \/ server.queued # None)
    <3>1. CASE g = "acks"
      BY <2>0, <2>1, <3>1 DEF PageFields
    <3>2. CASE g = "disposition"
      BY <2>0, <2>1, <3>2 DEF PageFields
    <3>3. CASE g = "emailStatus"
      BY <2>0, <2>1, <3>3 DEF PageFields
    <3> QED BY <3>1, <3>2, <3>3 DEF Get
  <2>3. Shape' /\ OrderInv'
    BY <2>1, <2>2 DEF JourneyInv, Shape, OrderInv
  <2>4. RecordedInv'
    BY <2>1, <2>2 DEF JourneyInv, RecordedInv, ConfirmedIsRecorded
  <2>5. LettersInv'
    BY <2>1, <2>2 DEF JourneyInv, LettersInv
  <2> QED BY <2>3, <2>4, <2>5 DEF JourneyInv
<1> QED BY <1>1, <1>2, <1>3, <1>4, <1>5 DEF Fetching

---------------------------------------------------------------------------
(* The buttons and calls.                                                  *)

LEMMA ClickStep ==
  ASSUME JourneyInv, NEW step \in Steps, ClickNext(step) \/ StepClick(step)
  PROVE  JourneyInv'
<1>0. /\ StoreFields \subseteq DOMAIN store /\ PageFields \subseteq DOMAIN page
      /\ Order(store)
  BY DEF JourneyInv, Shape, OrderInv
<1>p. ASSUME page' = Rendered(page, store, store') PROVE PageKept
  BY <1>0, <1>p, RenderedFacts DEF PageKept
<1>1. CASE ClickNext(step)
  <2>1. /\ store' = MarkComplete(store, step) /\ page' = Rendered(page, store, store')
        /\ posts' = posts /\ server' = server /\ past' = past
        /\ store.current = step /\ NextEnabled(step)
    BY <1>1 DEF ClickNext, Confirm, At
  <2>2. /\ StoreFields \subseteq DOMAIN store' /\ Order(store')
        /\ store'.completed = store.completed \cup {step}
    BY <1>0, <2>1, BeforeCurrent, MarkCompleteFacts
  <2>3. PageKept
    BY <2>1, <1>p
  <2>4. Shape' /\ OrderInv' /\ LettersInv'
    BY <2>1, <2>2, <2>3 DEF JourneyInv, Shape, OrderInv, LettersInv, PageKept
  <2>5. /\ step \in {1, 2, 3, 4, 7}
        /\ step = 4 => server.findings \subseteq page.acks
        /\ step = 7 => page.sent
    BY <2>1 DEF NextEnabled
  <2>6. RecordedInv'
    BY <2>1, <2>2, <2>3, <2>5 DEF JourneyInv, RecordedInv, ConfirmedIsRecorded, PageKept
  <2> QED BY <2>4, <2>6 DEF JourneyInv
<1>2. CASE StepClick(step)
  <2>1. /\ store' = GoTo(store, step) /\ page' = Rendered(page, store, store')
        /\ posts' = posts /\ server' = server /\ past' = [past EXCEPT !.visits = @ + 1]
        /\ step \in store.completed \/ step < store.current
    BY <1>2 DEF StepClick, StepOpen
  <2>2. StoreFields \subseteq DOMAIN store' /\ Order(store')
        /\ store'.completed = store.completed
    BY <1>0, <2>1, GoToFacts
  <2>3. PageKept
    BY <2>1, <1>p
  <2>4. /\ PastFields \subseteq DOMAIN past'
        /\ past'.acked = past.acked /\ past'.saved = past.saved
        /\ past'.decided = past.decided /\ past'.letters = past.letters
        /\ past'.faults = past.faults
    BY <2>1 DEF JourneyInv, Shape, PastFields
  <2>5. Shape' /\ OrderInv' /\ LettersInv'
    BY <2>1, <2>2, <2>3, <2>4 DEF JourneyInv, Shape, OrderInv, LettersInv, PageKept
  <2>6. RecordedInv'
    BY <2>1, <2>2, <2>3, <2>4 DEF JourneyInv, RecordedInv, ConfirmedIsRecorded, PageKept
  <2> QED BY <2>5, <2>6 DEF JourneyInv
<1> QED BY <1>1, <1>2

(* The calls other than c are as they were.                                *)
OtherPosts(c) ==
  /\ PostFields \subseteq DOMAIN posts'
  /\ c # "ack" => posts'.ack = posts.ack
  /\ c # "save" => posts'.save = posts.save
  /\ c # "decide" => posts'.decide = posts.decide
  /\ c # "send" => posts'.send = posts.send

LEMMA AckStep ==
  ASSUME JourneyInv, NEW f \in Finding,
         ClickAck(f) \/ AckRead(f) \/ AckWritten(f) \/ AckAnswered(f) \/ AckFails(f)
  PROVE  JourneyInv'
<1>0. /\ StoreFields \subseteq DOMAIN store /\ PageFields \subseteq DOMAIN page
      /\ PostFields \subseteq DOMAIN posts /\ ServerFields \subseteq DOMAIN server
      /\ PastFields \subseteq DOMAIN past /\ Finding \subseteq DOMAIN posts.ack
      /\ posts.ack[f] # None => "pc" \in DOMAIN posts.ack[f]
      /\ store' = store
  BY DEF JourneyInv, Shape, ClickAck, AckRead, AckWritten, AckAnswered, AckFails
(* What the steps change, and what is asked of it.                         *)
<1>k. ASSUME OtherPosts("ack"), Finding \subseteq DOMAIN posts'.ack,
             \A g \in Finding \ {f} : posts'.ack[g] = posts.ack[g],
             posts'.ack[f] # None => "pc" \in DOMAIN posts'.ack[f],
             posts'.ack[f] # None /\ posts'.ack[f].pc = "done" =>
               posts'.ack[f].acks \subseteq past'.acked,
             PageFields \subseteq DOMAIN page', page'.acks \subseteq past.acked,
             page'.disposition = page.disposition, page'.sent = page.sent,
             ServerFields \subseteq DOMAIN server', server'.acks \subseteq past'.acked,
             server'.findings = server.findings, server'.queued = server.queued,
             server'.disposition = server.disposition,
             PastFields \subseteq DOMAIN past', past.acked \subseteq past'.acked,
             past'.saved = past.saved, past'.decided = past.decided,
             past'.letters = past.letters, past'.faults \in {past.faults, past.faults + 1}
      PROVE  JourneyInv'
  <2>1. Shape'
    BY <1>0, <1>k DEF JourneyInv, Shape, OtherPosts
  <2>2. OrderInv'
    BY <1>0, <1>k DEF JourneyInv, OrderInv, OtherPosts
  <2>3. RecordedInv'
    BY <1>0, <1>k DEF JourneyInv, RecordedInv, ConfirmedIsRecorded, OtherPosts
  <2>4. LettersInv'
    BY <1>0, <1>k DEF JourneyInv, LettersInv, Shape, OtherPosts
  <2> QED BY <2>1, <2>2, <2>3, <2>4 DEF JourneyInv
<1>q. /\ page.acks \subseteq past.acked /\ server.acks \subseteq past.acked
      /\ past.faults \in Nat
      /\ posts.ack[f] # None /\ posts.ack[f].pc = "done" => posts.ack[f].acks \subseteq past.acked
  BY DEF JourneyInv, RecordedInv, Shape
<1>1. CASE ClickAck(f)
  <2>1. /\ posts' = [posts EXCEPT !.ack[f] = [pc |-> "asked", want |-> f \notin page.acks]]
        /\ page' = [page EXCEPT !.pendingAck = f] /\ server' = server /\ past' = past
    BY <1>1 DEF ClickAck, AckPending
  <2>2. page'.acks = page.acks /\ page'.disposition = page.disposition
        /\ page'.sent = page.sent /\ PageFields \subseteq DOMAIN page'
    BY <1>0, <2>1 DEF PageFields
  <2>3. /\ OtherPosts("ack") /\ Finding \subseteq DOMAIN posts'.ack
        /\ \A g \in Finding \ {f} : posts'.ack[g] = posts.ack[g]
        /\ posts'.ack[f] = [pc |-> "asked", want |-> f \notin page.acks]
    BY <1>0, <2>1 DEF OtherPosts, PostFields
  <2> QED BY <1>0, <1>k, <1>q, <2>1, <2>2, <2>3
<1>2. CASE AckRead(f)
  <2>1. PICK acks : /\ posts' = [posts EXCEPT !.ack[f] = [pc |-> "write", acks |-> acks]]
                    /\ page' = page /\ server' = server /\ past' = past
    BY <1>2, <1>0 DEF AckRead, PostFields
  <2>2. /\ OtherPosts("ack") /\ Finding \subseteq DOMAIN posts'.ack
        /\ \A g \in Finding \ {f} : posts'.ack[g] = posts.ack[g]
        /\ posts'.ack[f] = [pc |-> "write", acks |-> acks]
    BY <1>0, <2>1 DEF OtherPosts, PostFields
  <2> QED BY <1>0, <1>k, <1>q, <2>1, <2>2
<1>3. CASE AckWritten(f)
  <2>1. /\ server' = [server EXCEPT !.acks = posts.ack[f].acks]
        /\ past' = [past EXCEPT !.acked = @ \cup posts.ack[f].acks]
        /\ posts' = [posts EXCEPT !.ack[f].pc = "done"]
        /\ page' = page /\ posts.ack[f] # None
    BY <1>3 DEF AckWritten
  <2>2. /\ OtherPosts("ack") /\ Finding \subseteq DOMAIN posts'.ack
        /\ \A g \in Finding \ {f} : posts'.ack[g] = posts.ack[g]
        /\ posts'.ack[f] = [posts.ack[f] EXCEPT !.pc = "done"]
    BY <1>0, <2>1 DEF OtherPosts, PostFields
  <2>3. /\ "pc" \in DOMAIN posts'.ack[f]
        /\ posts'.ack[f].acks = posts.ack[f].acks
    BY <1>0, <2>1, <2>2
  <2>4. /\ ServerFields \subseteq DOMAIN server' /\ server'.acks = posts.ack[f].acks
        /\ server'.findings = server.findings /\ server'.queued = server.queued
        /\ server'.disposition = server.disposition
    BY <1>0, <2>1 DEF ServerFields
  <2>5. /\ PastFields \subseteq DOMAIN past'
        /\ past'.acked = past.acked \cup posts.ack[f].acks
        /\ past'.saved = past.saved /\ past'.decided = past.decided
        /\ past'.letters = past.letters /\ past'.faults = past.faults
    BY <1>0, <2>1 DEF PastFields
  <2> QED BY <1>0, <1>k, <1>q, <2>1, <2>2, <2>3, <2>4, <2>5
<1>4. CASE AckAnswered(f)
  <2>1. /\ page' = [page EXCEPT !.acks = posts.ack[f].acks, !.pendingAck = None]
        /\ posts' = [posts EXCEPT !.ack[f] = None]
        /\ server' = server /\ past' = past
        /\ posts.ack[f] # None /\ posts.ack[f].pc = "done"
    BY <1>4 DEF AckAnswered
  <2>2. /\ PageFields \subseteq DOMAIN page' /\ page'.acks = posts.ack[f].acks
        /\ page'.disposition = page.disposition /\ page'.sent = page.sent
    BY <1>0, <2>1 DEF PageFields
  <2>3. /\ OtherPosts("ack") /\ Finding \subseteq DOMAIN posts'.ack
        /\ \A g \in Finding \ {f} : posts'.ack[g] = posts.ack[g]
        /\ posts'.ack[f] = None
    BY <1>0, <2>1 DEF OtherPosts, PostFields
  <2> QED BY <1>0, <1>k, <1>q, <2>1, <2>2, <2>3
<1>5. CASE AckFails(f)
  <2>1. /\ page' = [page EXCEPT !.pendingAck = None]
        /\ posts' = [posts EXCEPT !.ack[f] = None]
        /\ server' = server /\ past' = Fault
    BY <1>5 DEF AckFails
  <2>2. /\ PageFields \subseteq DOMAIN page' /\ page'.acks = page.acks
        /\ page'.disposition = page.disposition /\ page'.sent = page.sent
    BY <1>0, <2>1 DEF PageFields
  <2>3. /\ OtherPosts("ack") /\ Finding \subseteq DOMAIN posts'.ack
        /\ \A g \in Finding \ {f} : posts'.ack[g] = posts.ack[g]
        /\ posts'.ack[f] = None
    BY <1>0, <2>1 DEF OtherPosts, PostFields
  <2>4. /\ PastFields \subseteq DOMAIN past' /\ past'.acked = past.acked
        /\ past'.saved = past.saved /\ past'.decided = past.decided
        /\ past'.letters = past.letters /\ past'.faults = past.faults + 1
    BY <2>1, PastFacts DEF PastKept
  <2> QED BY <1>0, <1>k, <1>q, <2>1, <2>2, <2>3, <2>4
<1> QED BY <1>1, <1>2, <1>3, <1>4, <1>5

(* What remains the same when only the call that saves, decides or sends,  *)
(* and what it may change, changes.                                        *)
LEMMA CallFrame ==
  ASSUME JourneyInv, NEW c \in {"save", "decide", "send"}, OtherPosts(c),
         StoreFields \subseteq DOMAIN store', Order(store'),
         1..5 \cap store.completed \subseteq store'.completed,
         store'.completed \subseteq store.completed \cup {5, 6},
         5 \in store'.completed \ store.completed => past'.saved,
         6 \in store'.completed \ store.completed => past'.decided,
         PageFields \subseteq DOMAIN page', page'.acks = page.acks,
         ServerFields \subseteq DOMAIN server', server'.acks = server.acks,
         server'.findings = server.findings,
         page'.disposition # None \/ server'.disposition # None => past'.decided,
         page'.sent \/ server'.queued # None \/ (posts'.send # None /\ posts'.send.pc = "done")
           => past'.letters > 0,
         PastFields \subseteq DOMAIN past', past'.acked = past.acked,
         past.saved => past'.saved, past.decided => past'.decided,
         past'.letters \in Nat, past'.letters >= past.letters, past'.faults \in Nat,
         posts'.save # None =>
           /\ {"pc", "text", "changed", "clear"} \subseteq DOMAIN posts'.save
           /\ 1..4 \subseteq store'.completed
           /\ posts'.save.pc \in {"clear", "done"} => past'.saved,
         posts'.decide # None =>
           /\ {"pc", "kind", "record"} \subseteq DOMAIN posts'.decide
           /\ 1..5 \subseteq store'.completed
           /\ posts'.decide.pc = "done" /\ posts'.decide.kind # "clear" => past'.decided,
         LettersInv'
  PROVE  JourneyInv'
<1>0. posts'.ack = posts.ack
  BY DEF OtherPosts
<1>1. Shape'
  BY <1>0 DEF JourneyInv, Shape, OtherPosts
<1>2. OrderInv'
  BY DEF OrderInv
<1>3. RecordedInv'
  <2>1. ConfirmedIsRecorded'
    BY DEF JourneyInv, RecordedInv, ConfirmedIsRecorded, Shape
  <2> QED BY <1>0, <2>1 DEF JourneyInv, RecordedInv
<1> QED BY <1>1, <1>2, <1>3 DEF JourneyInv

LEMMA InvFacts ==
  ASSUME JourneyInv
  PROVE  /\ StoreFields \subseteq DOMAIN store /\ PageFields \subseteq DOMAIN page
         /\ PostFields \subseteq DOMAIN posts /\ ServerFields \subseteq DOMAIN server
         /\ PastFields \subseteq DOMAIN past
         /\ past.letters \in Nat /\ past.faults \in Nat /\ Order(store)
         /\ page.disposition # None \/ server.disposition # None => past.decided
         /\ page.sent \/ server.queued # None \/ (posts.send # None /\ posts.send.pc = "done")
              => past.letters > 0
         /\ posts.save # None =>
              /\ {"pc", "text", "changed", "clear"} \subseteq DOMAIN posts.save
              /\ 1..4 \subseteq store.completed
              /\ posts.save.pc \in {"clear", "done"} => past.saved
         /\ posts.decide # None =>
              /\ {"pc", "kind", "record"} \subseteq DOMAIN posts.decide
              /\ 1..5 \subseteq store.completed
              /\ posts.decide.pc = "done" /\ posts.decide.kind # "clear" => past.decided
BY DEF JourneyInv, Shape, OrderInv, RecordedInv

LEMMA LettersSame ==
  ASSUME JourneyInv, posts'.send = posts.send, page'.sent = page.sent,
         past'.letters = past.letters, past'.faults \in Nat, past'.faults >= past.faults
  PROVE  LettersInv'
BY DEF JourneyInv, Shape, LettersInv

(* The decision is cleared, or the failure is not noticed.                 *)
LEMMA ClearedFacts ==
  ASSUME JourneyInv, Cleared
  PROVE  /\ PastKept /\ ServerFields \subseteq DOMAIN server'
         /\ server'.disposition \in {server.disposition, None}
         /\ server'.acks = server.acks /\ server'.findings = server.findings
         /\ server'.queued = server.queued
BY DEF JourneyInv, Shape, Cleared, PastKept, ServerFields

LEMMA ReviewStep == JourneyInv /\ Reviewing => JourneyInv'
<1> SUFFICES ASSUME JourneyInv, Reviewing PROVE JourneyInv'
  OBVIOUS
<1> USE InvFacts
<1>1. CASE (\E t \in Text : EditSummary(t)) \/ ToggleAttest
  <2>1. /\ store' = store /\ posts' = posts /\ server' = server /\ past' = past
        /\ \E t : page' = [page EXCEPT !.text = t] \/ page' = [page EXCEPT !.attested = t]
    BY <1>1 DEF EditSummary, ToggleAttest
  <2>2. PageKept
    BY <2>1 DEF PageKept, PageFields
  <2> QED BY <2>1, <2>2, Frame DEF StoreKept, ServerKept, PastKept
<1>2. CASE ClickSave
  <2>1. PICK text, changed, clear :
          /\ posts' = [posts EXCEPT !.save =
               [pc |-> "asked", text |-> text, changed |-> changed, clear |-> clear]]
          /\ store' = store /\ page' = page /\ server' = server /\ past' = past
          /\ store.current = 5
    BY <1>2 DEF ClickSave, At
  <2>2. /\ OtherPosts("save")
        /\ posts'.save = [pc |-> "asked", text |-> text, changed |-> changed, clear |-> clear]
    BY <2>1 DEF OtherPosts, PostFields
  <2>3. 1..4 \subseteq store.completed
    BY <2>1, BeforeCurrent DEF Steps
  <2>4. LettersInv'
    BY <2>1, <2>2, LettersSame DEF OtherPosts
  <2> QED BY <2>1, <2>2, <2>3, <2>4, CallFrame DEF OtherPosts
<1>3. CASE SavePut
  <2>1. PICK pc : /\ posts' = [posts EXCEPT !.save.pc = pc]
                  /\ server' = [server EXCEPT !.summary = posts.save.text]
                  /\ past' = [past EXCEPT !.saved = TRUE]
                  /\ store' = store /\ page' = page /\ posts.save # None
    BY <1>3 DEF SavePut
  <2>2. /\ OtherPosts("save")
        /\ {"pc", "text", "changed", "clear"} \subseteq DOMAIN posts'.save
    BY <2>1 DEF OtherPosts, PostFields
  <2>3. /\ ServerFields \subseteq DOMAIN server' /\ server'.acks = server.acks
        /\ server'.findings = server.findings /\ server'.queued = server.queued
        /\ server'.disposition = server.disposition
    BY <2>1 DEF ServerFields
  <2>4. /\ PastFields \subseteq DOMAIN past' /\ past'.acked = past.acked /\ past'.saved
        /\ past'.decided = past.decided
        /\ past'.letters = past.letters /\ past'.faults = past.faults
    BY <2>1 DEF PastFields
  <2>5. LettersInv'
    BY <2>1, <2>2, <2>4, LettersSame DEF OtherPosts
  <2> QED BY <2>1, <2>2, <2>3, <2>4, <2>5, CallFrame DEF OtherPosts
<1>4. CASE SaveClears
  <2>1. /\ posts' = [posts EXCEPT !.save.pc = "done"] /\ Cleared
        /\ store' = store /\ page' = page
        /\ posts.save # None /\ posts.save.pc = "clear"
    BY <1>4 DEF SaveClears
  <2>2. /\ OtherPosts("save")
        /\ {"pc", "text", "changed", "clear"} \subseteq DOMAIN posts'.save
    BY <2>1 DEF OtherPosts, PostFields
  <2>3. LettersInv'
    BY <2>1, <2>2, ClearedFacts, PastFacts, LettersSame DEF OtherPosts
  <2> QED BY <2>1, <2>2, <2>3, ClearedFacts, PastFacts, CallFrame DEF OtherPosts
<1>5. CASE SaveAnswered
  <2> DEFINE reopened == Reopened(store, posts.save)
  <2>1. /\ posts' = [posts EXCEPT !.save = None] /\ server' = server /\ past' = past
        /\ posts.save # None /\ posts.save.pc = "done"
        /\ store' = MarkComplete(reopened, 5)
        /\ page' = Rendered(Rendered(page, store, reopened), reopened, store')
    BY <1>5 DEF SaveAnswered, CommitSave
  <2>2. /\ StoreFields \subseteq DOMAIN reopened /\ Order(reopened)
        /\ reopened.completed \in {store.completed, {c \in store.completed : c < 6}}
    <3> DEFINE cached == SetData(store, 6, posts.save.text)
    <3>1. /\ StoreFields \subseteq DOMAIN cached /\ Order(cached)
          /\ cached.completed = store.completed
      BY CacheFacts
    <3> HIDE DEF cached
    <3>2. /\ StoreFields \subseteq DOMAIN ClearData(cached, {7, 8})
          /\ Order(ClearData(cached, {7, 8}))
          /\ ClearData(cached, {7, 8}).completed = store.completed
      BY <3>1, CacheFacts
    <3>3. reopened = IF posts.save.changed THEN ReopenFrom(ClearData(cached, {7, 8}), 6)
                     ELSE cached
      BY DEF Reopened, cached
    <3> HIDE DEF reopened
    <3> QED BY <3>1, <3>2, <3>3, ReopenFacts
  <2> HIDE DEF reopened
  <2>3. 1..4 \subseteq reopened.completed
    BY <2>1, <2>2
  <2>4. /\ StoreFields \subseteq DOMAIN store' /\ Order(store')
        /\ store'.completed = reopened.completed \cup {5}
    BY <2>1, <2>2, <2>3, MarkCompleteFacts DEF Steps
  <2>5. /\ PageFields \subseteq DOMAIN page' /\ page'.sent = page.sent
        /\ page'.acks = page.acks /\ page'.disposition = page.disposition
    BY <2>1, RenderedFacts
  <2>6. OtherPosts("save") /\ posts'.save = None
    BY <2>1 DEF OtherPosts, PostFields
  <2>7. LettersInv'
    BY <2>1, <2>5, <2>6, LettersSame DEF OtherPosts
  <2>8. /\ 1..5 \cap store.completed \subseteq store'.completed
        /\ store'.completed \subseteq store.completed \cup {5}
    BY <2>2, <2>4
  <2> QED BY <2>1, <2>4, <2>5, <2>6, <2>7, <2>8, CallFrame DEF OtherPosts
<1>6. CASE SaveFails
  <2>1. /\ posts' = [posts EXCEPT !.save = None] /\ past' = Fault
        /\ store' = store /\ page' = page /\ server' = server
    BY <1>6 DEF SaveFails
  <2>2. OtherPosts("save") /\ posts'.save = None
    BY <2>1 DEF OtherPosts, PostFields
  <2>3. LettersInv'
    BY <2>1, <2>2, PastFacts, LettersSame DEF OtherPosts, PastKept
  <2> QED BY <2>1, <2>2, <2>3, PastFacts, CallFrame DEF OtherPosts, PastKept
<1> QED BY <1>1, <1>2, <1>3, <1>4, <1>5, <1>6 DEF Reviewing

LEMMA DecideStep == JourneyInv /\ Deciding => JourneyInv'
<1> SUFFICES ASSUME JourneyInv, Deciding PROVE JourneyInv'
  OBVIOUS
<1> USE InvFacts
<1>1. CASE \E d \in Decision : Choose(d)
  <2>1. /\ store' = store /\ posts' = posts /\ server' = server /\ past' = past
        /\ \E d : page' = [page EXCEPT !.selected = d]
    BY <1>1 DEF Choose
  <2>2. PageKept
    BY <2>1 DEF PageKept, PageFields
  <2> QED BY <2>1, <2>2, Frame DEF StoreKept, ServerKept, PastKept
<1>s. ASSUME NEW kind, NEW d, Submit(kind, d), store.current = 6 PROVE JourneyInv'
  <2>1. PICK r :
          /\ posts' = [posts EXCEPT !.decide = [pc |-> "asked", kind |-> kind, record |-> r]]
          /\ store' = store /\ page' = page /\ server' = server /\ past' = past
    BY <1>s DEF Submit
  <2>2. /\ OtherPosts("decide")
        /\ posts'.decide = [pc |-> "asked", kind |-> kind, record |-> r]
    BY <2>1 DEF OtherPosts, PostFields
  <2>3. 1..5 \subseteq store.completed
    BY <1>s, BeforeCurrent DEF Steps
  <2>4. LettersInv'
    BY <2>1, <2>2, LettersSame DEF OtherPosts
  <2> QED BY <2>1, <2>2, <2>3, <2>4, CallFrame DEF OtherPosts
<1>2. CASE ClickDraftLetter
  <2>1. CASE page.disposition # None /\ Confirm(6) /\ UNCHANGED <<posts, server, past>>
    <3>1. /\ store' = MarkComplete(store, 6) /\ page' = Rendered(page, store, store')
          /\ store.current = 6
      BY <1>2, <2>1 DEF ClickDraftLetter, Confirm, DecisionOpen, At
    <3>2. /\ StoreFields \subseteq DOMAIN store' /\ Order(store')
          /\ store'.completed = store.completed \cup {6}
      BY <3>1, BeforeCurrent, MarkCompleteFacts DEF Steps
    <3>3. /\ PageFields \subseteq DOMAIN page' /\ page'.sent = page.sent
          /\ page'.acks = page.acks /\ page'.disposition = page.disposition
      BY <3>1, RenderedFacts
    <3>4. OtherPosts("decide") /\ posts'.decide = posts.decide /\ past.decided
      BY <2>1 DEF OtherPosts
    <3>5. LettersInv'
      BY <2>1, <3>3, LettersSame
    <3> QED BY <2>1, <3>2, <3>3, <3>4, <3>5, CallFrame DEF OtherPosts
  <2>2. CASE Submit("set", page.selected)
    BY <1>2, <2>2, <1>s DEF ClickDraftLetter, DecisionOpen, At
  <2> QED BY <1>2, <2>1, <2>2 DEF ClickDraftLetter
<1>3. CASE ClickReopen \/ ClickHandoff
  BY <1>3, <1>s DEF ClickReopen, ClickHandoff, DecisionOpen, At
<1>4. CASE DecisionServed
  <2>1. /\ posts' = [posts EXCEPT !.decide.pc = "done"]
        /\ store' = store /\ page' = page /\ posts.decide # None
    BY <1>4 DEF DecisionServed
  <2>2. /\ OtherPosts("decide") /\ {"pc", "kind", "record"} \subseteq DOMAIN posts'.decide
        /\ posts'.decide.kind = posts.decide.kind
    BY <2>1 DEF OtherPosts, PostFields
  <2>3. CASE posts.decide.kind = "clear"
    <3>1. Cleared
      BY <1>4, <2>3 DEF DecisionServed
    <3>2. LettersInv'
      BY <2>1, <2>2, <3>1, ClearedFacts, PastFacts, LettersSame DEF OtherPosts
    <3> QED BY <2>1, <2>2, <2>3, <3>1, <3>2, ClearedFacts, PastFacts, CallFrame DEF OtherPosts
  <2>4. CASE posts.decide.kind # "clear"
    <3>1. /\ server' = [server EXCEPT !.disposition = posts.decide.record]
          /\ past' = [past EXCEPT !.decided = TRUE]
      BY <1>4, <2>4 DEF DecisionServed
    <3>2. /\ ServerFields \subseteq DOMAIN server' /\ server'.acks = server.acks
          /\ server'.findings = server.findings /\ server'.queued = server.queued
      BY <3>1 DEF ServerFields
    <3>3. /\ PastFields \subseteq DOMAIN past' /\ past'.acked = past.acked
          /\ past'.saved = past.saved /\ past'.decided
          /\ past'.letters = past.letters /\ past'.faults = past.faults
      BY <3>1 DEF PastFields
    <3>4. LettersInv'
      BY <2>1, <2>2, <3>3, LettersSame DEF OtherPosts
    <3> QED BY <2>1, <2>2, <3>2, <3>3, <3>4, CallFrame DEF OtherPosts
  <2> QED BY <2>3, <2>4
<1>5. CASE DecisionAnswered
  <2> DEFINE kind == posts.decide.kind
             shown == [page EXCEPT !.disposition =
                         IF kind = "clear" THEN None ELSE posts.decide.record]
  <2>1. /\ posts.decide # None /\ posts.decide.pc = "done"
        /\ store' = IF kind = "set" THEN MarkComplete(store, 6) ELSE store
        /\ page' = Rendered(shown, store, store')
        /\ posts' = [posts EXCEPT !.decide = None]
        /\ server' = server /\ past' = past
    BY <1>5 DEF DecisionAnswered
  <2>2. /\ PageFields \subseteq DOMAIN shown /\ shown.sent = page.sent
        /\ shown.acks = page.acks
        /\ shown.disposition = IF kind = "clear" THEN None ELSE posts.decide.record
    BY DEF PageFields
  <2> HIDE DEF shown
  <2>3. /\ PageFields \subseteq DOMAIN page' /\ page'.sent = page.sent
        /\ page'.acks = page.acks /\ page'.disposition = shown.disposition
    BY <2>1, <2>2, RenderedFacts
  <2>4. OtherPosts("decide") /\ posts'.decide = None
    BY <2>1 DEF OtherPosts, PostFields
  <2>5. kind # "clear" => past.decided
    BY <2>1
  <2>6. /\ StoreFields \subseteq DOMAIN store' /\ Order(store')
        /\ store'.completed = store.completed
             \/ (kind = "set" /\ store'.completed = store.completed \cup {6})
    <3>1. CASE kind = "set"
      BY <2>1, <3>1, MarkCompleteFacts DEF Steps
    <3>2. CASE kind # "set"
      BY <2>1, <3>2
    <3> QED BY <3>1, <3>2
  <2>7. LettersInv'
    BY <2>1, <2>3, <2>4, LettersSame DEF OtherPosts
  <2> QED BY <2>1, <2>2, <2>3, <2>4, <2>5, <2>6, <2>7, CallFrame DEF OtherPosts
<1>6. CASE DecisionFails
  <2>1. /\ posts' = [posts EXCEPT !.decide = None] /\ past' = Fault
        /\ store' = store /\ page' = page /\ server' = server
    BY <1>6 DEF DecisionFails
  <2>2. OtherPosts("decide") /\ posts'.decide = None
    BY <2>1 DEF OtherPosts, PostFields
  <2>3. LettersInv'
    BY <2>1, <2>2, PastFacts, LettersSame DEF OtherPosts, PastKept
  <2> QED BY <2>1, <2>2, <2>3, PastFacts, CallFrame DEF OtherPosts, PastKept
<1> QED BY <1>1, <1>2, <1>3, <1>4, <1>5, <1>6 DEF Deciding

LEMMA SendStep == JourneyInv /\ Sending => JourneyInv'
<1> SUFFICES ASSUME JourneyInv, Sending PROVE JourneyInv'
  OBVIOUS
<1> USE InvFacts
<1>1. CASE ClickSend
  <2>1. PICK letter, onRecord :
          /\ posts' = [posts EXCEPT !.send =
               [pc |-> "asked", letter |-> letter, onRecord |-> onRecord]]
          /\ store' = store /\ page' = page /\ server' = server /\ past' = past
          /\ posts.send = None /\ ~page.sent
    BY <1>1 DEF ClickSend, SendEnabled
  <2>2. /\ OtherPosts("send")
        /\ posts'.send = [pc |-> "asked", letter |-> letter, onRecord |-> onRecord]
    BY <2>1 DEF OtherPosts, PostFields
  <2>3. LettersInv'
    BY <2>1, <2>2 DEF JourneyInv, LettersInv
  <2> QED BY <2>1, <2>2, <2>3, CallFrame DEF OtherPosts
<1>2. CASE SendServed
  <2>1. /\ posts' = [posts EXCEPT !.send = LetterQueued]
        /\ server' = [server EXCEPT !.queued = posts.send.letter]
        /\ past' = [past EXCEPT !.letters = @ + 1]
        /\ store' = store /\ page' = page
        /\ posts.send # None /\ posts.send.pc = "asked"
    BY <1>2 DEF SendServed
  <2>2. OtherPosts("send") /\ posts'.send # None /\ posts'.send.pc = "done"
    BY <2>1, JourneyAssumption DEF OtherPosts, PostFields, LetterQueued
  <2>3. /\ ServerFields \subseteq DOMAIN server' /\ server'.acks = server.acks
        /\ server'.findings = server.findings
        /\ server'.disposition = server.disposition
    BY <2>1 DEF ServerFields
  <2>4. /\ PastFields \subseteq DOMAIN past' /\ past'.acked = past.acked
        /\ past'.saved = past.saved /\ past'.decided = past.decided
        /\ past'.letters = past.letters + 1 /\ past'.faults = past.faults
    BY <2>1 DEF PastFields
  <2>5. past.letters <= past.faults
    BY <2>1 DEF JourneyInv, LettersInv
  <2>6. LettersInv'
    BY <2>1, <2>2, <2>4, <2>5 DEF LettersInv
  <2> QED BY <2>1, <2>2, <2>3, <2>4, <2>6, CallFrame DEF OtherPosts
<1>3. CASE SendAnswered
  <2>1. /\ page' = [page EXCEPT !.sent = TRUE] /\ posts' = [posts EXCEPT !.send = None]
        /\ store' = store /\ server' = server /\ past' = past
        /\ posts.send # None /\ posts.send.pc = "done"
    BY <1>3 DEF SendAnswered
  <2>2. OtherPosts("send") /\ posts'.send = None
    BY <2>1 DEF OtherPosts, PostFields
  <2>3. /\ PageFields \subseteq DOMAIN page' /\ page'.sent
        /\ page'.acks = page.acks /\ page'.disposition = page.disposition
    BY <2>1 DEF PageFields
  <2>4. LettersInv'
    BY <2>1, <2>2, <2>3 DEF JourneyInv, LettersInv
  <2> QED BY <2>1, <2>2, <2>3, <2>4, CallFrame DEF OtherPosts
<1>4. CASE SendFails
  <2>1. /\ posts' = [posts EXCEPT !.send = None] /\ past' = Fault
        /\ store' = store /\ page' = page /\ server' = server
    BY <1>4 DEF SendFails
  <2>2. OtherPosts("send") /\ posts'.send = None
    BY <2>1 DEF OtherPosts, PostFields
  <2>3. LettersInv'
    BY <2>1, <2>2, PastFacts DEF JourneyInv, LettersInv, PastKept
  <2> QED BY <2>1, <2>2, <2>3, PastFacts, CallFrame DEF OtherPosts, PastKept
<1> QED BY <1>1, <1>2, <1>3, <1>4 DEF Sending

LEMMA ReloadStep == JourneyInv /\ Reload => JourneyInv'
<1> SUFFICES ASSUME JourneyInv, Reload PROVE JourneyInv'
  OBVIOUS
<1> USE InvFacts
<1>1. /\ page' = Mounted(store) /\ posts' = NoPosts /\ past' = Fault
      /\ store' = store /\ server' = server
  BY DEF Reload
<1>2. /\ PostFields \subseteq DOMAIN posts' /\ Finding \subseteq DOMAIN posts'.ack
      /\ \A f \in Finding : posts'.ack[f] = None
      /\ posts'.save = None /\ posts'.decide = None /\ posts'.send = None
  BY <1>1 DEF NoPosts, PostFields
<1>3. /\ PastFields \subseteq DOMAIN past' /\ past'.acked = past.acked
      /\ past'.saved = past.saved /\ past'.decided = past.decided
      /\ past'.letters = past.letters /\ past'.faults = past.faults + 1
  BY <1>1, PastFacts DEF PastKept
<1>4. /\ PageFields \subseteq DOMAIN page' /\ ~page'.sent /\ page'.acks = {}
      /\ page'.disposition = None
  BY <1>1, MountedFacts
<1>5. Shape'
  BY <1>1, <1>2, <1>3, <1>4 DEF Shape
<1>6. OrderInv' /\ LettersInv'
  BY <1>1, <1>2, <1>3, <1>4 DEF JourneyInv, OrderInv, LettersInv
<1>7. RecordedInv'
  BY <1>1, <1>2, <1>3, <1>4 DEF JourneyInv, RecordedInv, ConfirmedIsRecorded
<1> QED BY <1>5, <1>6, <1>7 DEF JourneyInv

---------------------------------------------------------------------------
(* The invariant and what follows from it.                                 *)

LEMMA JourneyInit == Init => JourneyInv
<1> SUFFICES ASSUME Init PROVE JourneyInv
  OBVIOUS
<1>1. /\ store = EmptyStore /\ page = Mounted(EmptyStore) /\ posts = NoPosts
      /\ past = NoPast /\ \E f : server = NewServer(f)
  BY DEF Init
<1>2. /\ StoreFields \subseteq DOMAIN store /\ store.completed = {} /\ store.current = 1
  BY <1>1 DEF EmptyStore, StoreFields
<1>3. Order(store)
  <2>1. 1..0 = {}
    OBVIOUS
  <2> QED BY <1>2, <2>1 DEF Order
<1>4. /\ PageFields \subseteq DOMAIN page /\ ~page.sent /\ page.acks = {}
      /\ page.disposition = None
  BY <1>1, MountedFacts
<1>5. /\ PostFields \subseteq DOMAIN posts /\ Finding \subseteq DOMAIN posts.ack
      /\ \A f \in Finding : posts.ack[f] = None
      /\ posts.save = None /\ posts.decide = None /\ posts.send = None
  BY <1>1 DEF NoPosts, PostFields
<1>6. /\ ServerFields \subseteq DOMAIN server /\ server.acks = {}
      /\ server.disposition = None /\ server.queued = None
  BY <1>1 DEF NewServer, ServerFields
<1>7. /\ PastFields \subseteq DOMAIN past /\ past.letters = 0 /\ past.faults = 0
  BY <1>1 DEF NoPast, PastFields
<1>8. Shape /\ OrderInv
  BY <1>2, <1>3, <1>4, <1>5, <1>6, <1>7 DEF Shape, OrderInv
<1>9. RecordedInv /\ LettersInv
  BY <1>2, <1>4, <1>5, <1>6, <1>7 DEF RecordedInv, ConfirmedIsRecorded, LettersInv
<1> QED BY <1>8, <1>9 DEF JourneyInv

LEMMA JourneyStep == JourneyInv /\ [Next]_vars => JourneyInv'
<1> SUFFICES ASSUME JourneyInv, [Next]_vars PROVE JourneyInv'
  OBVIOUS
<1> USE InvFacts
<1>1. CASE LabelsWritten \/ WorkflowEnds
  <2>1. /\ store' = store /\ page' = page /\ posts' = posts /\ past' = past
        /\ ServerKept
    BY <1>1 DEF LabelsWritten, WorkflowEnds, ServerKept, ServerFields
  <2> QED BY <2>1, Frame DEF StoreKept, PageKept, PastKept
<1>2. CASE \E step \in Steps : ClickNext(step) \/ StepClick(step)
  BY <1>2, ClickStep
<1>3. CASE Fetching \/ Acknowledging
  BY <1>3, FetchStep, AckStep DEF Acknowledging
<1>4. CASE Reviewing \/ Deciding \/ Sending \/ Reload
  BY <1>4, ReviewStep, DecideStep, SendStep, ReloadStep
<1>5. CASE UNCHANGED vars
  BY <1>5, Frame DEF vars, StoreKept, PageKept, ServerKept, PastKept
<1> QED BY <1>1, <1>2, <1>3, <1>4, <1>5 DEF Next

LEMMA JourneyInvariant == Spec => []JourneyInv
BY JourneyInit, JourneyStep, PTL DEF Spec

(* JourneyInOrder: whatever is edited, re-opened or answered late, the     *)
(* completed sections are the first ones and none is skipped.              *)
THEOREM SectionsInOrder == Spec => []JourneyInOrder
<1>1. JourneyInv => JourneyInOrder
  BY DEF JourneyInv, OrderInv, Order, JourneyInOrder
<1> QED BY <1>1, JourneyInvariant, PTL

(* ConfirmedIsRecorded: what a completed section stands for was recorded by*)
(* the API, though calls fail, answers are lost and pages are reloaded.    *)
THEOREM ConfirmedWasRecorded == Spec => []ConfirmedIsRecorded
<1>1. JourneyInv => ConfirmedIsRecorded
  BY DEF JourneyInv, RecordedInv
<1> QED BY <1>1, JourneyInvariant, PTL

(* SentOnce: a second letter needs a failed call or a reload.              *)
THEOREM LetterSentOnce == Spec => []SentOnce
<1>1. JourneyInv => SentOnce
  BY DEF JourneyInv, LettersInv, Shape, SentOnce
<1> QED BY <1>1, JourneyInvariant, PTL
=============================================================================
