----------------------------- MODULE ModelCall -----------------------------
(***************************************************************************)
(* One call of a language model through AzureOpenAIChatClientWithRetry of  *)
(* ContentProcessorWorkflow (azure_openai_response_retry.py; its Responses *)
(* client has the same two methods): the request is trimmed when it is too *)
(* long, an attempt that fails is repeated after a pause, or at once with  *)
(* a trimmed request when the failure reads like one of its length.        *)
(* "get" waits for the whole answer, "stream" yields its updates.          *)
(*                                                                         *)
(* Texts are abstract: a message is who wrote it, which text it is (its    *)
(* fingerprint) and how long that is.  Trimming a ChatMessage also changes *)
(* it in the caller's list; a call is given a fresh list here.             *)
(***************************************************************************)
EXTENDS Naturals, Sequences, FiniteSets, FiniteSetsExt

CONSTANTS
  MaxRetries,   (* AOAI_429_MAX_RETRIES                                     *)
  BaseDelay,    (* AOAI_429_BASE_DELAY_SECONDS                              *)
  MaxDelay,     (* AOAI_429_MAX_DELAY_SECONDS                               *)
  RetryAfter,   (* bound: what the service says in a retry-after header     *)
  MaxTotal,     (* AOAI_CTX_MAX_TOTAL_CHARS                                 *)
  MaxMessage,   (* AOAI_CTX_MAX_MESSAGE_CHARS                               *)
  KeepLast,     (* AOAI_CTX_KEEP_LAST_MESSAGES                              *)
  Ends,         (* keep_head_chars + keep_tail_chars                        *)
  Marker,       (* length of the marker between head and tail               *)
  Parts,        (* updates in a streamed answer                             *)
  None

ASSUME CallAssumption ==
  /\ {MaxRetries, BaseDelay, MaxDelay} \subseteq Nat /\ RetryAfter \subseteq Nat
  /\ {MaxTotal, MaxMessage, KeepLast, Ends, Parts} \subseteq Nat \ {0} /\ Marker \in Nat
  /\ Ends <= MaxTotal                        \* as the defaults have it
  /\ None \notin Nat

VARIABLE call

-----------------------------------------------------------------------------
Message == [system : BOOLEAN, text : Nat, size : Nat]

(* _trim_messages, with its default switches.                              *)
Chars(messages) == MapThenSumSet(LAMBDA i : messages[i].size, DOMAIN messages)

(* The subsequence of s at the positions in S.                             *)
Sub(s, S) ==
  [k \in 1..Cardinality(S) |->
     s[CHOOSE i \in S : Cardinality({j \in S : j <= i}) = k]]

(* _truncate_text: head, marker and tail within max.                       *)
Cut(m, max) ==
  IF m.size <= max THEN m ELSE [m EXCEPT !.size = Min({max, Ends + Marker})]

(* The leading system messages, and the last KeepLast of the others.       *)
Leading(messages) ==
  SubSeq(messages, 1, Cardinality({i \in DOMAIN messages :
                                     \A j \in 1..i : messages[j].system}))

Tail_(messages) ==
  LET rest == SubSeq(messages, Len(Leading(messages)) + 1, Len(messages))
  IN  SubSeq(rest, IF Len(rest) > KeepLast THEN Len(rest) - KeepLast + 1 ELSE 1, Len(rest))

(* Of messages with one fingerprint the oldest stays.                      *)
Cleaned(messages) ==
  LET tail == Tail_(messages)
      once == Sub(tail, {i \in DOMAIN tail : \A j \in 1..(i - 1) : tail[j].text # tail[i].text})
  IN  [i \in DOMAIN once |-> Cut(once[i], MaxMessage)]

(* Mutant: the oldest message goes first, a system message or not.         *)
DropOldest(system, cleaned) ==
  LET all == system \o cleaned
      rest(n) == SubSeq(all, n + 1, Len(all))
  IN  rest(Min({n \in 0..(Len(all) - 1) :
                   n = Len(all) - 1 \/ Chars(rest(n)) <= MaxTotal}))

(* Mutant: the newest message goes first.                                  *)
DropNewest(system, cleaned) ==
  LET keep == IF system = <<>> THEN Min({1, Len(cleaned)}) ELSE 0
      rest(n) == system \o SubSeq(cleaned, 1, Len(cleaned) - n)
  IN  rest(Min({n \in 0..(Len(cleaned) - keep) :
                   n = Len(cleaned) - keep \/ Chars(rest(n)) <= MaxTotal}))

(* The oldest messages after the system ones go until the rest fits; one   *)
(* message stays, or the system messages if there are any.                 *)
Drop(system, cleaned) ==
  LET keep == IF system = <<>> THEN Min({1, Len(cleaned)}) ELSE 0
      rest(n) == system \o SubSeq(cleaned, n + 1, Len(cleaned))
  IN  rest(Min({n \in 0..(Len(cleaned) - keep) :
                   n = Len(cleaned) - keep \/ Chars(rest(n)) <= MaxTotal}))

(* What still does not fit has its longest message cut.                    *)
Trim(messages) ==
  LET kept == Drop(Leading(messages), Cleaned(messages))
      longest == Min({i \in DOMAIN kept : \A j \in DOMAIN kept : kept[j].size <= kept[i].size})
      others == Chars(kept) - kept[longest].size
      room == IF others + Ends < MaxTotal THEN MaxTotal - others ELSE Ends
  IN  IF Chars(kept) <= MaxTotal THEN kept
      ELSE [kept EXCEPT ![longest] = Cut(@, room)]

-----------------------------------------------------------------------------
(* Failures, as their text and status read.  A rate limit on tokens may    *)
(* say "too many tokens", and any 400 or 413 reads like a length.          *)
Failure == {"rate_limit", "token_limit", "challenge_400", "challenge_404", "too_long",
            "bad_request", "other"}

LooksLikeRateLimit(e)     == e \in {"rate_limit", "token_limit"}
LooksLikeChallenge(e)     == e \in {"challenge_400", "challenge_404"}
LooksLikeContextLength(e) == e \in {"token_limit", "challenge_400", "too_long", "bad_request"}
IsTransient(e)            == LooksLikeRateLimit(e) \/ LooksLikeChallenge(e)

(* Seconds before the next attempt; the jitter is left out.                *)
Backoff(attempt) == Min({BaseDelay * 2 ^ (attempt - 1), MaxDelay})
Delays(attempt)  == RetryAfter \cup {Backoff(attempt)}

(* at: nothing under way, an attempt to be made, a stream that yields, a   *)
(* pause, or ended.  round 2 is the second _retry_call of a "get", seen    *)
(* what the consumer of a stream was given, sent how often a request went. *)
NoCall == [mode |-> "get", at |-> "idle", attempt |-> 0, round |-> 1, full |-> <<>>,
           request |-> <<>>, got |-> 0, seen |-> <<>>, error |-> None, delay |-> 0,
           sent |-> 0]

CallIdle == call.at \in {"idle", "returned", "raised"}

CallBegins(mode, messages) ==
  call' = [NoCall EXCEPT !.mode = mode, !.at = "ready", !.attempt = 1, !.full = messages,
             !.request = IF Chars(messages) <= MaxTotal THEN messages ELSE Trim(messages)]

(* Mutant: the last attempt is taken for used up before it is made.        *)
LastAttemptEarly == call.attempt >= MaxRetries

LastAttempt == call.attempt = MaxRetries + 1

Again == [call EXCEPT !.sent = @ + 1, !.attempt = @ + 1, !.got = 0]

(* A repeated "get": tenacity first, then once more with less text.        *)
GetFails(e) ==
  call' = IF IsTransient(e) /\ ~LastAttempt
            THEN [Again EXCEPT !.at = "pause", !.error = e]
          ELSE IF call.round = 1 /\ LooksLikeContextLength(e)
            THEN [Again EXCEPT !.at = "ready", !.error = e, !.round = 2, !.attempt = 1,
                               !.request = Trim(call.full)]
          ELSE [call EXCEPT !.at = "raised", !.error = e, !.sent = @ + 1]

(* A repeated stream: its try block also covers the updates after the      *)
(* first, which have been yielded by then.                                 *)
StreamFails(e) ==
  call' = IF LastAttempt \/ ~(LooksLikeContextLength(e) \/ IsTransient(e))
            THEN [call EXCEPT !.at = "raised", !.error = e, !.sent = @ + 1]
          ELSE IF LooksLikeContextLength(e)
            THEN [Again EXCEPT !.at = "ready", !.error = e, !.request = Trim(call.full)]
          ELSE [Again EXCEPT !.at = "pause", !.error = e]

AttemptFails(e) ==
  /\ call.at \in {"ready", "flowing"}
  /\ IF call.mode = "get" THEN GetFails(e) ELSE StreamFails(e)

Pause ==
  /\ call.at = "pause"
  /\ \E d \in Delays(call.attempt - 1) : call' = [call EXCEPT !.at = "ready", !.delay = d]

GetReturns ==
  /\ call.mode = "get" /\ call.at = "ready"
  /\ call' = [call EXCEPT !.at = "returned", !.sent = @ + 1]

StreamYields ==
  /\ call.mode = "stream" /\ call.at \in {"ready", "flowing"} /\ call.got < Parts
  /\ call' = [call EXCEPT !.at = "flowing", !.got = @ + 1, !.seen = Append(@, call.got + 1)]

StreamEnds ==
  /\ call.mode = "stream"
  /\ (call.at = "flowing" /\ call.got = Parts) \/ call.at = "ready"
  /\ call' = [call EXCEPT !.at = "returned", !.sent = @ + 1]

(* The consumer stops listening: the generator is closed.                  *)
CallDropped == call' = NoCall

-----------------------------------------------------------------------------
(* A call repeats itself no more often than it may: a stream makes         *)
(* MaxRetries + 1 attempts at most, a "get" twice as many.  It gives up    *)
(* only when they are used up, or on a failure that neither a pause nor a  *)
(* shorter request may mend.  On a failure of length it has tried the      *)
(* shorter request before: a "get" in its second round, a stream at least  *)
(* once, if there was an attempt left.                                     *)
GivesUpLate ==
  /\ call.sent <= (IF call.mode = "get" THEN 2 ELSE 1) * (MaxRetries + 1)
  /\ call.at = "raised" =>
       /\ IsTransient(call.error) => call.sent > MaxRetries
       /\ LooksLikeContextLength(call.error) =>
            IF call.mode = "get" THEN call.round = 2
            ELSE call.sent > MaxRetries \/ (call.sent > 1 /\ call.request = Trim(call.full))

(* A stream tries the shorter request once: it gives up when that fails of *)
(* its length too.  (azure_openai_response_retry.py:689 and :880:          *)
(* "One-shot retry for context-length failures".)  The code repeats the    *)
(* same trimmed request until the attempts are used up.                    *)
OneShotTrim ==
  [][call.mode = "stream" /\ call.error = "too_long" /\ call'.error = "too_long"
       /\ call'.sent > call.sent => call'.at \in {"returned", "raised"}]_call

(* The system messages that lead a conversation, and the ways to read a    *)
(* request as some of its messages in their order.                         *)
Heads(full) == {i \in DOMAIN full : \A j \in 1..i : full[j].system}
Sources(sent, full) ==
  {from \in [DOMAIN sent -> DOMAIN full] :
     /\ \A i \in DOMAIN sent : sent[i].text = full[from[i]].text
     /\ \A i, j \in DOMAIN sent : i < j => from[i] < from[j]}

(* A request is never empty and consists of messages of the caller in their*)
(* order; every leading system message is among them; of the others, with  *)
(* one it keeps every newer one that repeats no text; and it fits, unless  *)
(* it is down to the leading system messages.                              *)
RequestIsSound ==
  call.at # "idle" /\ call.full # <<>> =>
    /\ call.request # <<>>
    /\ \E from \in Sources(call.request, call.full) :
         LET kept == {from[i] : i \in DOMAIN call.request}
         IN  /\ Heads(call.full) \subseteq kept
             /\ \A p \in kept \ Heads(call.full), q \in DOMAIN call.full \ kept :
                  p < q => \E j \in 1..(q - 1) : call.full[j].text = call.full[q].text
             /\ Chars(call.request) <= MaxTotal \/ kept \subseteq Heads(call.full)

(* The last message, which is the one to be answered, is in every request, *)
(* unless it repeats an earlier text, of which the oldest copy counts as   *)
(* the one to keep or to drop, or does not fit behind the leading system   *)
(* messages even when it is cut: then the system messages go alone.        *)
LastSurvives ==
  call.at # "idle" /\ call.full # <<>> =>
    LET full == call.full
        last == full[Len(full)]
        heads == SubSeq(full, 1, Cardinality(Heads(full)))
    IN  /\ \A j \in 1..(Len(full) - 1) : full[j].text # last.text
        /\ heads # <<>> => Chars(Append(heads, Cut(last, MaxMessage))) <= MaxTotal
        => \E i \in DOMAIN call.request : call.request[i].text = last.text

(* The updates a consumer is given are those of one answer, each once.     *)
(* (azure_openai_response_retry.py:823: "only retries failures before the  *)
(* first yielded update".)                                                 *)
YieldedOnce == \A i \in DOMAIN call.seen : call.seen[i] = i

(* What the proofs carry along: the attempts of a call are counted.        *)
CallCounted ==
  /\ call = [mode |-> call.mode, at |-> call.at, attempt |-> call.attempt,
             round |-> call.round, full |-> call.full, request |-> call.request,
             got |-> call.got, seen |-> call.seen, error |-> call.error,
             delay |-> call.delay, sent |-> call.sent]
  /\ call.mode \in {"get", "stream"} /\ call.round \in {1, 2}
  /\ call.attempt \in Nat /\ call.sent \in Nat /\ call.got \in Nat
  /\ call.mode = "stream" => call.round = 1
  /\ call.at = "flowing" => call.mode = "stream"
  /\ call.at \in {"ready", "flowing", "pause"} =>
       /\ 1 <= call.attempt /\ call.attempt <= MaxRetries + 1
       /\ call.attempt <= call.sent + 1
       /\ call.sent < call.attempt + (IF call.round = 2 THEN MaxRetries + 1 ELSE 0)
  /\ GivesUpLate

(* What is sent is what the caller gave, if it fits, or that trimmed.      *)
CallTrimmed ==
  /\ call.full \in Seq(Message)
  /\ call.at # "idle" => \/ call.request = call.full /\ Chars(call.full) <= MaxTotal
                         \/ call.request = Trim(call.full)
=============================================================================
