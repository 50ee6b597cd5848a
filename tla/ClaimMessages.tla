--------------------------- MODULE ClaimMessages ---------------------------
(***************************************************************************)
(* What the claim queue promises for its messages, whatever its workers,   *)
(* leases and renewals do: a message that was sent stays on the queue until*)
(* a verdict on its claim has been reached, and never comes back once it is*)
(* off.  Deliveries are repeated, so more than one verdict may be reached, *)
(* and some of them after the message has gone.                            *)
(***************************************************************************)
CONSTANT Msg

VARIABLES
  place,     (* where each message is                                       *)
  verdicts   (* the verdicts reached on each message                        *)

vars == <<place, verdicts>>

Verdict == {"completed", "dead-lettered", "killed"}

Init ==
  /\ place = [m \in Msg |-> "unsent"]
  /\ verdicts = [m \in Msg |-> {}]

Send(m) ==
  /\ place[m] = "unsent"
  /\ place' = [place EXCEPT ![m] = "queued"]
  /\ UNCHANGED verdicts

(* Verdicts are reached on messages that were sent, and messages a verdict *)
(* exists on are removed: one step may do both, for several messages.      *)
Settle ==
  /\ verdicts' \in [Msg -> SUBSET Verdict]
  /\ \A m \in Msg :
       /\ verdicts[m] \subseteq verdicts'[m]
       /\ place[m] = "unsent" => verdicts'[m] = verdicts[m]
  /\ \E gone \in SUBSET {m \in Msg : place[m] = "queued" /\ verdicts'[m] # {}} :
       place' = [m \in Msg |-> IF m \in gone THEN "gone" ELSE place[m]]

Next == Settle \/ \E m \in Msg : Send(m)

Spec == Init /\ [][Next]_vars
=============================================================================
