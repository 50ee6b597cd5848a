---------------------------- MODULE MCGroupChat ----------------------------
(* Instances of GroupChat for TLC.                                         *)
EXTENDS GroupChat

System(t, n) == [system |-> TRUE, text |-> t, size |-> n]
User(t, n)   == [system |-> FALSE, text |-> t, size |-> n]

(* Agents are called with a request that fits, in which a text is repeated. *)
Short == {<<System(0, 1), User(1, 2), User(1, 2)>>}

TwoThenOne == <<2, 1>>

(* A review, a completion as the prompts want it, a block, a bare finish.  *)
Review(r) == [selected |-> r, instruction |-> "review", finish |-> FALSE]
Ends_(i, finish) == [selected |-> None, instruction |-> i, finish |-> finish]
FewDecisions ==
  {Review(r) : r \in Reviewer} \cup {Ends_("complete", FALSE), Ends_("blocked", TRUE), Ends_(None, TRUE)}

(* Participants that agree or call a tool, and ones that sign off or not.  *)
Agree  == {[signOff |-> s] : s \in {"PASS", "tool"}}
Differ == {[signOff |-> s] : s \in {"PASS", "FAIL"}}

(* One failure of each way to read it.                                     *)
FewFailures == {"rate_limit", "too_long", "other"}
=============================================================================
