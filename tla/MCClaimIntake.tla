--------------------------- MODULE MCClaimIntake ---------------------------
(* Instances of claim intake for TLC.                                      *)
EXTENDS ClaimIntake

(* Files keep apart under names of their own, or all share one.            *)
OwnNames  == CHOOSE nameOf \in [File -> Name] :
               \A f, g \in File : nameOf[f] = nameOf[g] => f = g
SameName  == [f \in File |-> CHOOSE n \in Name : TRUE]
=============================================================================
