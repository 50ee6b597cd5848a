------------------------ MODULE MCClaimQueueWorker ------------------------
(* Small instances of ClaimQueueWorker for TLC.                            *)
EXTENDS ClaimQueueWorker, TLC

CONSTANTS m1, m2, c1, c2

(* Two messages for two claims.                                            *)
TwoClaims == (m1 :> c1) @@ (m2 :> c2)

(* One message with a claim and one that does not parse.                   *)
OneMalformed == (m1 :> c1) @@ (m2 :> Malformed)

OneMessage == m1 :> c1

(* Receipts matter only in being current or not, so two states that differ *)
(* in nothing else about their receipts are explored once.                 *)
Mark(h) == IF h = None THEN None ELSE <<h.msg, Current(h)>>
ReceiptView ==
  <<[m \in Msg |-> [queue[m] EXCEPT !.receipt = None]], dead,
    isRunning, workerLoop, workerTasks, inflight, inflightTask, kill, control,
    [w \in Worker |-> Mark(inflightMessage[w])],
    [w \in Worker |-> [renew[w] EXCEPT !.on = Mark(@)]],
    [w \in Worker |->
       [job[w] EXCEPT !.arg = Mark(@),
                      !.receipt = IF job[w] = NoJob THEN FALSE
                                  ELSE Current([msg |-> job[w].msg, receipt |-> @])]],
    history>>

(* Bound: a message that does not parse is delivered once.                 *)
MalformedOnce == \A m \in Msg : ClaimOf[m] = Malformed => queue[m].count <= 1

WorkerSymmetry == Permutations(Worker)
===========================================================================
