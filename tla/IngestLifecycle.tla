---------------------------- MODULE IngestLifecycle ----------------------------
(***************************************************************************)
(* What the ingestion log promises about each file content: it is queued,  *)
(* its ingestion succeeds or fails, a failed one may be queued again, and  *)
(* success puts exactly one row in the catalogue and is final, unless the  *)
(* database did not acknowledge the commit: then it may still be reported  *)
(* as a failure, once, and the catalogue keeps its row.                    *)
(***************************************************************************)
EXTENDS Naturals

CONSTANT Hashes       \* file contents

VARIABLES
  status,      \* status of the ingestion log row, "none" when there is no row
  catalogued,  \* rows of the content in the catalogue
  doubtful     \* successes whose commit has not been acknowledged

vars == <<status, catalogued, doubtful>>

Init ==
  /\ status = [h \in Hashes |-> "none"]
  /\ catalogued = [h \in Hashes |-> 0]
  /\ doubtful = {}

Queue(h) ==
  /\ status[h] \in {"none", "failed"}
  /\ status' = [status EXCEPT ![h] = "pending"]
  /\ UNCHANGED <<catalogued, doubtful>>

Succeed(h) ==
  /\ status[h] = "pending"
  /\ status' = [status EXCEPT ![h] = "success"]
  /\ catalogued' = [catalogued EXCEPT ![h] = 1]
  /\ doubtful' \in {doubtful, doubtful \cup {h}}

Fail(h) ==
  /\ status[h] = "pending"
  /\ status' = [status EXCEPT ![h] = "failed"]
  /\ UNCHANGED <<catalogued, doubtful>>

\* An unacknowledged success is reported as a failure, or left alone for good.
Retract(h) ==
  /\ h \in doubtful
  /\ status' \in {status, [status EXCEPT ![h] = "failed"]}
  /\ doubtful' = doubtful \ {h}
  /\ UNCHANGED catalogued

Next == \E h \in Hashes : Queue(h) \/ Succeed(h) \/ Fail(h) \/ Retract(h)
Spec == Init /\ [][Next]_vars

=============================================================================
