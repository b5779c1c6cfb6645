----------------------------- MODULE ContentLog -----------------------------
(***************************************************************************)
(* What the Phoenix store promises its callers: a durable log of content   *)
(* mutations.  `log` is the content a restart at this instant would        *)
(* rebuild and `status` what each caller has been told.  The log only      *)
(* grows, one record at a time and behind every record it has; a caller is *)
(* told "acked" only for a mutation in the log; a crash leaves the log as  *)
(* it is and the callers that were waiting without an answer.              *)
(***************************************************************************)
EXTENDS Naturals, FiniteSets

CONSTANTS Mutations, Imports

VARIABLES log, status

Requests == Mutations \cup Imports

Init ==
    /\ log = {}
    /\ status = [r \in Requests |-> "new"]

InLog(r) == \E rec \in log : rec.mut = r

Ask(r) ==
    /\ status[r] = "new"
    /\ status' = [status EXCEPT ![r] = "queued"]
    /\ UNCHANGED log

Commit(m) ==
    /\ status[m] = "queued"
    /\ \E n \in 1 .. Cardinality(log) + 1 :
          /\ \A rec \in log : rec.seq < n
          /\ log' = log \cup {[seq |-> n, mut |-> m]}
    /\ UNCHANGED status

Replace(i) ==
    /\ status[i] = "queued"
    /\ log' = {[seq |-> 0, mut |-> i]}
    /\ UNCHANGED status

Ack(r) ==
    /\ status[r] = "queued"
    /\ InLog(r)
    /\ status' = [status EXCEPT ![r] = "acked"]
    /\ UNCHANGED log

Reject(r) ==
    /\ status[r] = "queued"
    /\ status' = [status EXCEPT ![r] = "rejected"]
    /\ UNCHANGED log

Crash ==
    /\ status' = [r \in Requests |-> IF status[r] = "queued" THEN "lost" ELSE status[r]]
    /\ UNCHANGED log

Next ==
    \/ \E r \in Requests : Ask(r) \/ Ack(r) \/ Reject(r)
    \/ \E m \in Mutations : Commit(m)
    \/ \E i \in Imports : Replace(i)
    \/ Crash

Spec == Init /\ [][Next]_<<log, status>>

=============================================================================
