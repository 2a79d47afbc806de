---------------------------- MODULE RequestService ----------------------------
(***************************************************************************)
(* What a batched model kit promises its callers, without queues, threads  *)
(* or caches: every accepted request runs at most once, at most Limit of   *)
(* them at a time, and gets one outcome that never changes.  A request is  *)
(* cancelled only if somebody asked for it or the service is closing.      *)
(***************************************************************************)
EXTENDS Naturals, FiniteSets

CONSTANTS Req, Limit

VARIABLES status, \* per request
          asked,  \* requests whose cancellation somebody asked for
          open    \* shutdown has not been requested

svars == <<status, asked, open>>

Outcomes == {"completed", "cancelled", "failed"}

Init ==
  /\ status = [r \in Req |-> "new"]
  /\ asked = {}
  /\ open = TRUE

Running == {r \in Req : status[r] = "running"}
Unanswered == {r \in Req : status[r] \in {"accepted", "running"}}

Move(r, from, to) ==
  /\ status[r] \in from
  /\ status' = [status EXCEPT ![r] = to]
  /\ UNCHANGED <<asked, open>>

Accept(r) == Move(r, {"new"}, "accepted")
Start(r) == Cardinality(Running) < Limit /\ Move(r, {"accepted"}, "running")
Complete(r) == Move(r, {"running"}, "completed")
Reject(r) == Move(r, {"accepted"}, "failed")
Cancel(r) == r \in asked /\ Move(r, {"accepted", "running"}, "cancelled")

Ask(r) == asked' = asked \cup {r} /\ UNCHANGED <<status, open>>

Close == open /\ open' = FALSE /\ UNCHANGED <<status, asked>>

\* The service stops: closing cancels, a fatal error fails, what it holds.
Stop(outcome) ==
  /\ outcome = "failed" \/ ~open
  /\ \E S \in SUBSET Unanswered :
       status' = [r \in Req |-> IF r \in S THEN outcome ELSE status[r]]
  /\ UNCHANGED <<asked, open>>

Next ==
  \/ \E r \in Req : \/ Accept(r) \/ Start(r) \/ Complete(r) \/ Reject(r)
                    \/ Cancel(r) \/ Ask(r)
  \/ Close
  \/ Stop("cancelled") \/ Stop("failed")

Spec == Init /\ [][Next]_svars
=============================================================================
