----------------------------- MODULE JobService -----------------------------
(***************************************************************************)
(* What the service of background query jobs promises to a browser, apart  *)
(* from owners, limits, runners, audits and cancellation sources: a job's   *)
(* events only grow while it is live, its last status is the one its        *)
(* events tell and changes nothing any more, and only a job that has ended  *)
(* is forgotten, unless the service shuts down.  QueryJobs implements it    *)
(* and QueryTab relies on it.                                               *)
(***************************************************************************)
EXTENDS Sequences

CONSTANTS Job,    \* job ids, each used once
          Event   \* the kinds of event a job publishes

VARIABLES known,    \* the jobs a request finds
          status,   \* the status of every job, "none" before its start
          events,   \* what it has published
          down      \* the service is shutting down

vars == <<known, status, events, down>>

Live == {"running", "cancelling"}
Ended == {"succeeded", "failed", "cancelled"}

\* One step publishes an event, after the truncation marker if that is due.
Burst == {<<e>> : e \in Event} \cup {<<"omitted", e>> : e \in Event}

Has(es, e) == \E i \in DOMAIN es : es[i] = e

\* The events of a job tell the status it ends with.
Tells(es, s) ==
    \/ s = "succeeded" /\ Has(es, "completed") /\ ~Has(es, "error") /\ ~Has(es, "cancelled")
    \/ s = "failed" /\ Has(es, "error") /\ ~Has(es, "cancelled")
    \/ s = "cancelled" /\ Has(es, "cancelled") /\ ~Has(es, "completed") /\ ~Has(es, "error")

Init ==
    /\ known = {}
    /\ status = [j \in Job |-> "none"]
    /\ events = [j \in Job |-> <<>>]
    /\ down = FALSE

Forgettable == {j \in known : status[j] \in Ended}

\* A start may cost results that have ended.
Start(j) ==
    /\ ~down /\ status[j] = "none"
    /\ \E lost \in SUBSET Forgettable : known' = (known \ lost) \cup {j}
    /\ status' = [status EXCEPT ![j] = "running"]
    /\ UNCHANGED <<events, down>>

Publish(j, b) ==
    /\ status[j] \in Live
    /\ events' = [events EXCEPT ![j] = @ \o b]
    /\ UNCHANGED <<known, status, down>>

RequestCancel(j) ==
    /\ status[j] = "running"
    /\ status' = [status EXCEPT ![j] = "cancelling"]
    /\ UNCHANGED <<known, events, down>>

End(j, s) ==
    /\ status[j] \in Live /\ Tells(events[j], s)
    /\ status' = [status EXCEPT ![j] = s]
    /\ UNCHANGED <<known, events, down>>

Forget ==
    /\ \E lost \in (SUBSET Forgettable) \ {{}} : known' = known \ lost
    /\ UNCHANGED <<status, events, down>>

Shutdown ==
    /\ ~down
    /\ down' = TRUE /\ known' = {}
    /\ UNCHANGED <<status, events>>

Next ==
    \/ \E j \in Job : Start(j) \/ RequestCancel(j)
    \/ \E j \in Job, b \in Burst : Publish(j, b)
    \/ \E j \in Job, s \in Ended : End(j, s)
    \/ Forget \/ Shutdown

Spec == Init /\ [][Next]_vars
=============================================================================
