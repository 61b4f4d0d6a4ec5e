---------------------------- MODULE SuggestTask ----------------------------
(***************************************************************************)
(* What a suggest task is to the operator who polls it, whatever queues,   *)
(* leases and heartbeats there are: it is accepted once, worked on by one  *)
(* worker at a time, given back when its worker is gone, and comes to an   *)
(* outcome that somebody who works on it, or a cancellation, has given it. *)
(*                                                                         *)
(* GET /copilot/suggest/{task_id} and the statuses of TaskStatus; the      *)
(* detailed module is SuggestQueue, SuggestRefinement maps it to this one. *)
(***************************************************************************)
CONSTANT Tasks

VARIABLES status,   \* what a poll answers
          working,  \* the tasks a worker is at
          asked,    \* those an operator has asked to cancel
          answered  \* those with a draft

vars == <<status, working, asked, answered>>

Outcomes == {"succeeded", "failed", "canceled"}

TypeOK ==
    /\ status \in [Tasks -> {"none", "queued", "running"} \union Outcomes]
    /\ working \subseteq Tasks
    /\ asked \subseteq Tasks
    /\ answered \subseteq Tasks

Init ==
    /\ status = [t \in Tasks |-> "none"]
    /\ working = {} /\ asked = {} /\ answered = {}

Becomes(t, s) == status' = [status EXCEPT ![t] = s]

Accept(t) ==
    /\ status[t] = "none"
    /\ Becomes(t, "queued")
    /\ UNCHANGED <<working, asked, answered>>

Ask(t) ==
    /\ status[t] # "none"
    /\ asked' = asked \union {t}
    /\ UNCHANGED <<status, working, answered>>

\* Nobody is at a task that is claimed, ...
Claim(t) ==
    /\ status[t] = "queued" /\ t \notin working
    /\ Becomes(t, "running")
    /\ UNCHANGED <<working, asked, answered>>

\* ... started ...
Begin(t) ==
    /\ status[t] = "running" /\ t \notin working
    /\ working' = working \union {t}
    /\ UNCHANGED <<status, asked, answered>>

\* ... or given back.
GiveBack(t) ==
    /\ status[t] = "running" /\ t \notin working
    /\ Becomes(t, "queued")
    /\ UNCHANGED <<working, asked, answered>>

\* Only who works on a task succeeds or fails, and nobody is canceled who did
\* not ask for it.
Finish(t, outcome) ==
    /\ status[t] = "running"
    /\ t \in working \/ outcome = "canceled"
    /\ outcome = "canceled" => t \in asked
    /\ Becomes(t, outcome)
    /\ UNCHANGED <<working, asked, answered>>

\* The draft comes after the success, which a poll may see without it.
Answer(t) ==
    /\ t \in working
    /\ status[t] \in {"succeeded", "running"}
    /\ answered' = answered \union {t}
    /\ UNCHANGED <<status, working, asked>>

\* What the code does to an outcome as long as the worker has not left: a
\* report that raises makes a failure of a success, a late heartbeat a running
\* task of any.
Revoke(t) ==
    /\ t \in working
    /\ \/ status[t] = "succeeded" /\ Becomes(t, "failed")
       \/ status[t] \in Outcomes /\ Becomes(t, "running")
    /\ UNCHANGED <<working, asked, answered>>

\* Workers leave, several at a time if their process dies.
Leave(gone) ==
    /\ working' = working \ gone
    /\ UNCHANGED <<status, asked, answered>>

Next ==
    \/ \E t \in Tasks :
         \/ Accept(t) \/ Ask(t) \/ Claim(t) \/ Begin(t) \/ GiveBack(t)
         \/ Answer(t) \/ Revoke(t)
         \/ \E outcome \in Outcomes : Finish(t, outcome)
    \/ \E gone \in SUBSET Tasks : Leave(gone)

Spec == Init /\ [][Next]_vars
=============================================================================
