------------------------- MODULE SuggestRefinement -------------------------
(***************************************************************************)
(* SuggestQueue implements SuggestTask as long as no lease lapses under    *)
(* its owner (MaxLapses = 0): the record is the status, a coroutine of     *)
(* run_task the work, the cancel key the request, the result key the draft. *)
(***************************************************************************)
EXTENDS SuggestQueue

Task == INSTANCE SuggestTask
            WITH status   <- meta,
                 working  <- {t \in Tasks : Running(t) # {}},
                 asked    <- cancelKey,
                 answered <- result

\* Every step of the queue, the workers, the heartbeats and the reclaim loops,
\* of their crashes and their failing commands, is a step the abstract task may
\* take or none: above all no outcome is given to a task by somebody who is not
\* at work on it, none is claimed or given back while somebody is, and no draft
\* appears after a failure.
ImplementsSuggestTask == Task!Spec
=============================================================================
