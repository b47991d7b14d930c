------------------------------- MODULE Process ------------------------------
(***************************************************************************)
(* The generic process of pkg/dragon/process/process.go around a function  *)
(* that loops until its context is cancelled, and only then returns the    *)
(* signals wait() looks at.  So wait() finds none while the function runs, *)
(* the channels of Stop and Wait close at once, and neither is a step.     *)
(***************************************************************************)

VARIABLES
    pc,         \* "absent", "new", "spawned", "running" or "ended"
    canceller,  \* process.canceller is set
    cancelled   \* the function's context is done

processVars == <<pc, canceller, cancelled>>

ProcessTypeOK ==
    /\ pc \in {"absent", "new", "spawned", "running", "ended"}
    /\ canceller \in BOOLEAN /\ cancelled \in BOOLEAN

ProcessInit == pc = "absent" /\ canceller = FALSE /\ cancelled = FALSE

New == pc = "absent" /\ pc' = "new" /\ UNCHANGED <<canceller, cancelled>>

Start == pc = "new" /\ pc' = "spawned" /\ UNCHANGED <<canceller, cancelled>>

(* The goroutine of Start comes to run. *)
Begin ==
    /\ pc = "spawned"
    /\ pc' = "running" /\ canceller' = TRUE
    /\ UNCHANGED cancelled

(* The function sees its context done and returns. *)
Finish ==
    /\ pc = "running" /\ cancelled
    /\ pc' = "ended"
    /\ UNCHANGED <<canceller, cancelled>>

(* Stop cancels only when the goroutine has published its canceller. *)
Stop ==
    /\ cancelled' = (cancelled \/ canceller)
    /\ UNCHANGED <<pc, canceller>>

Goroutine == Begin \/ Finish
=============================================================================
