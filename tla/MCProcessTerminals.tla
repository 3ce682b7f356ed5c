------------------------ MODULE MCProcessTerminals ------------------------
(***************************************************************************)
(* Model checking of ProcessTerminals and of its refinement.  The          *)
(* properties say nothing of a state after a shell changed its slot or     *)
(* returned to a popped loop, and neither is ever undone, so the run ends  *)
(* there (HealthySpec).                                                    *)
(***************************************************************************)
EXTENDS ProcessRefinement

\* The value execute last returned decides no step.
AllButRet ==
    <<pcb, cpu, term, buffer_flag, nxt_term, mode, loop, home, popped, relocated>>
=============================================================================
