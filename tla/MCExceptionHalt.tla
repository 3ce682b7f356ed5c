-------------------------- MODULE MCExceptionHalt --------------------------
(***************************************************************************)
(* Model checking of ExceptionHalt, up to the first change of slot of a    *)
(* shell as in MCProcessTerminals, and, where the properties say nothing   *)
(* of it, up to a switch that loses tss.esp0.                              *)
(***************************************************************************)
EXTENDS ExceptionHalt

NotRelocated == ~relocated
StillRestored == ~relocated /\ ~cut
=============================================================================
