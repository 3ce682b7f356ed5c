----------------------------- MODULE JobStacks -----------------------------
(***************************************************************************)
(* What the process table and the terminals promise a user, without PCBs,  *)
(* saved contexts or kernel stacks: every terminal has a stack of jobs,    *)
(* its shell at the bottom.  Only the job on top of the terminal on screen *)
(* runs; it starts another job on top of itself or ends and gives way to   *)
(* the job below.  Switching terminals changes no job.                     *)
(***************************************************************************)
EXTENDS Naturals, Sequences, SequencesExt

CONSTANTS Slots, Terminals

VARIABLES jobs, screen

jvars == <<jobs, screen>>

InUse == UNION {ToSet(jobs[t]) : t \in Terminals}

JInit ==
    /\ screen = 0
    /\ jobs = [t \in Terminals |-> IF t = 0 THEN <<0>> ELSE <<>>]

StartJob ==
    /\ UNCHANGED screen
    /\ \E i \in Slots \ InUse : jobs' = [jobs EXCEPT ![screen] = Append(@, i)]

EndJob ==
    /\ UNCHANGED screen
    /\ Len(jobs[screen]) > 1
    /\ jobs' = [jobs EXCEPT ![screen] = Front(@)]

Look(n) ==
    /\ n # screen /\ screen' = n
    /\ jobs[n] # <<>>
    /\ UNCHANGED jobs

OpenTerminal(n) ==
    /\ screen' = n
    /\ jobs[n] = <<>>
    /\ \E i \in Slots \ InUse : jobs' = [jobs EXCEPT ![n] = <<i>>]

JNext ==
    \/ StartJob
    \/ EndJob
    \/ \E n \in Terminals : Look(n) \/ OpenTerminal(n)

JSpec == JInit /\ [][JNext]_jvars
=============================================================================
