------------------------- MODULE ProcessRefinement -------------------------
(***************************************************************************)
(* ProcessTerminals implements JobStacks as long as it is healthy.         *)
(***************************************************************************)
EXTENDS ProcessTerminals, SequencesExt

\* s leads from a shell, its own parent, down to process p along parent_PCB.
IsChain(s, p) ==
    /\ parent_PCB[s[1]] = s[1]
    /\ \A k \in 2 .. Len(s) : parent_PCB[s[k]] = s[k - 1] /\ s[k - 1] # s[k]
    /\ s[Len(s)] = p

\* What a chain down to p can go through: p and processes that wait.
Candidates(p) == {p} \cup {i \in Live : isActive[i] = 0}

StacksTo(p) ==
    UNION {[1 .. depth -> Candidates(p)] : depth \in 1 .. Cardinality(Candidates(p))}

\* The jobs of terminal t: the process its lookup finds, and those it returns
\* to one after the other.
JobsOf(t) ==
    IF execute_status[t] = 0 THEN <<>>
    ELSE LET p == get_current_process_ID(t)
         IN  CHOOSE s \in StacksTo(p) : IsChain(s, p)

Abstract == INSTANCE JobStacks
                WITH jobs <- [t \in Terminals |-> JobsOf(t)],
                     screen <- buffer_flag

HealthySpec == Init /\ [][Next /\ Healthy']_vars

\* execute pushes, halt pops, a shell's restart and a failed execute are
\* invisible, and the Alt+F keys only change the screen or open a terminal.
ImplementsJobStacks == Abstract!JSpec

\* A slot is taken exactly when it holds a job of some terminal: no process is
\* cut off from the terminals, its slot lost for ever, and none is on two stacks.
NoOrphans ==
    Healthy =>
        /\ Abstract!InUse = Live
        /\ \A t, u \in Terminals : t < u => ToSet(JobsOf(t)) \cap ToSet(JobsOf(u)) = {}
=============================================================================
