--------------------------- MODULE ExceptionHalt ---------------------------
(***************************************************************************)
(* Faults of user programs.  Every handler of IDT.c prints its name and    *)
(* calls sys_call_halt(1).  Vectors below 32 are trap gates (IDT.c sets    *)
(* reserved3 to 1 for them), so interrupts stay on: unlike the system      *)
(* call, this halt can be interrupted by Alt+F1..F3 between any two of its *)
(* assignments and continues when its terminal is on screen again.         *)
(*                                                                         *)
(* pc[t] is where the halt of terminal t's faulting process stands, 0 when *)
(* there is none; victim[t] is that process, whose kernel stack the halt   *)
(* runs on.  The shells themselves do not fault: the process has a parent. *)
(***************************************************************************)
EXTENDS ProcessTerminals

VARIABLES
    pc, victim,
    \* history: the parent the process had when it faulted; a switch came
    \* between the restoring of tss.esp0 and the second write of isActive; the
    \* terminals whose unfinished halt has had its stack given to a process
    caller, cut, lost

hist == <<victim, caller, cut>>
xvars == <<vars, pc, hist, lost>>

At(k) == mode = "user" /\ pc[buffer_flag] = k
Goto(k) ==
    /\ pc' = [pc EXCEPT ![buffer_flag] = k]
    /\ UNCHANGED <<hist, lost>>

XInit ==
    /\ Init
    /\ pc = [t \in Terminals |-> 0]
    /\ victim = [t \in Terminals |-> 0]
    /\ caller = [t \in Terminals |-> 0]
    /\ cut = FALSE
    /\ lost = {}

\* The wrappers: the registers go onto the kernel stack of the process.
Wrapper ==
    /\ victim' = [victim EXCEPT ![buffer_flag] = current_process_ID]
    /\ caller' = [caller EXCEPT ![buffer_flag] = parent_PCB[current_process_ID]]

\* divide_by_zero ... floating_point: a message, then sys_call_halt(1).
Handler == pc' = [pc EXCEPT ![buffer_flag] = 1]

\* One of the vectors 0 to 19 (15 has no handler).
Fault ==
    /\ At(0)
    /\ parent_PCB[current_process_ID] # current_process_ID
    /\ Wrapper /\ Handler
    /\ UNCHANGED <<vars, cut, lost>>

\* tss.esp0 = PCB_array[current_process_ID]->parent_ESP0
HaltEsp0 ==
    /\ At(1) /\ Goto(2)
    /\ esp0' = parent_ESP0[current_process_ID]
    /\ UNCHANGED <<pcb, parent_process_ID, current_process_ID, page, term,
                   buffer_flag, nxt_term, mode, loop, ret, home, popped, relocated>>

\* mutant: the slot is released before the active process is changed
HaltField_FlagFirst ==
    LET c == current_process_ID
        p == parent_PCB[c]
    IN  /\ \/ /\ At(2) /\ Goto(3)
              /\ flag' = [flag EXCEPT ![c] = 0]
              /\ UNCHANGED <<isActive, terminalNumber>>
           \/ /\ At(3) /\ p \in Slots /\ Goto(4)
              /\ isActive' = [isActive EXCEPT ![p] = 1]
              /\ UNCHANGED <<flag, terminalNumber>>
           \/ /\ At(4) /\ Goto(5)
              /\ isActive' = [isActive EXCEPT ![c] = 0]
              /\ UNCHANGED <<flag, terminalNumber>>
           \/ /\ At(5) /\ Goto(6)
              /\ terminalNumber' = [terminalNumber EXCEPT ![c] = NoTerminal]
              /\ UNCHANGED <<flag, isActive>>
        /\ UNCHANGED <<parent_PCB, esp, parent_ESP0, cpu, term, buffer_flag,
                       nxt_term, mode, loop, ret, home, popped, relocated>>

\* One assignment to a field of the PCBs of the process and its parent.
HaltField ==
    LET c == current_process_ID
        p == parent_PCB[c]
    IN  /\ \/ /\ At(2) /\ p \in Slots /\ Goto(3)
              /\ isActive' = [isActive EXCEPT ![p] = 1]
              /\ UNCHANGED <<flag, terminalNumber>>
           \/ /\ At(3) /\ Goto(4)
              /\ isActive' = [isActive EXCEPT ![c] = 0]
              /\ UNCHANGED <<flag, terminalNumber>>
           \/ /\ At(4) /\ Goto(5)
              /\ flag' = [flag EXCEPT ![c] = 0]
              /\ UNCHANGED <<isActive, terminalNumber>>
           \/ /\ At(5) /\ Goto(6)
              /\ terminalNumber' = [terminalNumber EXCEPT ![c] = NoTerminal]
              /\ UNCHANGED <<flag, isActive>>
        /\ UNCHANGED <<parent_PCB, esp, parent_ESP0, cpu, term, buffer_flag,
                       nxt_term, mode, loop, ret, home, popped, relocated>>

\* parent_process_ID = ...->parent_PCB->process_id
HaltParentID ==
    /\ At(6) /\ Goto(7)
    /\ parent_PCB[current_process_ID] \in Slots
    /\ parent_process_ID' = parent_PCB[current_process_ID]
    /\ UNCHANGED <<pcb, current_process_ID, esp0, page, term, buffer_flag,
                   nxt_term, mode, loop, ret, home, popped, relocated>>

\* The pointers of the PCB are cleared and the parent becomes current.
HaltCurrentID ==
    LET c == current_process_ID
    IN  /\ At(7) /\ Goto(8)
        /\ parent_PCB[c] \in Slots
        /\ parent_PCB' = [parent_PCB EXCEPT ![c] = Null]
        /\ esp' = [esp EXCEPT ![c] = Null]
        /\ current_process_ID' = parent_PCB[c]
        /\ UNCHANGED <<flag, isActive, terminalNumber, parent_ESP0,
                       parent_process_ID, esp0, page, term, buffer_flag,
                       nxt_term, mode, loop, ret, home, popped, relocated>>

\* mutant: the parent's page is not mapped
HaltReturn_NoPage ==
    /\ At(8) /\ Goto(0)
    /\ ret' = [why |-> "exception", eax |-> 1]
    /\ UNCHANGED <<pcb, cpu, term, buffer_flag, nxt_term, mode, loop,
                   home, popped, relocated>>

\* The parent's page is mapped and its execute call returns the status.
HaltReturn ==
    /\ At(8) /\ Goto(0)
    /\ page' = current_process_ID
    /\ ret' = [why |-> "exception", eax |-> 1]
    /\ UNCHANGED <<pcb, parent_process_ID, current_process_ID, esp0, term,
                   buffer_flag, nxt_term, mode, loop, home, popped, relocated>>

\* A process that is started in a slot has the kernel stack of that slot, also
\* when an unfinished halt of another terminal still stands on it.
StacksTaken ==
    lost' = lost \cup {t \in Terminals :
                          pc[t] # 0 /\ flag[victim[t]] = 0 /\ flag'[victim[t]] = 1}

\* The switch to a terminal whose saved stack has been used by another process:
\* what it goes on with is not determined by the program.
ResumeLost(n) ==
    /\ mode = "user" /\ SwitchAllowed(n)
    /\ n \in lost
    /\ mode' = "undefined"
    /\ UNCHANGED <<pcb, cpu, term, buffer_flag, nxt_term, loop, ret, home, popped,
                   relocated, pc, hist, lost>>

\* An Alt+F key during the halt: its handler runs on the halting process's
\* stack, whatever tss.esp0 is by now.
InterruptedHalt(n) ==
    /\ pc[buffer_flag] # 0
    /\ \/ StartTerminal(n, victim[buffer_flag])
       \/ n \notin lost /\ ResumeTerminal(n, victim[buffer_flag])
    /\ cut' = (cut \/ pc[buffer_flag] \in {2, 3})
    /\ StacksTaken
    /\ UNCHANGED <<pc, victim, caller>>

\* What the terminal on screen does when no halt is under way there.
Undisturbed ==
    /\ pc[buffer_flag] = 0
    /\ Next
    /\ buffer_flag' \notin lost
    /\ StacksTaken
    /\ UNCHANGED <<pc, hist>>

XNext ==
    \/ Fault
    \/ HaltEsp0
    \/ HaltField
    \/ HaltParentID
    \/ HaltCurrentID
    \/ HaltReturn
    \/ \E n \in Terminals : InterruptedHalt(n) \/ ResumeLost(n)
    \/ Undisturbed

XSpec == XInit /\ [][XNext]_xvars

-----------------------------------------------------------------------------
\* Nothing is half done: the terminal on screen runs user code or its loop.
Settled == Healthy /\ pc[buffer_flag] = 0

\* After a fault the parent continues as after a halt system call, also when
\* the user has looked at other terminals in between: all the kernel's records
\* agree on the process that runs (the comment "restore parent data" of
\* syscalls.c:55).
FaultRestoresParent ==
    Settled =>
        /\ parent_process_ID = current_process_ID
        /\ page = current_process_ID
        /\ isActive[current_process_ID] = 1
        /\ terminalNumber[current_process_ID] = buffer_flag
        /\ mode = "user" => esp0 = current_process_ID

\* Switches at six of the eight points of a halt, in any number and from several
\* halts at a time, do no harm to the parent: only one between line 46 of
\* syscalls.c, which restores tss.esp0, and the second write of isActive does.
\* The process the halt is about to return to is the one that called execute.
RestoredUnlessCut ==
    ~cut => /\ FaultRestoresParent
            /\ Healthy /\ pc[buffer_flag] = 8 => current_process_ID = caller[buffer_flag]

\* A halt loses its kernel stack to another process only when the user leaves its
\* terminal after the slot was released (syscalls.c:64).
StackKeptUntilRelease == ~cut /\ Healthy => \A t \in lost : pc[t] \in 5 .. 8

\* syscalls.c:290, "subtract 8kb for each process id": a kernel stack is used by
\* one process at a time, and a halt that has not finished still uses its own.
HaltKeepsItsStack == lost = {}
=============================================================================
