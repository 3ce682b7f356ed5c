----------------------- MODULE ProcessTerminalsProofs -----------------------
(***************************************************************************)
(* Proofs about ProcessTerminals for every number of slots and terminals.  *)
(***************************************************************************)
EXTENDS ProcessTerminals, WellFoundedInduction, TLAPS

\* Every non-empty set of naturals has a least element.
LEMMA LeastNatural ==
    ASSUME NEW S, S \subseteq Nat, S # {}
    PROVE  \E i \in S : \A j \in S : i <= j
<1> DEFINE R == OpToRel(<, Nat)
<1>1. \E i \in S : \A j \in S : ~(<<j, i>> \in R)
  <2>1. IsWellFoundedOn(R, Nat)
    BY NatLessThanWellFounded
  <2> HIDE DEF R
  <2> QED BY <2>1, WFMin
<1>2. PICK i \in S : \A j \in S : ~(<<j, i>> \in R)
  BY <1>1
<1>3. ASSUME NEW j \in S PROVE i <= j
  <2>1. ~(<<j, i>> \in R)
    BY <1>2
  <2>2. <<j, i>> \in Nat \X Nat
    OBVIOUS
  <2>3. ~(j < i)
    BY <2>1, <2>2, Zenon DEF OpToRel
  <2> QED BY <2>3
<1> QED BY <1>3

\* The search for a slot finds a free one when there is one.
LEMMA FirstFreeIsFree ==
    ASSUME FreeSlots # {}
    PROVE  FirstFree \in Slots /\ flag[FirstFree] = 0
<1>1. FreeSlots \subseteq Nat
  BY SlotsAssumption DEF FreeSlots, Slots
<1>2. \E i \in FreeSlots : \A j \in FreeSlots : i <= j
  BY <1>1, LeastNatural
<1>3. FirstFree \in FreeSlots
  BY <1>2, Zenon DEF FirstFree
<1> QED BY <1>3 DEF FreeSlots
-----------------------------------------------------------------------------
(***************************************************************************)
(* The inductive invariant.  None of the parts of Consistent is inductive  *)
(* alone: halt restores what ParentsWait says of the parent, the lookup of *)
(* a switch needs OneRunnerPerTerminal, and so on.                         *)
(***************************************************************************)
WellTyped == Healthy => TypeOK

Inv == WellTyped /\ Consistent

\* What the numbers used for "none" have to do with slots and terminals.
LEMMA Sentinels ==
    /\ Slots \subseteq Nat /\ Terminals \subseteq Nat
    /\ 0 \in Slots /\ 0 \in Terminals
    /\ NoTerminal \notin Terminals /\ NoProcess \notin Slots
    /\ Null \notin Slots /\ BootStack \notin Slots
    /\ \A t \in Terminals : BaseFrame(t) \in BaseFrames /\ BaseFrame(t) \notin Slots
    /\ \A t \in Terminals : BaseFrame(t) - SIZE_OF_PCB_ARRAY = t
BY SlotsAssumption, TerminalsAssumption
   DEF Slots, Terminals, NoTerminal, NoProcess, Null, BootStack, BaseFrame, BaseFrames

LEMMA InitInv == Init => Inv
<1> SUFFICES ASSUME Init PROVE Inv
  OBVIOUS
<1> USE Sentinels
<1>1. TypeOK
  <2>1. popped \in [Terminals -> BOOLEAN]
    BY Zenon DEF Init
  <2>2. ret \in [why : {"none", "invalid", "full", "halt", "exception"}, eax : -1 .. 255]
    BY DEF Init
  <2> QED BY <2>1, <2>2 DEF Init, TypeOK
<1>2. Live = {0} /\ Started = {0}
  BY DEF Init, Live, Started
<1>3. RunningProcess /\ SavedContext /\ BootShell /\ RestartOnScreen /\ StartNeverSpins
  BY <1>2 DEF Init, RunningProcess, SavedContext, BootShell, RestartOnScreen, StartNeverSpins
<1>4. ParentsWait
  BY <1>2 DEF Init, ParentsWait, HasWaitingParent
<1>5. OneRunnerPerTerminal
  BY <1>2 DEF Init, OneRunnerPerTerminal
<1> QED
  BY <1>1, <1>3, <1>4, <1>5 DEF Inv, WellTyped, Consistent

\* The guarded parts say nothing of a state that is not healthy.
LEMMA Vacuous == StartNeverSpins' /\ ~Healthy' => Inv'
BY DEF Inv, WellTyped, Consistent, RunningProcess, ParentsWait,
       OneRunnerPerTerminal, SavedContext, BootShell, RestartOnScreen

\* A program starts another one: the new process is not slot 0, its parent is
\* the current process, which had no other child because it was active.
LEMMA ExecuteProgramInv == Inv /\ ExecuteProgram => Inv'
<1> SUFFICES ASSUME Inv, ExecuteProgram PROVE Inv'
  OBVIOUS
<1> USE Sentinels
<1>1. StartNeverSpins' /\ mode' = "user"
  BY DEF ExecuteProgram, sys_call_execute, StartNeverSpins
<1>2. CASE ~Healthy'
  BY <1>1, <1>2, Vacuous
<1>3. CASE Healthy'
  <2>0. PICK i, c : i = FirstFree /\ c = current_process_ID
    BY Zenon
  <2>1. Healthy /\ mode = "user"
    BY <1>3 DEF ExecuteProgram, Healthy
  <2>2. i \in Slots /\ flag[i] = 0
    BY <2>0, FirstFreeIsFree DEF ExecuteProgram, is_PCB_array_full
  <2>3. TypeOK /\ Live = {j \in Slots : flag[j] = 1}
    BY <2>1 DEF Inv, WellTyped, Live
  <2>4. /\ c \in Slots /\ flag[c] = 1 /\ isActive[c] = 1
        /\ terminalNumber[c] = buffer_flag
        /\ parent_process_ID = c /\ page = c /\ esp0 = c
        /\ nxt_term = buffer_flag /\ execute_status[buffer_flag] = 1
        /\ buffer_flag \in Terminals
    BY <2>0, <2>1, <2>3 DEF Inv, Consistent, RunningProcess, Started
  <2>5. i # 0 /\ i # c
    BY <2>1, <2>2, <2>3, <2>4 DEF Inv, Consistent, BootShell
  <2>6. /\ flag' = [flag EXCEPT ![i] = 1]
        /\ current_process_ID' = i /\ parent_process_ID' = i
        /\ parent_PCB' = [parent_PCB EXCEPT ![i] = c]
        /\ page' = i /\ esp0' = i
        /\ execute_status' = execute_status
        /\ isActive' = [isActive EXCEPT ![c] = 0, ![i] = 1]
        /\ terminalNumber' = [terminalNumber EXCEPT ![i] = buffer_flag]
        /\ parent_ESP0' = [parent_ESP0 EXCEPT ![i] = c]
        /\ esp' = [esp EXCEPT ![i] = c]
        /\ mode' = "user"
        /\ UNCHANGED <<PID, PPID, saved_esp, buffer_flag, nxt_term, loop, ret,
                       home, popped, relocated>>
    BY <2>0, <2>3, <2>4, <2>5 DEF ExecuteProgram, sys_call_execute, TypeOK
  <2>7. TypeOK'
    BY <2>2, <2>3, <2>4, <2>6 DEF TypeOK
  <2>8. /\ Live' = {j \in Slots : flag'[j] = 1}
        /\ Live' = Live \cup {i} /\ i \notin Live /\ Started' = Started
    BY <2>2, <2>3, <2>6 DEF Live, Started, TypeOK
  <2>9. RunningProcess'
    BY <2>2, <2>3, <2>4, <2>5, <2>6, <2>8 DEF RunningProcess, TypeOK, Started
  <2>10. ParentsWait'
    <3>1. ASSUME NEW j \in Live, parent_PCB[j] = c PROVE j = c
      BY <2>1, <2>4, <3>1 DEF Inv, Consistent, ParentsWait, HasWaitingParent
    <3>2. HasWaitingParent(i)'
      BY <2>2, <2>3, <2>4, <2>5, <2>6, <2>8 DEF HasWaitingParent, TypeOK, Started
    <3>3. ASSUME NEW j \in Live PROVE HasWaitingParent(j)'
      <4>1. HasWaitingParent(j)
        BY <2>1 DEF Inv, Consistent, ParentsWait
      <4> QED BY <2>2, <2>3, <2>4, <2>5, <2>6, <2>8, <3>1, <4>1 DEF HasWaitingParent, TypeOK
    <3>4. ASSUME NEW j \in Live', NEW k \in Live', SameParent(j, k)' PROVE j = k
      <4>1. ASSUME NEW l \in Live, NEW m \in Live, SameParent(l, m) PROVE l = m
        BY <2>1, <4>1 DEF Inv, Consistent, ParentsWait
      <4> QED BY <2>2, <2>3, <2>6, <2>8, <3>1, <3>4, <4>1 DEF TypeOK, SameParent
    <3> QED BY <2>8, <3>2, <3>3, <3>4 DEF ParentsWait
  <2>11. OneRunnerPerTerminal'
    BY <2>1, <2>2, <2>3, <2>4, <2>5, <2>6, <2>8
       DEF Inv, Consistent, OneRunnerPerTerminal, TypeOK
  <2>12. SavedContext'
    <3>1. ASSUME NEW t \in Started, t # buffer_flag PROVE IsContextOf(t)'
      <4>1. IsContextOf(t)
        BY <2>1, <3>1 DEF Inv, Consistent, SavedContext
      <4> QED BY <2>2, <2>3, <2>4, <2>5, <2>6, <2>8, <3>1, <4>1 DEF TypeOK, IsContextOf
    <3> QED BY <2>6, <2>8, <3>1 DEF SavedContext
  <2>13. BootShell' /\ RestartOnScreen'
    BY <2>1, <2>2, <2>3, <2>4, <2>5, <2>6, <2>8
       DEF Inv, Consistent, BootShell, RestartOnScreen, TypeOK
  <2> QED
    BY <1>1, <2>7, <2>9, <2>10, <2>11, <2>12, <2>13 DEF Inv, WellTyped, Consistent
<1> QED BY <1>2, <1>3

\* Calls of execute that fail, and stuttering, leave the processes alone.
LEMMA UnchangedInv ==
    ASSUME Inv, ret' = ret \/ ret' \in [why : {"invalid", "full"}, eax : {-1, 0}],
           UNCHANGED <<pcb, cpu, term, buffer_flag, nxt_term, mode, loop,
                       home, popped, relocated>>
    PROVE  Inv'
<1> USE DEF pcb, cpu, term
<1>1. Healthy' = Healthy /\ Live' = Live /\ Started' = Started
  BY DEF Healthy, Live, Started
<1>2. WellTyped'
  <2>1. ASSUME TypeOK PROVE TypeOK'
    BY <2>1 DEF TypeOK
  <2> QED BY <1>1, <2>1 DEF Inv, WellTyped
<1>3. RunningProcess' /\ BootShell' /\ RestartOnScreen' /\ StartNeverSpins'
  BY <1>1 DEF Inv, Consistent, RunningProcess, BootShell, RestartOnScreen, StartNeverSpins
<1>4. ParentsWait' /\ OneRunnerPerTerminal' /\ SavedContext'
  BY <1>1 DEF Inv, Consistent, ParentsWait, HasWaitingParent, SameParent,
              OneRunnerPerTerminal, SavedContext, IsContextOf
<1> QED BY <1>2, <1>3, <1>4 DEF Inv, Consistent

Returns == [why : {"none", "invalid", "full", "halt", "exception"}, eax : -1 .. 255]

\* What is saved for the terminal on screen may be anything.
LEMMA OffScreenInv ==
    ASSUME Inv, Healthy, ret' \in Returns,
           PID' \in [Terminals -> Slots], PPID' \in [Terminals -> Slots],
           saved_esp' \in [Terminals -> Slots \cup {BootStack}],
           \A t \in Terminals \ {buffer_flag} :
               PID'[t] = PID[t] /\ PPID'[t] = PPID[t] /\ saved_esp'[t] = saved_esp[t],
           UNCHANGED <<pcb, cpu, execute_status, buffer_flag, nxt_term, mode, loop,
                       home, popped, relocated>>
    PROVE  Inv'
<1> USE DEF pcb, cpu
<1>1. Healthy' = Healthy /\ Live' = Live /\ Started' = Started
  BY DEF Healthy, Live, Started
<1>2. WellTyped'
  BY DEF Inv, WellTyped, TypeOK, Returns
<1>3. RunningProcess' /\ BootShell' /\ RestartOnScreen' /\ StartNeverSpins'
  BY <1>1 DEF Inv, Consistent, RunningProcess, BootShell, RestartOnScreen, StartNeverSpins
<1>4. ParentsWait' /\ OneRunnerPerTerminal'
  BY <1>1 DEF Inv, Consistent, ParentsWait, HasWaitingParent, SameParent,
              OneRunnerPerTerminal
<1>5. ASSUME NEW t \in Started, t # buffer_flag PROVE IsContextOf(t)'
  <2>1. IsContextOf(t)
    BY <1>5 DEF Inv, Consistent, SavedContext
  <2>2. PID'[t] = PID[t] /\ PPID'[t] = PPID[t] /\ saved_esp'[t] = saved_esp[t]
    BY <1>5 DEF Started
  <2> QED BY <1>1, <2>1, <2>2 DEF IsContextOf
<1>6. SavedContext'
  BY <1>1, <1>5 DEF SavedContext
<1> QED BY <1>2, <1>3, <1>4, <1>6 DEF Inv, Consistent

\* A program halts: its parent had no other child and becomes the one active
\* process of the terminal, with its own kernel stack and page.
\* What is saved for the terminal on screen does not matter.
LEMMA HaltedInv ==
    ASSUME Inv, mode = "user", esp[parent_process_ID] \in Slots, HaltCurrent,
           Healthy => ret' \in Returns,
           PID' \in [Terminals -> Slots], PPID' \in [Terminals -> Slots],
           saved_esp' \in [Terminals -> Slots \cup {BootStack}],
           \A t \in Terminals \ {buffer_flag} :
               PID'[t] = PID[t] /\ PPID'[t] = PPID[t] /\ saved_esp'[t] = saved_esp[t],
           UNCHANGED <<execute_status, buffer_flag, nxt_term, mode, loop,
                       home, popped, relocated>>
    PROVE  Inv'
<1> USE Sentinels
<1>1. StartNeverSpins' /\ mode' = "user" /\ mode = "user"
  BY DEF StartNeverSpins
<1>2. CASE ~Healthy'
  BY <1>1, <1>2, Vacuous
<1>3. CASE Healthy'
  <2>0. PICK c, p : c = current_process_ID /\ p = parent_PCB[c]
    BY Zenon
  <2>1. Healthy
    BY <1>1, <1>3 DEF Healthy
  <2>2. TypeOK /\ Live = {j \in Slots : flag[j] = 1}
    BY <1>1, <2>1 DEF Inv, WellTyped, Live
  <2>3. /\ c \in Live /\ isActive[c] = 1 /\ terminalNumber[c] = buffer_flag
        /\ parent_process_ID = c /\ nxt_term = buffer_flag
        /\ buffer_flag \in Started
    BY <2>0, <2>1 DEF Inv, Consistent, RunningProcess
  <2>4. HasWaitingParent(c) /\ esp[c] \in Slots
    BY <2>1, <2>3 DEF Inv, Consistent, ParentsWait
  <2>5. /\ p # c /\ p \in Live /\ isActive[p] = 0
        /\ terminalNumber[p] = buffer_flag /\ parent_ESP0[c] = p
    BY <2>0, <2>3, <2>4 DEF HasWaitingParent, Started
  <2>6. /\ flag' = [flag EXCEPT ![c] = 0]
        /\ isActive' = [isActive EXCEPT ![p] = 1, ![c] = 0]
        /\ terminalNumber' = [terminalNumber EXCEPT ![c] = NoTerminal]
        /\ parent_PCB' = [parent_PCB EXCEPT ![c] = Null]
        /\ esp' = [esp EXCEPT ![c] = Null]
        /\ parent_process_ID' = p /\ current_process_ID' = p
        /\ page' = p /\ esp0' = p
        /\ UNCHANGED <<parent_ESP0, execute_status, buffer_flag,
                       nxt_term, mode, loop, home, popped, relocated>>
    BY <2>0, <2>5 DEF HaltCurrent, ReleasePCB, BecomeParent, term
  <2>7. TypeOK'
    BY <2>1, <2>2, <2>3, <2>5, <2>6 DEF TypeOK, Returns
  <2>8. Live' = Live \ {c} /\ Started' = Started
    BY <1>1, <2>2, <2>3, <2>6 DEF Live, Started, TypeOK
  <2>9. RunningProcess'
    BY <2>2, <2>3, <2>5, <2>6, <2>8 DEF RunningProcess, TypeOK
  <2>10. ParentsWait'
    <3>1. ASSUME NEW j \in Live, j # c PROVE parent_PCB[j] # c
      BY <2>1, <2>3, <3>1 DEF Inv, Consistent, ParentsWait, HasWaitingParent
    <3>2. ASSUME NEW j \in Live, NEW k \in Live, SameParent(j, k) PROVE j = k
      BY <2>1, <3>2 DEF Inv, Consistent, ParentsWait
    <3>3. ASSUME NEW j \in Live, j # c, parent_PCB[j] # j PROVE parent_PCB[j] # p
      BY <2>0, <2>3, <2>5, <3>2, <3>3 DEF SameParent
    <3>4. ASSUME NEW j \in Live, j # c PROVE HasWaitingParent(j)'
      <4>1. HasWaitingParent(j)
        BY <2>1 DEF Inv, Consistent, ParentsWait
      <4>2. /\ j \in Slots /\ parent_PCB[j] \in Slots /\ parent_PCB[j] # c
            /\ parent_PCB[j] \in Live
        BY <2>2, <3>1, <3>4, <4>1 DEF HasWaitingParent
      <4>3. /\ parent_PCB'[j] = parent_PCB[j] /\ esp'[j] = esp[j]
            /\ parent_ESP0'[j] = parent_ESP0[j]
            /\ terminalNumber'[j] = terminalNumber[j]
            /\ terminalNumber'[parent_PCB[j]] = terminalNumber[parent_PCB[j]]
        BY <2>2, <2>6, <3>4, <4>2 DEF TypeOK
      <4>4. ASSUME parent_PCB[j] # j
            PROVE  isActive'[parent_PCB[j]] = isActive[parent_PCB[j]]
        <5>1. parent_PCB[j] # p
          BY <3>3, <3>4, <4>4
        <5>2. isActive \in [Slots -> {0, 1}] /\ isActive' = [isActive EXCEPT ![p] = 1, ![c] = 0]
          BY <2>2, <2>6 DEF TypeOK
        <5> QED BY <4>2, <5>1, <5>2
      <4> QED BY <2>8, <3>4, <4>1, <4>2, <4>3, <4>4 DEF HasWaitingParent
    <3>5. ASSUME NEW j \in Live', NEW k \in Live', SameParent(j, k)' PROVE j = k
      BY <2>2, <2>6, <2>8, <3>2, <3>5 DEF TypeOK, SameParent
    <3> QED BY <2>8, <3>4, <3>5 DEF ParentsWait
  <2>11. OneRunnerPerTerminal'
    <3>1. /\ \A i, j \in Slots : /\ isActive[i] = 1 /\ isActive[j] = 1
                                 /\ terminalNumber[i] = terminalNumber[j]
                                 => i = j
          /\ \A i \in Slots \ Live : isActive[i] = 0 /\ terminalNumber[i] = NoTerminal
      BY <2>1 DEF Inv, Consistent, OneRunnerPerTerminal
    <3> QED BY <2>2, <2>3, <2>5, <2>6, <2>8, <3>1 DEF OneRunnerPerTerminal, TypeOK
  <2>12. SavedContext'
    <3>1. ASSUME NEW t \in Started, t # buffer_flag PROVE IsContextOf(t)'
      <4>1. IsContextOf(t)
        BY <2>1, <3>1 DEF Inv, Consistent, SavedContext
      <4>2. PID'[t] = PID[t] /\ PPID'[t] = PPID[t] /\ saved_esp'[t] = saved_esp[t]
        BY <3>1 DEF Started
      <4>3. PICK d : d = PID[t]
        OBVIOUS
      <4>4. d \in Live /\ isActive[d] = 1 /\ terminalNumber[d] = t /\ d # c /\ d # p
        BY <2>3, <2>5, <3>1, <4>1, <4>3 DEF IsContextOf
      <4>5. d \in Live' /\ isActive'[d] = 1 /\ terminalNumber'[d] = t
        BY <2>2, <2>6, <2>8, <4>4 DEF TypeOK
      <4> QED BY <4>1, <4>2, <4>3, <4>5 DEF IsContextOf
    <3> QED BY <2>6, <2>8, <3>1 DEF SavedContext
  <2>13. BootShell' /\ RestartOnScreen'
    BY <1>1, <2>0, <2>1, <2>2, <2>5, <2>6, <2>8
       DEF Inv, Consistent, BootShell, RestartOnScreen, TypeOK
  <2> QED
    BY <1>1, <2>7, <2>9, <2>10, <2>11, <2>12, <2>13 DEF Inv, WellTyped, Consistent
<1> QED BY <1>2, <1>3

LEMMA HaltStatusInv == ASSUME Inv, NEW s \in 0..255, HaltProgram(s) PROVE Inv'
<1>1. CASE ~Healthy
  <2>1. mode' = mode /\ relocated' = relocated
    BY DEF HaltProgram
  <2>2. StartNeverSpins' /\ ~Healthy'
    BY <1>1, <2>1 DEF Inv, Consistent, StartNeverSpins, Healthy
  <2> QED BY <2>2, Vacuous
<1>2. CASE Healthy
  <2>1. /\ PID \in [Terminals -> Slots] /\ PPID \in [Terminals -> Slots]
        /\ saved_esp \in [Terminals -> Slots \cup {BootStack}]
    BY <1>2 DEF Inv, WellTyped, TypeOK
  <2>2. /\ mode = "user" /\ esp[parent_process_ID] \in Slots /\ HaltCurrent
        /\ ret' \in Returns
        /\ UNCHANGED <<execute_status, PID, PPID, saved_esp, buffer_flag, nxt_term, mode,
                       loop, home, popped, relocated>>
    BY DEF HaltProgram, term, Returns
  <2> QED BY <2>1, <2>2, HaltedInv
<1> QED BY <1>1, <1>2

LEMMA HaltProgramInv == ASSUME Inv, NEW s \in Statuses, HaltProgram(s) PROVE Inv'
<1>1. s \in 0..255
  BY StatusAssumption
<1> QED BY <1>1, HaltStatusInv

\* The shell of a loop exits: it stays live and active until the loop runs it
\* again, with interrupts off.
LEMMA HaltBaseShellInv == Inv /\ HaltBaseShell => Inv'
<1> SUFFICES ASSUME Inv, HaltBaseShell PROVE Inv'
  OBVIOUS
<1> USE Sentinels
<1>1. StartNeverSpins' /\ mode = "user"
  BY DEF HaltBaseShell, StartNeverSpins
<1>2. CASE ~Healthy'
  BY <1>1, <1>2, Vacuous
<1>3. CASE Healthy'
  <2>0. PICK c : c = current_process_ID
    BY Zenon
  <2>1. Healthy /\ mode' = "restart"
    BY <1>1, <1>3 DEF HaltBaseShell, Healthy
  <2>2. TypeOK /\ Live = {j \in Slots : flag[j] = 1}
    BY <1>1, <2>1 DEF Inv, WellTyped, Live
  <2>3. /\ c \in Live /\ isActive[c] = 1 /\ terminalNumber[c] = buffer_flag
        /\ parent_process_ID = c /\ nxt_term = buffer_flag
        /\ buffer_flag \in Started /\ page = c
    BY <2>0, <2>1 DEF Inv, Consistent, RunningProcess
  <2>4. HasWaitingParent(c) /\ esp[c] \in BaseFrames
    BY <2>1, <2>3 DEF Inv, Consistent, ParentsWait, HaltBaseShell
  <2>5. parent_PCB[c] = c /\ esp[c] = BaseFrame(buffer_flag) /\ buffer_flag \in Terminals
    <3>1. esp[c] \notin Slots
      BY <2>4 DEF BaseFrames
    <3> QED BY <2>2, <2>3, <2>4, <3>1 DEF HasWaitingParent, TypeOK
  <2>6. /\ flag' = [flag EXCEPT ![c] = 0]
        /\ esp0' = parent_ESP0[c]
        /\ loop' = buffer_flag
        /\ UNCHANGED <<isActive, terminalNumber, parent_PCB, esp, parent_ESP0,
                       parent_process_ID, current_process_ID, page,
                       execute_status, PID, PPID, saved_esp, buffer_flag,
                       nxt_term, ret, home, popped, relocated>>
    BY <2>0, <2>3, <2>5 DEF HaltBaseShell, HaltCurrent, term
  <2>7. TypeOK'
    BY <2>1, <2>2, <2>3, <2>5, <2>6 DEF TypeOK
  <2>8. Live' = Live /\ Started' = Started
    BY <2>0, <2>1, <2>2, <2>3, <2>6 DEF Live, Started, TypeOK
  <2>9. RunningProcess' /\ BootShell'
    BY <2>0, <2>1, <2>3, <2>6, <2>8 DEF Inv, Consistent, RunningProcess, BootShell
  <2>10. RestartOnScreen'
    BY <2>0, <2>2, <2>3, <2>5, <2>6 DEF RestartOnScreen, TypeOK
  <2>11. ParentsWait' /\ OneRunnerPerTerminal' /\ SavedContext'
    BY <2>1, <2>6, <2>8 DEF Inv, Consistent, ParentsWait, HasWaitingParent, SameParent,
       OneRunnerPerTerminal, SavedContext, IsContextOf
  <2> QED
    BY <1>1, <2>7, <2>9, <2>10, <2>11 DEF Inv, WellTyped, Consistent
<1> QED BY <1>2, <1>3

\* The loop runs the shell again in the slot it had: it is its own parent still.
LEMMA RestartShellInv == Inv /\ RestartShell => Inv'
<1> SUFFICES ASSUME Inv, RestartShell PROVE Inv'
  OBVIOUS
<1> USE Sentinels
<1>1. StartNeverSpins' /\ mode = "restart" /\ mode' = "user"
  BY DEF RestartShell, sys_call_execute, StartNeverSpins
<1>2. CASE ~Healthy'
  BY <1>1, <1>2, Vacuous
<1>3. CASE Healthy'
  <2>0. PICK c : c = current_process_ID
    BY Zenon
  <2>1. Healthy /\ FirstFree = c /\ relocated' \in BOOLEAN
    <3>1. ~(relocated \/ FirstFree # c)
      BY <1>3, <2>0, Zenon DEF RestartShell, Healthy
    <3>2. relocated' \in BOOLEAN
      BY Zenon DEF RestartShell
    <3> QED BY <1>1, <3>1, <3>2 DEF Healthy
  <2>2. TypeOK
    BY <2>1 DEF Inv, WellTyped
  <2>3. /\ c \in Live /\ c \in Slots /\ isActive[c] = 1
        /\ terminalNumber[c] = buffer_flag
        /\ parent_process_ID = c /\ nxt_term = buffer_flag
        /\ execute_status[buffer_flag] = 1 /\ page = c
    BY <2>0, <2>1, <2>2 DEF Inv, Consistent, RunningProcess, Started, TypeOK
  <2>4. /\ parent_PCB[c] = c /\ loop = buffer_flag
        /\ esp0 = parent_ESP0[c]
    BY <1>1, <2>0, <2>1 DEF Inv, Consistent, RestartOnScreen
  <2>5. esp[c] = BaseFrame(buffer_flag)
    BY <2>1, <2>3, <2>4 DEF Inv, Consistent, ParentsWait, HasWaitingParent
  <2>6. /\ flag' = [flag EXCEPT ![c] = 1]
        /\ parent_ESP0' = [parent_ESP0 EXCEPT ![c] = esp0]
        /\ esp0' = c
        /\ UNCHANGED <<isActive, terminalNumber, parent_PCB, esp, execute_status,
                       parent_process_ID, current_process_ID, page,
                       PID, PPID, saved_esp, buffer_flag, nxt_term,
                       loop, ret, home, popped>>
    BY <2>0, <2>1, <2>2, <2>3, <2>4, <2>5 DEF RestartShell, sys_call_execute, TypeOK
  <2>7. Live' = Live /\ Started' = Started
    BY <1>1, <2>0, <2>2, <2>3, <2>6 DEF Live, Started, TypeOK
  <2>8. TypeOK'
    BY <1>1, <2>1, <2>2, <2>3, <2>4, <2>6 DEF TypeOK
  <2>9. RunningProcess' /\ BootShell' /\ RestartOnScreen'
    BY <1>1, <2>0, <2>1, <2>3, <2>6, <2>7
       DEF Inv, Consistent, RunningProcess, BootShell, RestartOnScreen
  <2>10. parent_ESP0' = parent_ESP0
    BY <2>2, <2>3, <2>4, <2>6 DEF TypeOK
  <2>11. ParentsWait' /\ OneRunnerPerTerminal' /\ SavedContext'
    BY <2>1, <2>6, <2>7, <2>10 DEF Inv, Consistent, ParentsWait, HasWaitingParent,
       SameParent, OneRunnerPerTerminal, SavedContext, IsContextOf
  <2> QED
    BY <1>1, <2>8, <2>9, <2>11 DEF Inv, WellTyped, Consistent
<1> QED BY <1>2, <1>3

\* A new process without parent in slot i is the shell of terminal n, which
\* goes on screen; what is saved for the terminal left is the process that ran
\* there.  e is the kernel stack recorded as the one to leave behind: a shell
\* never returns to it.
LEMMA NewShellInv ==
    ASSUME Inv, Healthy, mode = "user", mode' = "user",
           NEW i \in Slots, flag[i] = 0,
           NEW n \in Terminals, execute_status[n] = 0,
           NEW e \in Slots \cup {BootStack},
           flag' = [flag EXCEPT ![i] = 1],
           current_process_ID' = i, parent_process_ID' = i, page' = i, esp0' = i,
           parent_PCB' = [parent_PCB EXCEPT ![i] = i],
           execute_status' = [execute_status EXCEPT ![n] = 1],
           isActive' = [isActive EXCEPT ![i] = 1],
           terminalNumber' = [terminalNumber EXCEPT ![i] = n],
           parent_ESP0' = [parent_ESP0 EXCEPT ![i] = e],
           esp' = [esp EXCEPT ![i] = BaseFrame(n)],
           PID' = [PID EXCEPT ![buffer_flag] = current_process_ID],
           PPID' = [PPID EXCEPT ![buffer_flag] = current_process_ID],
           saved_esp' = [saved_esp EXCEPT ![buffer_flag] = current_process_ID],
           buffer_flag' = n, nxt_term' = n,
           home' = [home EXCEPT ![n] = buffer_flag],
           UNCHANGED <<loop, ret, popped, relocated>>
    PROVE  Inv'
<1> USE Sentinels
<1>0. PICK c, o : c = current_process_ID /\ o = buffer_flag
  BY Zenon
<1>1. StartNeverSpins' /\ mode = "user" /\ mode' = "user" /\ Healthy
  BY DEF StartNeverSpins
<1>2. i \in Slots /\ flag[i] = 0
  OBVIOUS
<1>3. TypeOK /\ Live = {j \in Slots : flag[j] = 1}
  BY <1>1 DEF Inv, WellTyped, Live
<1>4. c \in Live /\ isActive[c] = 1 /\ terminalNumber[c] = o /\ o \in Started
  BY <1>0, <1>1 DEF Inv, Consistent, RunningProcess
<1>5. i # 0 /\ i # c /\ i \notin Live /\ n # o
  BY <1>1, <1>2, <1>3, <1>4 DEF Inv, Consistent, BootShell, Started
<1>6. /\ flag' = [flag EXCEPT ![i] = 1]
      /\ current_process_ID' = i /\ parent_process_ID' = i
      /\ parent_PCB' = [parent_PCB EXCEPT ![i] = i]
      /\ page' = i /\ esp0' = i
      /\ execute_status' = [execute_status EXCEPT ![n] = 1]
      /\ isActive' = [isActive EXCEPT ![i] = 1]
      /\ terminalNumber' = [terminalNumber EXCEPT ![i] = n]
      /\ parent_ESP0' = [parent_ESP0 EXCEPT ![i] = e]
      /\ esp' = [esp EXCEPT ![i] = BaseFrame(n)]
      /\ PID' = [PID EXCEPT ![o] = c]
      /\ PPID' = [PPID EXCEPT ![o] = c]
      /\ saved_esp' = [saved_esp EXCEPT ![o] = c]
      /\ buffer_flag' = n /\ nxt_term' = n
      /\ home' = [home EXCEPT ![n] = o]
      /\ UNCHANGED <<loop, ret, popped, relocated>>
  BY <1>0
<1>7. TypeOK'
  <2>1. o \in Terminals /\ c \in Slots
    BY <1>0, <1>3, <1>4 DEF TypeOK
  <2> QED BY <1>1, <1>2, <1>3, <1>6, <2>1 DEF TypeOK
<1>8. /\ Live' = Live \cup {i} /\ Started' = Started \cup {n}
      /\ n \notin Started
  BY <1>1, <1>2, <1>3, <1>5, <1>6 DEF Live, Started, TypeOK
<1>9. RunningProcess' /\ RestartOnScreen'
  BY <1>1, <1>2, <1>3, <1>6, <1>8 DEF RunningProcess, RestartOnScreen, TypeOK
<1>10. BootShell'
  BY <1>1, <1>3, <1>5, <1>6, <1>8 DEF Inv, Consistent, BootShell, TypeOK
<1>11. ParentsWait'
  <2>1. HasWaitingParent(i)'
    BY <1>2, <1>3, <1>6, <1>8 DEF HasWaitingParent, TypeOK
  <2>2. ASSUME NEW j \in Live PROVE HasWaitingParent(j)'
    <3>1. HasWaitingParent(j)
      BY <1>1 DEF Inv, Consistent, ParentsWait
    <3> QED BY <1>2, <1>3, <1>5, <1>6, <1>8, <3>1 DEF HasWaitingParent, TypeOK
  <2>3. ASSUME NEW j \in Live', NEW k \in Live', SameParent(j, k)' PROVE j = k
    <3>1. ASSUME NEW l \in Live, NEW m \in Live, SameParent(l, m) PROVE l = m
      BY <1>1, <3>1 DEF Inv, Consistent, ParentsWait
    <3> QED BY <1>2, <1>3, <1>6, <1>8, <2>3, <3>1 DEF TypeOK, SameParent
  <2> QED BY <1>8, <2>1, <2>2, <2>3 DEF ParentsWait
<1>12. OneRunnerPerTerminal'
  <2>1. ASSUME NEW j \in Slots PROVE terminalNumber[j] # n
    BY <1>1, <1>3, <1>8 DEF Inv, Consistent, OneRunnerPerTerminal, ParentsWait,
       HasWaitingParent
  <2>2. /\ \A k, j \in Slots : /\ isActive[k] = 1 /\ isActive[j] = 1
                               /\ terminalNumber[k] = terminalNumber[j]
                               => k = j
        /\ \A k \in Slots \ Live : isActive[k] = 0 /\ terminalNumber[k] = NoTerminal
    BY <1>1 DEF Inv, Consistent, OneRunnerPerTerminal
  <2> QED BY <1>2, <1>3, <1>6, <1>8, <2>1, <2>2 DEF OneRunnerPerTerminal, TypeOK
<1>13. SavedContext'
  <2>1. ASSUME NEW t \in Started' \ {n} PROVE IsContextOf(t)'
    <3>1. CASE t = o
      BY <1>0, <1>3, <1>4, <1>5, <1>6, <1>8, <3>1 DEF IsContextOf, TypeOK
    <3>2. CASE t # o
      <4>1. IsContextOf(t) /\ t \in Terminals
        BY <1>0, <1>1, <1>8, <2>1, <3>2 DEF Inv, Consistent, SavedContext, Started
      <4> QED BY <1>0, <1>2, <1>3, <1>5, <1>6, <1>8, <3>2, <4>1 DEF IsContextOf, TypeOK
    <3> QED BY <3>1, <3>2
  <2> QED BY <1>6, <2>1 DEF SavedContext
<1> QED
  BY <1>1, <1>7, <1>9, <1>10, <1>11, <1>12, <1>13 DEF Inv, WellTyped, Consistent

\* The first switch to a terminal starts its shell.
LEMMA StartTerminalInv ==
    ASSUME Inv, NEW n \in Terminals, StartTerminal(n, esp0) PROVE Inv'
<1> USE Sentinels
<1>1. StartNeverSpins' /\ mode = "user" /\ mode' = "user" /\ ~is_PCB_array_full
  BY DEF StartTerminal, SwitchAllowed, sys_call_execute, StartNeverSpins
<1>2. CASE ~Healthy'
  BY <1>1, <1>2, Vacuous
<1>3. CASE Healthy'
  <2>0. PICK i, e : i = FirstFree /\ e = esp0
    BY Zenon
  <2>1. Healthy
    BY <1>1, <1>3 DEF StartTerminal, Healthy
  <2>2. i \in Slots /\ flag[i] = 0
    BY <1>1, <2>0, FirstFreeIsFree DEF is_PCB_array_full
  <2>3. /\ current_process_ID \in Slots /\ parent_process_ID = current_process_ID
        /\ esp0 = current_process_ID /\ execute_status[n] = 0
    BY <1>1, <2>1 DEF Inv, Consistent, RunningProcess, StartTerminal, Live
  <2>4. i # 0
    BY <1>1, <2>1, <2>2 DEF Inv, Consistent, BootShell, Live
  <2>5. /\ flag' = [flag EXCEPT ![i] = 1]
        /\ current_process_ID' = i /\ parent_process_ID' = i
        /\ parent_PCB' = [parent_PCB EXCEPT ![i] = i]
        /\ page' = i /\ esp0' = i
        /\ execute_status' = [execute_status EXCEPT ![n] = 1]
        /\ isActive' = [isActive EXCEPT ![i] = 1]
        /\ terminalNumber' = [terminalNumber EXCEPT ![i] = n]
        /\ parent_ESP0' = [parent_ESP0 EXCEPT ![i] = e]
        /\ esp' = [esp EXCEPT ![i] = BaseFrame(n)]
        /\ PID' = [PID EXCEPT ![buffer_flag] = current_process_ID]
        /\ PPID' = [PPID EXCEPT ![buffer_flag] = current_process_ID]
        /\ saved_esp' = [saved_esp EXCEPT ![buffer_flag] = current_process_ID]
        /\ buffer_flag' = n /\ nxt_term' = n
        /\ home' = [home EXCEPT ![n] = buffer_flag]
        /\ UNCHANGED <<loop, ret, popped, relocated>>
    BY <1>1, <2>0, <2>3, <2>4 DEF StartTerminal, SaveContext, sys_call_execute
  <2>6. e \in Slots \cup {BootStack}
    BY <2>0, <2>3
  <2> QED BY <1>1, <2>1, <2>2, <2>3, <2>5, <2>6, NewShellInv
<1> QED BY <1>2, <1>3

\* The lookup of a background terminal finds the process whose context was saved.
LEMMA LookupIsSaved ==
    ASSUME Inv, Healthy, NEW t \in Started, t # buffer_flag
    PROVE  get_current_process_ID(t) = PID[t]
<1> DEFINE S == {i \in Slots : terminalNumber[i] = t /\ isActive[i] = 1}
<1>1. TypeOK /\ IsContextOf(t) /\ t \in Terminals
  BY DEF Inv, WellTyped, Consistent, SavedContext, Started
<1>2. PID[t] \in S /\ \A j \in S : j = PID[t]
  BY <1>1 DEF Inv, Consistent, OneRunnerPerTerminal, IsContextOf, Live, TypeOK
<1>3. S = {PID[t]}
  BY <1>2, Zenon
<1>4. PID[t] \in Nat
  BY <1>1, Sentinels DEF TypeOK
<1> HIDE DEF S
<1>5. (CHOOSE i \in S : \A j \in S : i <= j) = PID[t]
  BY <1>3, <1>4
<1>6. get_current_process_ID(t) =
        IF S = {} THEN NoProcess ELSE CHOOSE i \in S : \A j \in S : i <= j
  BY Zenon DEF S, get_current_process_ID
<1> QED
  BY <1>3, <1>5, <1>6

\* Switching back to a terminal restores the process that was saved.
LEMMA ResumeTerminalInv ==
    ASSUME Inv, NEW n \in Terminals, ResumeTerminal(n, esp0) PROVE Inv'
<1> USE Sentinels
<1>1. StartNeverSpins' /\ mode = "user"
  BY DEF ResumeTerminal, StartNeverSpins
<1>2. CASE ~Healthy'
  BY <1>1, <1>2, Vacuous
<1>3. CASE Healthy'
  <2>0. PICK p, c, o : p = PID[n] /\ c = current_process_ID /\ o = buffer_flag
    BY Zenon
  <2>1. Healthy /\ relocated' = relocated
    BY <1>1, <1>3 DEF ResumeTerminal, Healthy
  <2>2. TypeOK /\ Live = {j \in Slots : flag[j] = 1}
    BY <1>1, <2>1 DEF Inv, WellTyped, Live
  <2>3. /\ c \in Live /\ isActive[c] = 1 /\ terminalNumber[c] = o
        /\ parent_process_ID = c /\ esp0 = c /\ o \in Started
    BY <1>1, <2>0, <2>1 DEF Inv, Consistent, RunningProcess
  <2>4. n \in Started /\ n # o /\ IsContextOf(n)
    BY <2>0, <2>1 DEF Inv, Consistent, SavedContext, ResumeTerminal, SwitchAllowed, Started
  <2>5. /\ get_current_process_ID(n) = p /\ p \in Slots /\ p # NoProcess /\ PPID[n] = p
        /\ p \in Live /\ isActive[p] = 1 /\ terminalNumber[p] = n
    BY <2>0, <2>1, <2>2, <2>4, LookupIsSaved DEF IsContextOf
  <2>6. /\ current_process_ID' = p /\ parent_process_ID' = p
        /\ page' = p /\ esp0' = p /\ mode' = "user"
        /\ PID' = [PID EXCEPT ![o] = c]
        /\ PPID' = [PPID EXCEPT ![o] = c]
        /\ saved_esp' = [saved_esp EXCEPT ![o] = c]
        /\ buffer_flag' = n /\ nxt_term' = n
        /\ UNCHANGED <<flag, isActive, terminalNumber, parent_PCB, esp, parent_ESP0,
                       execute_status, loop, ret, home, relocated>>
    BY <2>0, <2>3, <2>5 DEF ResumeTerminal, SaveContext, pcb
  <2>7. TypeOK'
    <3>1. popped' \in [Terminals -> BOOLEAN]
      BY Zenon DEF ResumeTerminal
    <3>2. o \in Terminals /\ c \in Slots
      BY <2>0, <2>2, <2>3 DEF TypeOK
    <3> QED BY <2>2, <2>5, <2>6, <3>1, <3>2 DEF TypeOK
  <2>8. Live' = Live /\ Started' = Started
    BY <1>1, <2>2, <2>6 DEF Live, Started
  <2>9. RunningProcess' /\ RestartOnScreen' /\ BootShell'
    BY <2>1, <2>4, <2>5, <2>6, <2>8
       DEF Inv, Consistent, RunningProcess, RestartOnScreen, BootShell
  <2>10. ParentsWait' /\ OneRunnerPerTerminal'
    BY <2>1, <2>6, <2>8 DEF Inv, Consistent, ParentsWait, HasWaitingParent, SameParent,
       OneRunnerPerTerminal
  <2>11. SavedContext'
    <3>1. ASSUME NEW t \in Started, t # n PROVE IsContextOf(t)'
      <4>0. t \in Terminals
        BY DEF Started
      <4>1. CASE t = o
        BY <2>2, <2>3, <2>6, <2>8, <4>0, <4>1 DEF IsContextOf, TypeOK
      <4>2. CASE t # o
        <5>1. IsContextOf(t)
          BY <2>0, <2>1, <4>2 DEF Inv, Consistent, SavedContext
        <5> QED BY <2>2, <2>6, <2>8, <4>0, <4>2, <5>1 DEF IsContextOf, TypeOK
      <4> QED BY <4>1, <4>2
    <3> QED BY <2>6, <2>8, <3>1 DEF SavedContext
  <2> QED
    BY <1>1, <2>7, <2>9, <2>10, <2>11 DEF Inv, WellTyped, Consistent
<1> QED BY <1>2, <1>3

-----------------------------------------------------------------------------
LEMMA NextInv == Inv /\ [Next]_vars => Inv'
<1> SUFFICES ASSUME Inv, [Next]_vars PROVE Inv'
  OBVIOUS
<1>1. CASE ExecuteProgram
  BY <1>1, ExecuteProgramInv
<1>2. CASE ExecuteInvalid
  BY <1>2, UnchangedInv DEF ExecuteInvalid
<1>3. CASE ExecuteFull
  BY <1>3, UnchangedInv DEF ExecuteFull
<1>4. ASSUME NEW s \in Statuses, HaltProgram(s) PROVE Inv'
  BY <1>4, HaltProgramInv
<1>5. CASE HaltBaseShell
  BY <1>5, HaltBaseShellInv
<1>6. CASE RestartShell
  BY <1>6, RestartShellInv
<1>7. ASSUME NEW n \in Terminals, StartTerminal(n, esp0) PROVE Inv'
  BY <1>7, StartTerminalInv
<1>8. ASSUME NEW n \in Terminals, ResumeTerminal(n, esp0) PROVE Inv'
  BY <1>8, ResumeTerminalInv
<1>9. CASE UNCHANGED vars
  BY <1>9, UnchangedInv DEF vars
<1> QED
  BY <1>1, <1>2, <1>3, <1>4, <1>5, <1>6, <1>7, <1>8, <1>9 DEF Next

\* The inductive invariant holds in every reachable state.
THEOREM InvHolds == Spec => []Inv
<1>1. Init => Inv
  BY InitInv
<1>2. Inv /\ [Next]_vars => Inv'
  BY NextInv
<1> QED BY <1>1, <1>2, PTL DEF Spec

\* The state has its type as long as no restarted shell changed its slot and no
\* popped loop was returned to.
THEOREM TypeCorrect == Spec => [](Healthy => TypeOK)
<1>1. Inv => (Healthy => TypeOK)
  BY DEF Inv, WellTyped
<1> QED BY <1>1, InvHolds, PTL

\* execute, halt and switch_terminal keep the current process, its page, its
\* kernel stack and its terminal in agreement.
THEOREM RunningProcessHolds == Spec => []RunningProcess
<1>1. Inv => RunningProcess
  BY DEF Inv, Consistent
<1> QED BY <1>1, InvHolds, PTL

\* A halting program always wakes its one waiting parent.
THEOREM ParentsWaitHolds == Spec => []ParentsWait
<1>1. Inv => ParentsWait
  BY DEF Inv, Consistent
<1> QED BY <1>1, InvHolds, PTL

\* The lookup of switch_terminal is unambiguous.
THEOREM OneRunnerHolds == Spec => []OneRunnerPerTerminal
<1>1. Inv => OneRunnerPerTerminal
  BY DEF Inv, Consistent
<1> QED BY <1>1, InvHolds, PTL

\* A terminal in the background can be resumed where it was left.
THEOREM SavedContextHolds == Spec => []SavedContext
<1>1. Inv => SavedContext
  BY DEF Inv, Consistent
<1> QED BY <1>1, InvHolds, PTL

\* What a program does on one terminal never reaches a process of another one.
THEOREM BackgroundUntouchedHolds == Spec => BackgroundUntouched
<1>1. Inv /\ [Next]_vars => [BackgroundStep]_vars
  <2> SUFFICES ASSUME Inv, Next, Healthy, Healthy', buffer_flag' = buffer_flag,
                      NEW i \in Slots, flag[i] = 1, terminalNumber[i] # buffer_flag
               PROVE  Record(i)' = Record(i)
    BY Zenon DEF BackgroundStep
  <2> USE Sentinels
  <2>0. PICK c : c = current_process_ID
    BY Zenon
  <2>1. TypeOK /\ i \in Live
    BY DEF Inv, WellTyped, Live
  <2>2. /\ c \in Live /\ terminalNumber[c] = buffer_flag /\ parent_process_ID = c
        /\ nxt_term = buffer_flag /\ execute_status[nxt_term] = 1
    BY <2>0, <2>1 DEF Inv, Consistent, RunningProcess, Started, TypeOK
  <2>3. HasWaitingParent(c)
    BY <2>2 DEF Inv, Consistent, ParentsWait
  <2>4. i # c /\ i # parent_PCB[c] /\ c \in Slots
    BY <2>2, <2>3 DEF HasWaitingParent, Live
  <2>5. ASSUME NEW f, sys_call_execute(f, nxt_term), FreeSlots # {} PROVE Record(i)' = Record(i)
    <3>1. PICK j : j = FirstFree
      BY Zenon
    <3>2. j \in Slots /\ flag[j] = 0 /\ i # j
      BY <2>5, <3>1, FirstFreeIsFree
    <3> QED BY <2>0, <2>1, <2>2, <2>4, <2>5, <3>1, <3>2
           DEF sys_call_execute, Record, TypeOK
  <2>6. CASE ExecuteProgram
    BY <2>5, <2>6 DEF ExecuteProgram, is_PCB_array_full
  <2>7. CASE ExecuteInvalid \/ ExecuteFull
    BY <2>7 DEF ExecuteInvalid, ExecuteFull, pcb, Record
  <2>8. CASE HaltCurrent
    BY <2>0, <2>1, <2>4, <2>8 DEF HaltCurrent, ReleasePCB, Record, TypeOK
  <2>9. CASE RestartShell
    <3>1. c \in FreeSlots
      BY <2>0, <2>4, <2>9 DEF Inv, Consistent, RestartOnScreen, RestartShell, FreeSlots
    <3> QED BY <2>5, <2>9, <3>1 DEF RestartShell
  <2>10. ASSUME NEW n \in Terminals, StartTerminal(n, esp0) \/ ResumeTerminal(n, esp0)
         PROVE  FALSE
    BY <2>10 DEF StartTerminal, ResumeTerminal, SwitchAllowed, SaveContext
  <2> QED
    BY <2>6, <2>7, <2>8, <2>9, <2>10 DEF Next, HaltProgram, HaltBaseShell
<1> QED BY <1>1, InvHolds, PTL DEF Spec, BackgroundUntouched
=============================================================================
