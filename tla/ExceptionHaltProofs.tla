------------------------ MODULE ExceptionHaltProofs ------------------------
(***************************************************************************)
(* Proofs about ExceptionHalt for every number of slots and terminals,     *)
(* with Alt+F keys at any point of any halt, as long as no switch has come *)
(* between the restoring of tss.esp0 and the second write of isActive      *)
(* (cut).                                                                  *)
(*                                                                         *)
(* The halt of a faulting process is several steps, during which the       *)
(* process table is inconsistent, and several terminals can each have a    *)
(* halt under way.  The argument looks at a state V in which every halt    *)
(* happens at once, when it releases its slot: before that the process is  *)
(* still active and its parent waits, after it the process is gone and its *)
(* parent runs.  In V the steps are those of ProcessTerminals, so the      *)
(* invariant proved there is kept; Linked says how far the real table and  *)
(* the saved contexts have got.                                            *)
(***************************************************************************)
EXTENDS ExceptionHalt, ProcessTerminalsProofs

\* Terminals whose halt still holds its slot, or has released it; among the
\* latter those whose kernel stack no other process has been given.
Halting == {t \in Terminals : pc[t] \in 1 .. 4}
Leaving == {t \in Terminals : pc[t] \in 5 .. 8}
Kept == Leaving \ lost

Victims == {victim[t] : t \in Halting}
Waiters == {caller[t] : t \in Halting}
Gone == {victim[t] : t \in Kept}

Early == pc[buffer_flag] \in 1 .. 4
Late == pc[buffer_flag] \in 5 .. 8
Busy == pc[buffer_flag] # 0

wasActive ==
    [i \in Slots |-> IF i \in Victims THEN 1
                     ELSE IF i \in Waiters THEN 0 ELSE isActive[i]]
wasTerminal == [i \in Slots |-> IF i \in Gone THEN NoTerminal ELSE terminalNumber[i]]
wasParent == [i \in Slots |-> IF i \in Gone THEN Null ELSE parent_PCB[i]]
wasEsp == [i \in Slots |-> IF i \in Gone THEN Null ELSE esp[i]]
wasCurrent == IF Late THEN caller[buffer_flag] ELSE current_process_ID
wasParentID == IF Late THEN caller[buffer_flag] ELSE parent_process_ID
wasEsp0 == IF Early THEN victim[buffer_flag] ELSE esp0
wasPage == IF Early THEN victim[buffer_flag]
           ELSE IF Late THEN caller[buffer_flag] ELSE page
wasPID == [t \in Terminals |-> IF t \in Leaving THEN caller[t] ELSE PID[t]]
wasPPID == [t \in Terminals |-> IF t \in Leaving THEN caller[t] ELSE PPID[t]]
wasSaved == [t \in Terminals |-> IF t \in Leaving THEN caller[t] ELSE saved_esp[t]]

\* The state in which a halt happens at once, when it releases its slot.
V == INSTANCE ProcessTerminalsProofs WITH
        isActive <- wasActive, terminalNumber <- wasTerminal,
        parent_PCB <- wasParent, esp <- wasEsp,
        parent_process_ID <- wasParentID, current_process_ID <- wasCurrent,
        esp0 <- wasEsp0, page <- wasPage,
        PID <- wasPID, PPID <- wasPPID, saved_esp <- wasSaved

\* What the halt of terminal t, of process c with parent p, has written before
\* it releases the slot, and afterwards.
EarlyRecord(t, c, p) ==
    /\ p # c
    /\ isActive[p] = IF pc[t] >= 3 THEN 1 ELSE 0
    /\ isActive[c] = IF pc[t] <= 3 THEN 1 ELSE 0
    /\ flag[c] = 1 /\ terminalNumber[c] = t
    /\ parent_PCB[c] = p /\ esp[c] = p

LateRecord(t, c, p) ==
    /\ p # c
    /\ isActive[c] = 0 /\ flag[c] = 0
    /\ pc[t] >= 6 => terminalNumber[c] = NoTerminal
    /\ parent_PCB[c] = IF pc[t] <= 7 THEN p ELSE Null
    /\ esp[c] = IF pc[t] <= 7 THEN p ELSE Null

\* The same of the globals, for the halt on screen.
HaltGlobals(c, p) ==
    /\ mode = "user"
    /\ esp0 = IF pc[buffer_flag] = 1 THEN c ELSE p
    /\ parent_process_ID = IF pc[buffer_flag] <= 6 THEN c ELSE p
    /\ current_process_ID = IF pc[buffer_flag] <= 7 THEN c ELSE p

\* And of what was saved for terminal t when it was left during its halt.
HaltSaved(t, c, p) ==
    /\ PID[t] = IF pc[t] <= 7 THEN c ELSE p
    /\ PPID[t] = IF pc[t] <= 6 THEN c ELSE p

TableTyped ==
    /\ flag \in [Slots -> {0, 1}] /\ isActive \in [Slots -> {0, 1}]
    /\ terminalNumber \in [Slots -> Terminals \cup {NoTerminal}]
    /\ parent_PCB \in [Slots -> Slots \cup {Null}]
    /\ esp \in [Slots -> Slots \cup BaseFrames \cup {Null}]

HaltsTyped ==
    /\ pc \in [Terminals -> 0 .. 8]
    /\ victim \in [Terminals -> Slots] /\ caller \in [Terminals -> Slots]
    /\ lost \subseteq Leaving \ {buffer_flag}
    /\ PID \in [Terminals -> Slots] /\ PPID \in [Terminals -> Slots]
    /\ saved_esp \in [Terminals -> Slots \cup {BootStack}]

Linked ==
    Healthy =>
        /\ TableTyped /\ HaltsTyped
        /\ \A t \in Halting \cup Leaving : t \in Started
        /\ \A t \in Halting : EarlyRecord(t, victim[t], caller[t])
        /\ \A t \in Kept : LateRecord(t, victim[t], caller[t])
        /\ \A t \in Halting \ {buffer_flag} : pc[t] \in {1, 4}
        /\ \A t \in (Halting \cup Kept) \ {buffer_flag} : HaltSaved(t, victim[t], caller[t])
        /\ \A t, u \in Kept : victim[t] = victim[u] => t = u
        /\ Busy => HaltGlobals(victim[buffer_flag], caller[buffer_flag])

Sound == V!Inv /\ Linked

XInv == ~cut => Sound

-----------------------------------------------------------------------------
\* The assumptions on the constants hold of the instance.
LEMMA VAssumptions ==
    /\ SIZE_OF_PCB_ARRAY \in 1 .. 69 /\ NUM_TERMINALS \in 1 .. 255
    /\ Statuses \subseteq 0 .. 255 /\ 0 \in Statuses
BY SlotsAssumption, TerminalsAssumption, StatusAssumption

\* What the instance has in common with the module itself.
LEMMA VSame ==
    /\ V!Slots = Slots /\ V!Terminals = Terminals
    /\ V!NoTerminal = NoTerminal /\ V!Null = Null /\ V!BootStack = BootStack
    /\ V!NoProcess = NoProcess /\ V!BaseFrames = BaseFrames
    /\ \A t : V!BaseFrame(t) = BaseFrame(t)
    /\ (V!Healthy <=> Healthy) /\ V!Started = Started
    /\ V!FirstFree = FirstFree /\ V!FreeSlots = FreeSlots
    /\ V!Returns = Returns
<1>1. /\ V!Slots = Slots /\ V!Terminals = Terminals
      /\ V!NoTerminal = NoTerminal /\ V!Null = Null /\ V!BootStack = BootStack
      /\ V!NoProcess = NoProcess /\ V!BaseFrames = BaseFrames
      /\ \A t : V!BaseFrame(t) = BaseFrame(t)
      /\ (V!Healthy <=> Healthy) /\ V!Started = Started /\ V!Returns = Returns
  BY DEF V!Slots, Slots, V!Terminals, Terminals, V!NoTerminal, NoTerminal, V!Null, Null,
         V!BootStack, BootStack, V!NoProcess, NoProcess, V!BaseFrames, BaseFrames,
         V!BaseFrame, BaseFrame, V!Healthy, Healthy, V!Started, Started,
         V!Returns, Returns
<1>2. V!FreeSlots = FreeSlots
  BY <1>1 DEF V!FreeSlots, FreeSlots
<1>3. V!FirstFree = FirstFree
  BY <1>2 DEF V!FirstFree, FirstFree
<1> QED BY <1>1, <1>2, <1>3

\* The invariant of ProcessTerminals, in the state V.
LEMMA VNextInv == V!Inv /\ [V!Next]_(V!vars) => V!Inv'
BY V!NextInv, VAssumptions

LEMMA VUnchanged ==
    ASSUME V!Inv, ret' = ret \/ ret' \in [why : {"invalid", "full"}, eax : {-1, 0}],
           UNCHANGED <<V!pcb, V!cpu, V!term, buffer_flag, nxt_term, mode, loop,
                       home, popped, relocated>>
    PROVE  V!Inv'
BY V!UnchangedInv, VAssumptions

LEMMA VVacuous == mode' # "spin" /\ ~Healthy' => V!Inv'
BY V!Vacuous, VSame, VAssumptions DEF V!StartNeverSpins, V!Healthy, Healthy

-----------------------------------------------------------------------------
\* What Linked and the invariant of V say of all halts.
LEMMA LinkedFacts ==
    ASSUME Sound, Healthy
    PROVE  /\ TableTyped /\ HaltsTyped /\ V!TypeOK /\ buffer_flag \in Terminals
           /\ \A t \in Halting \cup Leaving : t \in Started /\ t \in Terminals
           /\ \A t \in Halting : EarlyRecord(t, victim[t], caller[t])
           /\ \A t \in Kept : LateRecord(t, victim[t], caller[t])
           /\ \A t \in Halting \ {buffer_flag} : pc[t] \in {1, 4}
           /\ \A t \in (Halting \cup Kept) \ {buffer_flag} :
                  HaltSaved(t, victim[t], caller[t])
           /\ \A t, u \in Kept : victim[t] = victim[u] => t = u
           /\ Busy => HaltGlobals(victim[buffer_flag], caller[buffer_flag])
           /\ Late => buffer_flag \in Kept
<1>1. V!TypeOK /\ buffer_flag \in Terminals
  BY VSame DEF Sound, V!Inv, V!WellTyped, V!TypeOK
<1>2. \A t \in Halting \cup Leaving : t \in Terminals
  BY DEF Halting, Leaving
<1>3. TableTyped /\ HaltsTyped
  BY DEF Sound, Linked
<1>4. Late => buffer_flag \in Kept
  BY <1>1, <1>3 DEF Late, Kept, Leaving, HaltsTyped
<1> QED BY <1>1, <1>2, <1>3, <1>4 DEF Sound, Linked

\* A slot that a halt has released is free, and nobody's victim or waiter.
LEMMA GoneFacts ==
    ASSUME Sound, Healthy, NEW i \in Gone
    PROVE  /\ i \in Slots /\ flag[i] = 0 /\ isActive[i] = 0
           /\ wasTerminal[i] = NoTerminal /\ wasParent[i] = Null /\ wasEsp[i] = Null
<1>1. PICK t \in Kept : i = victim[t]
  BY DEF Gone
<1>2. LateRecord(t, i, caller[t]) /\ t \in Terminals /\ HaltsTyped
  BY <1>1, LinkedFacts DEF Kept
<1>3. i \in Slots
  BY <1>1, <1>2 DEF HaltsTyped
<1> QED BY <1>2, <1>3 DEF LateRecord, wasTerminal, wasParent, wasEsp

\* What is known of the process that runs in V.
LEMMA Runner ==
    ASSUME Sound, Healthy, NEW r, r = wasCurrent
    PROVE  /\ r \in V!Live /\ r \in Slots /\ wasActive[r] = 1
           /\ wasTerminal[r] = buffer_flag /\ wasParentID = r /\ wasPage = r
           /\ nxt_term = buffer_flag /\ buffer_flag \in Started
           /\ execute_status[buffer_flag] = 1
           /\ mode = "user" => wasEsp0 = r /\ flag[r] = 1
           /\ r \notin Gone /\ terminalNumber[r] = buffer_flag
<1> USE VSame
<1>1. /\ r \in V!Live /\ wasActive[r] = 1
      /\ wasTerminal[r] = buffer_flag /\ wasParentID = r /\ wasPage = r
      /\ nxt_term = buffer_flag /\ buffer_flag \in Started
      /\ mode = "user" => wasEsp0 = r
  BY DEF Sound, V!Inv, V!Consistent, V!RunningProcess
<1>2. r \in Slots /\ (mode = "user" => flag[r] = 1)
  BY <1>1 DEF V!Live
<1>3. buffer_flag \in Terminals /\ execute_status[buffer_flag] = 1
  BY <1>1 DEF Started
<1>4. r \notin Gone
  BY <1>1, <1>3, GoneFacts, Sentinels
<1>5. terminalNumber[r] = buffer_flag
  BY <1>1, <1>2, <1>4 DEF wasTerminal
<1> QED BY <1>1, <1>2, <1>3, <1>4, <1>5

\* What is known of a process c that is about to release its slot on terminal t,
\* and of its parent p.
LEMMA EarlyFacts ==
    ASSUME Sound, Healthy, NEW t \in Halting, NEW c, NEW p, c = victim[t], p = caller[t]
    PROVE  /\ t \in Terminals /\ c \in Slots /\ p \in Slots /\ p # c /\ c \in Victims
           /\ EarlyRecord(t, c, p)
           /\ c \notin Gone /\ p \notin Gone /\ p \notin Victims
           /\ wasActive[c] = 1 /\ wasTerminal[c] = t
           /\ wasParent[c] = p /\ wasEsp[c] = p /\ parent_ESP0[c] = p
           /\ flag[c] = 1 /\ flag[p] = 1 /\ terminalNumber[c] = t /\ terminalNumber[p] = t
           /\ wasActive[p] = 0 /\ wasTerminal[p] = t
<1> USE VSame
<1>1. EarlyRecord(t, c, p) /\ t \in Terminals /\ HaltsTyped
  BY LinkedFacts DEF Halting
<1>2. c \in Slots /\ p \in Slots /\ p # c /\ c \in Victims
      /\ flag[c] = 1 /\ terminalNumber[c] = t /\ parent_PCB[c] = p /\ esp[c] = p
  BY <1>1 DEF HaltsTyped, EarlyRecord, Victims
<1>3. c \notin Gone
  BY <1>2, GoneFacts
<1>4. /\ wasActive[c] = 1 /\ wasTerminal[c] = t
      /\ wasParent[c] = p /\ wasEsp[c] = p
  BY <1>2, <1>3 DEF wasActive, wasTerminal, wasParent, wasEsp
<1>5. V!HasWaitingParent(c)
  <2>1. c \in V!Live
    BY <1>2 DEF V!Live
  <2> QED BY <2>1 DEF Sound, V!Inv, V!Consistent, V!ParentsWait
<1>6. p \in V!Live /\ wasTerminal[p] = t /\ wasActive[p] = 0 /\ parent_ESP0[c] = p
  BY <1>2, <1>4, <1>5 DEF V!HasWaitingParent
<1>7. flag[p] = 1
  <2>1. wasActive[wasCurrent] = 1
    BY Runner
  <2> QED BY <1>6, <2>1 DEF V!Live
<1>8. p \notin Gone
  BY <1>7, GoneFacts
<1>9. p \notin Victims
  BY <1>2, <1>6 DEF wasActive
<1>10. terminalNumber[p] = t
  BY <1>2, <1>6, <1>8 DEF wasTerminal
<1> QED BY <1>1, <1>2, <1>3, <1>4, <1>6, <1>7, <1>8, <1>9, <1>10

\* Victims and waiters are live, and their terminals tell them apart.
LEMMA Bystanders ==
    ASSUME Sound, Healthy, NEW i \in Victims \cup Waiters
    PROVE  /\ i \in Slots /\ flag[i] = 1 /\ i \notin Gone
           /\ \E t \in Halting : terminalNumber[i] = t /\ wasTerminal[i] = t
                                 /\ i \in {victim[t], caller[t]}
<1>1. PICK t \in Halting : i = victim[t] \/ i = caller[t]
  BY DEF Victims, Waiters
<1>2. PICK c, p : c = victim[t] /\ p = caller[t]
  BY Zenon
<1>3. /\ c \in Slots /\ p \in Slots /\ flag[c] = 1 /\ flag[p] = 1
      /\ c \notin Gone /\ p \notin Gone
      /\ terminalNumber[c] = t /\ terminalNumber[p] = t
      /\ wasTerminal[c] = t /\ wasTerminal[p] = t
  BY <1>2, EarlyFacts
<1> QED BY <1>1, <1>2, <1>3

\* The halts of two terminals have nothing in common.
LEMMA HaltsApart ==
    ASSUME Sound, Healthy, NEW t \in Halting, NEW u \in Halting, t # u
    PROVE  /\ victim[t] # victim[u] /\ caller[t] # caller[u]
           /\ victim[t] # caller[u] /\ victim[t] # caller[t]
<1>0. PICK c, p, d, q : c = victim[t] /\ p = caller[t] /\ d = victim[u] /\ q = caller[u]
  BY Zenon
<1>1. wasTerminal[c] = t /\ wasTerminal[p] = t /\ p # c
  BY <1>0, EarlyFacts
<1>2. wasTerminal[d] = u /\ wasTerminal[q] = u
  BY <1>0, EarlyFacts
<1> QED BY <1>0, <1>1, <1>2

-----------------------------------------------------------------------------
\* A step that leaves the record of slot i alone.
SlotSame(i) ==
    /\ flag'[i] = flag[i] /\ isActive'[i] = isActive[i]
    /\ terminalNumber'[i] = terminalNumber[i]
    /\ parent_PCB'[i] = parent_PCB[i] /\ esp'[i] = esp[i]

\* A step of no halt: the halts stand where they stood, but one whose slot is
\* taken has lost its stack.
LEMMA HaltsKept ==
    ASSUME Sound, Healthy, UNCHANGED <<pc, victim, caller>>, StacksTaken,
           flag' \in [Slots -> {0, 1}]
    PROVE  /\ Halting' = Halting /\ Leaving' = Leaving
           /\ Victims' = Victims /\ Waiters' = Waiters
           /\ Kept' = {t \in Kept : flag'[victim[t]] = 0}
           /\ Gone' = {i \in Gone : flag'[i] = 0}
           /\ lost' \subseteq Leaving
<1>1. Halting' = Halting /\ Leaving' = Leaving
  BY DEF Halting, Leaving
<1>2. Victims' = Victims /\ Waiters' = Waiters
  BY <1>1 DEF Victims, Waiters
<1>3. HaltsTyped /\ \A t \in Kept : LateRecord(t, victim[t], caller[t])
  BY LinkedFacts
<1>4. \A t \in Kept : t \in Terminals /\ pc[t] # 0 /\ flag[victim[t]] = 0 /\ victim[t] \in Slots
  BY <1>3 DEF Kept, Leaving, LateRecord, HaltsTyped
<1>5. lost' = lost \cup {t \in Terminals :
                            pc[t] # 0 /\ flag[victim[t]] = 0 /\ flag'[victim[t]] = 1}
  BY DEF StacksTaken
<1>6. Kept' = {t \in Kept : flag'[victim[t]] = 0}
  <2>1. ASSUME NEW t \in Kept' PROVE t \in Kept /\ flag'[victim[t]] = 0
    <3>1. t \in Leaving /\ t \notin lost'
      BY <1>1, <2>1 DEF Kept
    <3>2. t \in Kept
      BY <1>5, <3>1 DEF Kept
    <3> QED BY <1>4, <1>5, <3>1, <3>2
  <2>2. ASSUME NEW t \in Kept, flag'[victim[t]] = 0 PROVE t \in Kept'
    <3>1. t \in Leaving /\ t \notin lost
      BY <2>2 DEF Kept
    <3>2. t \notin lost'
      BY <1>5, <2>2, <3>1
    <3> QED BY <1>1, <3>1, <3>2 DEF Kept
  <2> QED BY <2>1, <2>2
<1>7. Gone' = {i \in Gone : flag'[i] = 0}
  BY <1>6 DEF Gone
<1>8. ASSUME NEW t \in lost' PROVE t \in Leaving
  <2>1. CASE t \in lost
    BY <1>3, <2>1 DEF HaltsTyped
  <2>2. CASE t \notin lost
    <3>1. t \in Terminals /\ pc[t] # 0 /\ flag[victim[t]] = 0 /\ pc[t] \in 0 .. 8
      BY <1>3, <1>5, <1>8, <2>2 DEF HaltsTyped
    <3>2. t \notin Halting
      BY <3>1, EarlyFacts
    <3> QED BY <3>1, <3>2 DEF Halting, Leaving
  <2> QED BY <2>1, <2>2
<1> QED BY <1>1, <1>2, <1>6, <1>7, <1>8

\* Such a step keeps Linked, whatever it does to other processes.
LEMMA LinkedKept ==
    ASSUME Sound, Healthy, UNCHANGED <<pc, victim, caller>>, StacksTaken, TableTyped',
           PID' \in [Terminals -> Slots], PPID' \in [Terminals -> Slots],
           saved_esp' \in [Terminals -> Slots \cup {BootStack}],
           \A i \in Victims \cup Waiters : SlotSame(i),
           \A i \in Gone : flag'[i] = 0 => SlotSame(i),
           \A t \in Halting \cup Leaving : t \in Started',
           buffer_flag' \notin lost',
           \A t \in Halting \ {buffer_flag'} : pc[t] \in {1, 4},
           \A t \in (Halting \cup Kept) \ {buffer_flag'} : HaltSaved(t, victim[t], caller[t])',
           Busy' => HaltGlobals(victim[buffer_flag], caller[buffer_flag])'
    PROVE  Linked'
<1>1. /\ Halting' = Halting /\ Leaving' = Leaving
      /\ Kept' = {t \in Kept : flag'[victim[t]] = 0}
      /\ Gone' = {i \in Gone : flag'[i] = 0}
      /\ lost' \subseteq Leaving
  BY HaltsKept DEF TableTyped
<1>2. HaltsTyped'
  <2>1. /\ pc \in [Terminals -> 0 .. 8]
        /\ victim \in [Terminals -> Slots] /\ caller \in [Terminals -> Slots]
    BY LinkedFacts DEF HaltsTyped
  <2> QED BY <1>1, <2>1 DEF HaltsTyped
<1>3. ASSUME NEW t \in Halting PROVE EarlyRecord(t, victim[t], caller[t])'
  <2>0. PICK c, p : c = victim[t] /\ p = caller[t]
    BY Zenon
  <2>1. EarlyRecord(t, c, p)
    BY <2>0, EarlyFacts
  <2>2. SlotSame(c) /\ SlotSame(p)
    BY <2>0 DEF Victims, Waiters
  <2>3. EarlyRecord(t, c, p)'
    BY <2>1, <2>2 DEF EarlyRecord, SlotSame
  <2> QED BY <2>0, <2>3
<1>4. ASSUME NEW t \in Kept' PROVE LateRecord(t, victim[t], caller[t])'
  <2>0. PICK c, p : c = victim[t] /\ p = caller[t]
    BY Zenon
  <2>1. t \in Kept /\ flag'[c] = 0 /\ c \in Gone
    BY <1>1, <1>4, <2>0 DEF Gone
  <2>2. LateRecord(t, c, p) /\ SlotSame(c)
    BY <2>0, <2>1, LinkedFacts
  <2>3. LateRecord(t, c, p)'
    BY <2>2 DEF LateRecord, SlotSame
  <2> QED BY <2>0, <2>3
<1>5. \A t, u \in Kept' : victim'[t] = victim'[u] => t = u
  BY <1>1, LinkedFacts
<1>6. \A t \in (Halting' \cup Kept') \ {buffer_flag'} : HaltSaved(t, victim[t], caller[t])'
  BY <1>1
<1>7. \A t \in Halting' \ {buffer_flag'} : pc'[t] \in {1, 4}
  BY <1>1
<1>8. \A t \in Halting' \cup Leaving' : t \in Started'
  BY <1>1
<1> QED BY <1>1, <1>2, <1>3, <1>4, <1>5, <1>6, <1>7, <1>8 DEF Linked

\* What is known of the process that runs when no halt is on screen.
LEMMA Running ==
    ASSUME Sound, Healthy, ~Busy, NEW c, NEW b, c = current_process_ID, b = buffer_flag
    PROVE  /\ b \in Terminals /\ nxt_term = b /\ execute_status[b] = 1 /\ b \in Started
           /\ c \in V!Live /\ c \in Slots /\ b \notin Halting \cup Leaving
           /\ isActive[c] = 1 /\ wasActive[c] = 1
           /\ terminalNumber[c] = b /\ wasTerminal[c] = b
           /\ wasParent[c] = parent_PCB[c] /\ wasEsp[c] = esp[c]
           /\ parent_process_ID = c /\ page = c
           /\ mode = "user" => esp0 = c /\ flag[c] = 1
           /\ c \notin Victims \cup Waiters \cup Gone
           /\ wasCurrent = c /\ wasParentID = c /\ wasEsp0 = esp0 /\ wasPage = c
           /\ TableTyped /\ HaltsTyped /\ V!TypeOK
<1> USE VSame
<1>1. TableTyped /\ HaltsTyped /\ V!TypeOK /\ b \in Terminals
  BY LinkedFacts
<1>2. wasCurrent = c /\ wasParentID = parent_process_ID /\ wasEsp0 = esp0 /\ wasPage = page
      /\ b \notin Halting \cup Leaving
  BY <1>1 DEF wasCurrent, wasParentID, wasEsp0, wasPage, Early, Late, Busy, Halting, Leaving
<1>3. /\ c \in V!Live /\ c \in Slots /\ wasActive[c] = 1
      /\ wasTerminal[c] = b /\ wasParentID = c /\ wasPage = c
      /\ nxt_term = b /\ b \in Started /\ execute_status[b] = 1
      /\ mode = "user" => wasEsp0 = c /\ flag[c] = 1
      /\ c \notin Gone /\ terminalNumber[c] = b
  BY <1>2, Runner
<1>4. c \notin Victims \cup Waiters
  BY <1>2, <1>3, Bystanders
<1>5. isActive[c] = 1
  BY <1>3, <1>4 DEF wasActive
<1>6. wasParent[c] = parent_PCB[c] /\ wasEsp[c] = esp[c]
  BY <1>3 DEF wasParent, wasEsp
<1> QED BY <1>1, <1>2, <1>3, <1>4, <1>5, <1>6

\* A step after which no halt is on screen and the saved contexts are as before.
LEMMA SettledAfter ==
    ASSUME ~Busy', UNCHANGED <<pc, caller, PID, PPID, saved_esp, buffer_flag>>
    PROVE  /\ wasCurrent' = current_process_ID' /\ wasParentID' = parent_process_ID'
           /\ wasEsp0' = esp0' /\ wasPage' = page'
           /\ wasPID' = wasPID /\ wasPPID' = wasPPID /\ wasSaved' = wasSaved
<1>1. ~Early' /\ ~Late' /\ Leaving' = Leaving
  BY DEF Early, Late, Busy, Leaving
<1> QED BY <1>1 DEF wasCurrent, wasParentID, wasEsp0, wasPage, wasPID, wasPPID, wasSaved

\* The halts in the background when a program of the terminal on screen acts.
LEMMA SavedKept ==
    ASSUME Sound, Healthy, ~Busy,
           UNCHANGED <<pc, victim, caller, PID, PPID, saved_esp, buffer_flag>>,
           \A t \in Started : t \in Started'
    PROVE  /\ PID' \in [Terminals -> Slots] /\ PPID' \in [Terminals -> Slots]
           /\ saved_esp' \in [Terminals -> Slots \cup {BootStack}]
           /\ \A t \in Halting \cup Leaving : t \in Started'
           /\ \A t \in Halting \ {buffer_flag'} : pc[t] \in {1, 4}
           /\ \A t \in (Halting \cup Kept) \ {buffer_flag'} :
                  HaltSaved(t, victim[t], caller[t])'
           /\ ~Busy'
<1>1. HaltsTyped /\ \A t \in Halting \cup Leaving : t \in Started
  BY LinkedFacts
<1>2. ASSUME NEW t \in (Halting \cup Kept) \ {buffer_flag'}
      PROVE  HaltSaved(t, victim[t], caller[t])'
  <2>1. HaltSaved(t, victim[t], caller[t])
    BY LinkedFacts
  <2> QED BY <2>1 DEF HaltSaved
<1>3. \A t \in Halting \ {buffer_flag'} : pc[t] \in {1, 4}
  BY LinkedFacts
<1>4. ~Busy'
  BY DEF Busy
<1> QED BY <1>1, <1>2, <1>3, <1>4 DEF HaltsTyped

-----------------------------------------------------------------------------
(***************************************************************************)
(* The actions of ProcessTerminals, when no halt is on screen, are the     *)
(* same actions in the state V.                                            *)
(***************************************************************************)
LEMMA ExecuteX ==
    ASSUME Sound, ~Busy, ExecuteProgram, UNCHANGED <<pc, victim, caller>>, StacksTaken,
           Healthy'
    PROVE  Sound'
<1>0. PICK i, c, b : i = FirstFree /\ c = current_process_ID /\ b = buffer_flag
  BY Zenon
<1>1. Healthy /\ mode = "user" /\ mode' = "user" /\ FreeSlots # {}
  BY DEF ExecuteProgram, sys_call_execute, is_PCB_array_full, Healthy
<1>2. i \in Slots /\ flag[i] = 0
  BY <1>0, <1>1, FirstFreeIsFree
<1>3. /\ b \in Terminals /\ nxt_term = b /\ execute_status[b] = 1
      /\ c \in Slots /\ flag[c] = 1 /\ terminalNumber[c] = b /\ wasTerminal[c] = b
      /\ parent_process_ID = c /\ esp0 = c
      /\ c \notin Victims \cup Waiters \cup Gone
      /\ wasCurrent = c /\ wasParentID = c /\ wasEsp0 = c
      /\ TableTyped /\ V!TypeOK /\ b \notin Leaving
  BY <1>0, <1>1, Running
<1>4. i # 0 /\ i # c /\ i \notin Victims \cup Waiters
  <2>1. flag[0] = 1
    BY <1>1, VSame DEF Sound, V!Inv, V!Consistent, V!BootShell, V!Live
  <2> QED BY <1>1, <1>2, <1>3, <2>1, Bystanders
<1>5. /\ flag' = [flag EXCEPT ![i] = 1]
      /\ current_process_ID' = i /\ parent_process_ID' = i
      /\ parent_PCB' = [parent_PCB EXCEPT ![i] = c]
      /\ page' = i /\ esp0' = i
      /\ execute_status' = execute_status
      /\ isActive' = [isActive EXCEPT ![c] = 0, ![i] = 1]
      /\ terminalNumber' = [terminalNumber EXCEPT ![i] = b]
      /\ parent_ESP0' = [parent_ESP0 EXCEPT ![i] = c]
      /\ esp' = [esp EXCEPT ![i] = c]
      /\ UNCHANGED <<PID, PPID, saved_esp, buffer_flag, nxt_term, loop, ret,
                     home, popped, relocated>>
  <2>1. execute_status \in [Terminals -> {0, 1}]
    BY <1>3, VSame DEF V!TypeOK
  <2>2. sys_call_execute(c, b) /\ execute_status = [execute_status EXCEPT ![b] = 1]
    BY <1>0, <1>3, <2>1 DEF ExecuteProgram
  <2>3. parent_process_ID = c /\ execute_status[b] # 0 /\ i = FirstFree /\ esp0 = c
        /\ terminalNumber[c] = b
    BY <1>0, <1>3
  <2>4. UNCHANGED <<PID, PPID, saved_esp, buffer_flag, nxt_term, loop, ret,
                    home, popped, relocated>>
    BY DEF ExecuteProgram
  <2> QED BY <1>4, <2>2, <2>3, <2>4 DEF sys_call_execute
<1>6. ASSUME NEW j \in Slots, j # i, j # c PROVE SlotSame(j)
  BY <1>3, <1>5, <1>6 DEF TableTyped, SlotSame
<1>7. ASSUME NEW j \in Victims \cup Waiters PROVE j \in Slots /\ j # i /\ j # c
  BY <1>1, <1>3, <1>4, Bystanders
<1>8. TableTyped'
  BY <1>2, <1>3, <1>5 DEF TableTyped
<1>9. /\ Victims' = Victims /\ Waiters' = Waiters /\ Gone' = Gone \ {i}
      /\ buffer_flag' \notin lost'
  <2>1. /\ Victims' = Victims /\ Waiters' = Waiters
        /\ Gone' = {j \in Gone : flag'[j] = 0} /\ lost' \subseteq Leaving
    BY <1>1, <1>8, HaltsKept DEF TableTyped
  <2>2. \A j \in Gone : j \in Slots /\ flag[j] = 0
    BY <1>1, GoneFacts
  <2>3. \A j \in Gone : flag'[j] = 0 <=> j # i
    BY <1>2, <1>3, <1>5, <2>2 DEF TableTyped
  <2> QED BY <1>0, <1>3, <1>5, <2>1, <2>3
<1>10. ASSUME NEW j \in Gone, flag'[j] = 0 PROVE SlotSame(j)
  <2>1. j \in Slots /\ flag[j] = 0
    BY <1>1, GoneFacts
  <2>2. j # i
    BY <1>2, <1>3, <1>5, <1>10 DEF TableTyped
  <2> QED BY <1>3, <1>6, <2>1, <2>2
<1>11. \A t \in Started : t \in Started'
  BY <1>5 DEF Started
<1>12. Linked'
  BY <1>1, <1>5, <1>6, <1>7, <1>8, <1>9, <1>10, <1>11, SavedKept, LinkedKept
<1>13. wasActive' = [wasActive EXCEPT ![c] = 0, ![i] = 1]
  BY <1>2, <1>3, <1>4, <1>5, <1>6, <1>9 DEF wasActive, TableTyped
<1>14. /\ wasTerminal' = [wasTerminal EXCEPT ![i] = b]
       /\ wasParent' = [wasParent EXCEPT ![i] = c]
       /\ wasEsp' = [wasEsp EXCEPT ![i] = c]
  BY <1>2, <1>3, <1>5, <1>9 DEF wasTerminal, wasParent, wasEsp, TableTyped
<1>15. /\ wasCurrent' = i /\ wasParentID' = i /\ wasEsp0' = i /\ wasPage' = i
       /\ UNCHANGED <<wasPID, wasPPID, wasSaved>>
  <2>1. ~Busy'
    BY <1>5 DEF Busy
  <2> QED BY <1>5, <2>1, SettledAfter
<1>16. V!FirstFree = i /\ ~V!is_PCB_array_full
  BY <1>0, <1>1, VSame DEF V!is_PCB_array_full
<1>17. V!sys_call_execute(wasEsp0, nxt_term)
  <2>1. execute_status = [execute_status EXCEPT ![b] = 1]
    BY <1>3, VSame DEF V!TypeOK
  <2>2. /\ nxt_term = b /\ execute_status[b] # 0 /\ wasParentID = c /\ wasEsp0 = c
        /\ wasTerminal[c] = b
    BY <1>3
  <2> QED BY <1>1, <1>4, <1>5, <1>13, <1>14, <1>15, <1>16, <2>1, <2>2
             DEF V!sys_call_execute
<1>18. V!ExecuteProgram
  BY <1>1, <1>5, <1>15, <1>16, <1>17 DEF V!ExecuteProgram
<1>19. V!Inv'
  BY <1>18, VNextInv DEF Sound, V!Next
<1> QED BY <1>12, <1>19 DEF Sound

\* A step that frees the slot of the process on screen and takes none.
LEMMA FreeingKeeps ==
    ASSUME Sound, Healthy, ~Busy, UNCHANGED <<pc, victim, caller>>, StacksTaken, TableTyped',
           NEW c, NEW p \in Slots, c = current_process_ID,
           p \notin Victims \cup Waiters \cup Gone,
           \A j \in Slots : j # c /\ j # p => SlotSame(j),
           UNCHANGED <<PID, PPID, saved_esp, execute_status, buffer_flag>>
    PROVE  /\ Linked' /\ Victims' = Victims /\ Waiters' = Waiters /\ Gone' = Gone
           /\ \A j \in Victims \cup Waiters \cup Gone : j \in Slots /\ j # c /\ j # p
<1>1. c \in Slots /\ c \notin Victims \cup Waiters \cup Gone /\ buffer_flag \notin Leaving
  BY Running
<1>2. ASSUME NEW j \in Victims \cup Waiters \cup Gone PROVE j \in Slots /\ j # c /\ j # p
  BY <1>1, Bystanders, GoneFacts
<1>3. \A j \in Gone : flag[j] = 0 /\ flag'[j] = flag[j]
  BY <1>2, GoneFacts DEF SlotSame
<1>4. /\ Victims' = Victims /\ Waiters' = Waiters /\ Gone' = Gone /\ lost' \subseteq Leaving
  BY <1>3, HaltsKept DEF TableTyped
<1>5. \A t \in Started : t \in Started'
  BY DEF Started
<1>6. buffer_flag' \notin lost'
  BY <1>1, <1>4
<1>7. Linked'
  BY <1>2, <1>5, <1>6, SavedKept, LinkedKept
<1> QED BY <1>2, <1>4, <1>7

\* A halt system call.
LEMMA HaltProgramX ==
    ASSUME Sound, ~Busy, NEW st \in Statuses, HaltProgram(st),
           UNCHANGED <<pc, victim, caller>>, StacksTaken, Healthy'
    PROVE  Sound'
<1>0. PICK c, p, b : c = current_process_ID /\ p = parent_PCB[c] /\ b = buffer_flag
  BY Zenon
<1>1. Healthy /\ mode = "user" /\ mode' = "user"
  BY DEF HaltProgram, Healthy
<1>2. /\ b \in Terminals /\ c \in V!Live /\ b \notin Halting
      /\ c \in Slots /\ parent_process_ID = c /\ wasTerminal[c] = b
      /\ wasParent[c] = p /\ wasEsp[c] = esp[c]
      /\ c \notin Victims \cup Waiters \cup Gone
      /\ wasCurrent = c /\ wasParentID = c
      /\ TableTyped
  BY <1>0, <1>1, Running
<1>3. V!HasWaitingParent(c) /\ esp[c] \in Slots
  <2>1. V!HasWaitingParent(c)
    BY <1>1, <1>2, VSame DEF Sound, V!Inv, V!Consistent, V!ParentsWait
  <2> QED BY <1>2, <2>1 DEF HaltProgram
<1>4. p # c /\ p \in Slots /\ parent_ESP0[c] = p /\ wasTerminal[p] = b
  <2>1. BaseFrame(b) \notin Slots
    BY <1>2, Sentinels
  <2>2. p \in V!Live /\ wasTerminal[p] = b
        /\ IF p = c THEN esp[c] = BaseFrame(b) ELSE parent_ESP0[c] = p
    BY <1>2, <1>3, VSame DEF V!HasWaitingParent
  <2>3. p \in Slots
    BY <2>2, VSame DEF V!Live
  <2> QED BY <1>3, <2>1, <2>2, <2>3
<1>5. p \notin Victims \cup Waiters \cup Gone
  <2>1. p \notin Gone
    BY <1>1, <1>2, <1>4, GoneFacts, Sentinels
  <2> QED BY <1>1, <1>2, <1>4, <2>1, Bystanders
<1>6. /\ flag' = [flag EXCEPT ![c] = 0]
      /\ isActive' = [isActive EXCEPT ![p] = 1, ![c] = 0]
      /\ terminalNumber' = [terminalNumber EXCEPT ![c] = NoTerminal]
      /\ parent_PCB' = [parent_PCB EXCEPT ![c] = Null]
      /\ esp' = [esp EXCEPT ![c] = Null]
      /\ parent_process_ID' = p /\ current_process_ID' = p
      /\ page' = p /\ esp0' = p
      /\ ret' = [why |-> "halt", eax |-> st]
      /\ UNCHANGED <<parent_ESP0, execute_status, PID, PPID, saved_esp, buffer_flag,
                     nxt_term, mode, loop, home, popped, relocated>>
  BY <1>0, <1>4 DEF HaltProgram, HaltCurrent, ReleasePCB, BecomeParent, term
<1>7. ASSUME NEW j \in Slots, j # c, j # p PROVE SlotSame(j)
  BY <1>2, <1>6, <1>7 DEF TableTyped, SlotSame
<1>8. TableTyped'
  BY <1>2, <1>4, <1>6 DEF TableTyped
<1>9. /\ Linked' /\ Victims' = Victims /\ Waiters' = Waiters /\ Gone' = Gone
      /\ \A j \in Victims \cup Waiters \cup Gone : j \in Slots /\ j # c /\ j # p
  BY <1>0, <1>1, <1>4, <1>5, <1>6, <1>7, <1>8, FreeingKeeps
<1>10. wasActive' = [wasActive EXCEPT ![p] = 1, ![c] = 0]
  BY <1>2, <1>4, <1>5, <1>6, <1>9 DEF wasActive, TableTyped
<1>11. /\ wasTerminal' = [wasTerminal EXCEPT ![c] = NoTerminal]
       /\ wasParent' = [wasParent EXCEPT ![c] = Null]
       /\ wasEsp' = [wasEsp EXCEPT ![c] = Null]
  BY <1>2, <1>6, <1>9 DEF wasTerminal, wasParent, wasEsp, TableTyped
<1>12. /\ wasCurrent' = p /\ wasParentID' = p /\ wasEsp0' = p /\ wasPage' = p
       /\ UNCHANGED <<wasPID, wasPPID, wasSaved>>
  <2>1. ~Busy'
    BY <1>6 DEF Busy
  <2> QED BY <1>6, <2>1, SettledAfter
<1>13. V!HaltCurrent
  <2>1. V!ReleasePCB(c, p) /\ V!BecomeParent(p)
    BY <1>10, <1>11, <1>12, VSame DEF V!ReleasePCB, V!BecomeParent
  <2>2. wasCurrent = c /\ wasParent[c] = p /\ wasEsp0' = parent_ESP0[c]
        /\ flag' = [flag EXCEPT ![c] = 0] /\ parent_ESP0' = parent_ESP0
    BY <1>2, <1>4, <1>6, <1>12
  <2> QED BY <1>4, <2>1, <2>2 DEF V!HaltCurrent
<1>14. V!HaltProgram(st)
  <2>1. wasEsp[wasParentID] \in V!Slots
    BY <1>2, <1>3, VSame
  <2> QED BY <1>1, <1>6, <1>12, <1>13, <2>1 DEF V!HaltProgram, V!term
<1>15. V!Inv'
  BY <1>14, VNextInv DEF Sound, V!Next
<1> QED BY <1>9, <1>15 DEF Sound

\* A shell exits.
LEMMA HaltBaseShellX ==
    ASSUME Sound, ~Busy, HaltBaseShell, UNCHANGED <<pc, victim, caller>>, StacksTaken, Healthy'
    PROVE  Sound'
<1>0. PICK c, b : c = current_process_ID /\ b = buffer_flag
  BY Zenon
<1>1. Healthy /\ mode = "user" /\ mode' = "restart"
  BY DEF HaltBaseShell, Healthy
<1>2. /\ b \in Terminals /\ c \in V!Live
      /\ c \in Slots /\ parent_process_ID = c /\ page = c
      /\ wasParent[c] = parent_PCB[c] /\ wasEsp[c] = esp[c]
      /\ c \notin Victims \cup Waiters \cup Gone
      /\ wasCurrent = c /\ wasParentID = c /\ wasPage = c
      /\ TableTyped
  BY <1>0, <1>1, Running
<1>3. esp[c] \in BaseFrames /\ esp[c] \notin Slots
  <2>1. esp[c] \in BaseFrames
    BY <1>2 DEF HaltBaseShell
  <2> QED BY <2>1, Sentinels DEF BaseFrames
<1>4. parent_PCB[c] = c
  <2>1. V!HasWaitingParent(c)
    BY <1>1, <1>2, VSame DEF Sound, V!Inv, V!Consistent, V!ParentsWait
  <2> QED BY <1>2, <1>3, <2>1, VSame DEF V!HasWaitingParent, V!Live
<1>5. /\ flag' = [flag EXCEPT ![c] = 0] /\ esp0' = parent_ESP0[c]
      /\ loop' = esp[c] - SIZE_OF_PCB_ARRAY
      /\ UNCHANGED <<isActive, terminalNumber, parent_PCB, esp, parent_ESP0,
                     parent_process_ID, current_process_ID, page,
                     execute_status, PID, PPID, saved_esp, buffer_flag,
                     nxt_term, ret, home, popped, relocated>>
  BY <1>0, <1>2, <1>4 DEF HaltBaseShell, HaltCurrent, term
<1>6. ASSUME NEW j \in Slots, j # c PROVE SlotSame(j)
  BY <1>2, <1>5, <1>6 DEF TableTyped, SlotSame
<1>7. TableTyped'
  BY <1>2, <1>5 DEF TableTyped
<1>8. /\ Linked' /\ Victims' = Victims /\ Waiters' = Waiters /\ Gone' = Gone
  BY <1>0, <1>1, <1>2, <1>5, <1>6, <1>7, FreeingKeeps
<1>9. UNCHANGED <<wasActive, wasTerminal, wasParent, wasEsp>>
  BY <1>5, <1>8 DEF wasActive, wasTerminal, wasParent, wasEsp
<1>10. /\ wasCurrent' = c /\ wasParentID' = c /\ wasEsp0' = esp0' /\ wasPage' = c
       /\ UNCHANGED <<wasPID, wasPPID, wasSaved>>
  <2>1. ~Busy'
    BY <1>5 DEF Busy
  <2> QED BY <1>0, <1>2, <1>5, <2>1, SettledAfter
<1>11. V!HaltCurrent
  <2>1. /\ wasCurrent = c /\ wasParent[c] = c /\ wasEsp0' = parent_ESP0[c]
        /\ flag' = [flag EXCEPT ![c] = 0] /\ wasPage' = c
        /\ UNCHANGED <<wasActive, wasTerminal, wasParent, wasEsp, wasParentID, wasCurrent,
                       parent_ESP0>>
    BY <1>2, <1>4, <1>5, <1>9, <1>10
  <2> QED BY <2>1 DEF V!HaltCurrent
<1>12. V!HaltBaseShell
  <2>1. /\ wasEsp[wasParentID] \in V!BaseFrames
        /\ loop' = wasEsp[wasParentID] - SIZE_OF_PCB_ARRAY
    BY <1>2, <1>3, <1>5, VSame
  <2> QED BY <1>1, <1>5, <1>10, <1>11, <2>1 DEF V!HaltBaseShell, V!term
<1>13. V!Inv'
  BY <1>12, VNextInv DEF Sound, V!Next
<1> QED BY <1>8, <1>13 DEF Sound

\* A shell is run again.
LEMMA RestartShellX ==
    ASSUME Sound, ~Busy, RestartShell, UNCHANGED <<pc, victim, caller>>, StacksTaken, Healthy'
    PROVE  Sound'
<1>0. PICK c, b : c = current_process_ID /\ b = buffer_flag
  BY Zenon
<1>1. Healthy /\ mode = "restart" /\ mode' = "user" /\ FirstFree = c
  <2>1. ~(relocated \/ FirstFree # c)
    BY <1>0, Zenon DEF RestartShell, Healthy
  <2> QED BY <2>1 DEF RestartShell, sys_call_execute, Healthy
<1>2. /\ b \in Terminals /\ nxt_term = b /\ execute_status[b] = 1 /\ c \in V!Live
      /\ c \in Slots /\ wasTerminal[c] = b /\ parent_process_ID = c /\ page = c
      /\ wasParent[c] = parent_PCB[c] /\ wasEsp[c] = esp[c]
      /\ c \notin Victims \cup Waiters \cup Gone
      /\ wasCurrent = c /\ wasParentID = c /\ wasPage = c /\ wasEsp0 = esp0
      /\ TableTyped /\ V!TypeOK
  BY <1>0, <1>1, Running
<1>3. parent_PCB[c] = c /\ loop = b /\ esp[c] = BaseFrame(b)
  <2>1. V!HasWaitingParent(c)
    BY <1>1, <1>2, VSame DEF Sound, V!Inv, V!Consistent, V!ParentsWait
  <2>2. parent_PCB[c] = c /\ loop = b
    BY <1>0, <1>1, <1>2, VSame DEF Sound, V!Inv, V!Consistent, V!RestartOnScreen
  <2> QED BY <1>2, <2>1, <2>2, VSame DEF V!HasWaitingParent
<1>4. /\ flag' = [flag EXCEPT ![c] = 1]
      /\ parent_ESP0' = [parent_ESP0 EXCEPT ![c] = esp0] /\ esp0' = c
      /\ UNCHANGED <<isActive, terminalNumber, parent_PCB, esp, execute_status,
                     parent_process_ID, current_process_ID, page,
                     PID, PPID, saved_esp, buffer_flag, nxt_term,
                     loop, ret, home, popped>>
  <2>1. execute_status \in [Terminals -> {0, 1}]
    BY <1>2, VSame DEF V!TypeOK
  <2>2. sys_call_execute(BaseFrame(b), b)
    BY <1>2, <1>3 DEF RestartShell
  <2>3. /\ execute_status = [execute_status EXCEPT ![b] = 1]
        /\ parent_PCB = [parent_PCB EXCEPT ![c] = c]
        /\ esp = [esp EXCEPT ![c] = BaseFrame(b)]
    BY <1>2, <1>3, <2>1 DEF TableTyped
  <2>4. /\ parent_process_ID = c /\ current_process_ID = c /\ page = c
        /\ execute_status[b] # 0 /\ FirstFree = c
    BY <1>0, <1>1, <1>2
  <2>5. UNCHANGED <<PID, PPID, saved_esp, buffer_flag, nxt_term, loop, ret, home, popped>>
    BY DEF RestartShell
  <2> QED BY <2>2, <2>3, <2>4, <2>5 DEF sys_call_execute
<1>5. ASSUME NEW j \in Slots, j # c PROVE SlotSame(j)
  BY <1>2, <1>4, <1>5 DEF TableTyped, SlotSame
<1>6. TableTyped'
  BY <1>2, <1>4 DEF TableTyped
<1>7. /\ Linked' /\ Victims' = Victims /\ Waiters' = Waiters /\ Gone' = Gone
  BY <1>0, <1>1, <1>2, <1>4, <1>5, <1>6, FreeingKeeps
<1>8. UNCHANGED <<wasActive, wasTerminal, wasParent, wasEsp>>
  BY <1>4, <1>7 DEF wasActive, wasTerminal, wasParent, wasEsp
<1>9. /\ wasCurrent' = c /\ wasParentID' = c /\ wasEsp0' = c /\ wasPage' = c
      /\ UNCHANGED <<wasPID, wasPPID, wasSaved>>
  <2>1. ~Busy'
    BY <1>4 DEF Busy
  <2> QED BY <1>0, <1>2, <1>4, <2>1, SettledAfter
<1>10. V!FirstFree = c
  BY <1>1, VSame
<1>11. V!sys_call_execute(V!BaseFrame(loop), nxt_term)
  <2>1. execute_status \in [Terminals -> {0, 1}]
    BY <1>2, VSame DEF V!TypeOK
  <2>2. /\ wasParent' = [wasParent EXCEPT ![c] = c]
        /\ wasEsp' = [wasEsp EXCEPT ![c] = BaseFrame(b)]
        /\ execute_status' = [execute_status EXCEPT ![b] = 1]
        /\ parent_ESP0' = [parent_ESP0 EXCEPT ![c] = wasEsp0]
    BY <1>2, <1>3, <1>4, <1>8, <2>1 DEF wasParent, wasEsp
  <2>3. /\ nxt_term = b /\ execute_status[b] # 0 /\ wasParentID = c
        /\ V!BaseFrame(loop) = BaseFrame(b)
    BY <1>2, <1>3, VSame
  <2> QED BY <1>1, <1>4, <1>8, <1>9, <1>10, <2>2, <2>3 DEF V!sys_call_execute
<1>12. V!RestartShell
  <2>1. relocated' = (relocated \/ V!FirstFree # wasCurrent)
    BY <1>0, <1>1, <1>2, <1>10, Zenon DEF RestartShell
  <2> QED BY <1>1, <1>4, <1>9, <1>11, <2>1 DEF V!RestartShell
<1>13. V!Inv'
  BY <1>12, VNextInv DEF Sound, V!Next
<1> QED BY <1>7, <1>13 DEF Sound

\* A failed execute, and stuttering.
LEMMA UnchangedX ==
    ASSUME Sound, UNCHANGED <<pc, victim, caller, lost>>,
           UNCHANGED <<pcb, cpu, term, buffer_flag, nxt_term, mode, loop,
                       home, popped, relocated>>,
           ret' = ret \/ ret' \in [why : {"invalid", "full"}, eax : {-1, 0}]
    PROVE  Sound'
<1> USE DEF pcb, cpu, term
<1>1. /\ Halting' = Halting /\ Leaving' = Leaving /\ Kept' = Kept
      /\ Victims' = Victims /\ Waiters' = Waiters /\ Gone' = Gone
      /\ (Busy' <=> Busy) /\ (Early' <=> Early) /\ (Late' <=> Late)
  BY DEF Halting, Leaving, Kept, Victims, Waiters, Gone, Busy, Early, Late
<1>2. UNCHANGED <<wasActive, wasTerminal, wasParent, wasEsp,
                  wasCurrent, wasParentID, wasEsp0, wasPage, wasPID, wasPPID, wasSaved>>
  BY <1>1 DEF wasActive, wasTerminal, wasParent, wasEsp,
              wasCurrent, wasParentID, wasEsp0, wasPage, wasPID, wasPPID, wasSaved
<1>3. UNCHANGED <<V!pcb, V!cpu, V!term>>
  BY <1>2 DEF V!pcb, V!cpu, V!term
<1>4. V!Inv'
  BY <1>3, VUnchanged DEF Sound
<1>5. Linked'
  <2>1. Healthy' => Healthy
    BY DEF Healthy
  <2>2. ASSUME Linked, Healthy PROVE Linked'
    <3>1. TableTyped' /\ HaltsTyped' /\ \A t \in Halting \cup Leaving : t \in Started'
      BY <1>1, <2>2 DEF Linked, TableTyped, HaltsTyped, Started
    <3>2. ASSUME NEW t \in Halting PROVE EarlyRecord(t, victim[t], caller[t])'
      BY <2>2 DEF Linked, EarlyRecord
    <3>3. ASSUME NEW t \in Kept PROVE LateRecord(t, victim[t], caller[t])'
      BY <2>2 DEF Linked, LateRecord
    <3>4. \A t \in Halting \ {buffer_flag} : pc'[t] \in {1, 4}
      BY <2>2 DEF Linked
    <3>5. ASSUME NEW t \in (Halting \cup Kept) \ {buffer_flag}
          PROVE  HaltSaved(t, victim[t], caller[t])'
      BY <2>2 DEF Linked, HaltSaved
    <3>6. Busy => HaltGlobals(victim[buffer_flag], caller[buffer_flag])'
      BY <2>2 DEF Linked, HaltGlobals
    <3>7. \A t, u \in Kept : victim'[t] = victim'[u] => t = u
      BY <2>2 DEF Linked
    <3> QED BY <1>1, <3>1, <3>2, <3>3, <3>4, <3>5, <3>6, <3>7 DEF Linked
  <2> QED BY <2>1, <2>2 DEF Sound, Linked
<1> QED BY <1>4, <1>5 DEF Sound

-----------------------------------------------------------------------------
\* A halt at one of the points where a switch does no harm, or none; the stack
\* that a key interrupt runs on.
Quiet == pc[buffer_flag] \notin {2, 3}
Stack == IF Busy THEN victim[buffer_flag] ELSE esp0

\* What is known of the process that a switch takes away from the screen.
LEMMA QuietRunning ==
    ASSUME Sound, Healthy, Quiet, mode = "user", NEW b, NEW r,
           b = buffer_flag, r = wasCurrent
    PROVE  /\ b \in Terminals /\ b \in Started /\ pc[b] \in 0 .. 8
           /\ r \in Slots /\ flag[r] = 1 /\ wasActive[r] = 1
           /\ terminalNumber[r] = b /\ wasParentID = r /\ wasEsp0 = r
           /\ current_process_ID \in Slots /\ parent_process_ID \in Slots
           /\ Stack \in Slots /\ esp0 \in Slots
           /\ b \in Leaving => caller[b] = r
           /\ b \notin Leaving => current_process_ID = r /\ parent_process_ID = r /\ Stack = r
           /\ Busy => /\ current_process_ID = IF pc[b] <= 7 THEN victim[b] ELSE caller[b]
                      /\ parent_process_ID = IF pc[b] <= 6 THEN victim[b] ELSE caller[b]
           /\ \A t \in Halting : pc[t] \in {1, 4}
           /\ TableTyped /\ HaltsTyped
<1>1. /\ TableTyped /\ HaltsTyped /\ b \in Terminals
      /\ Busy => HaltGlobals(victim[b], caller[b])
      /\ \A t \in Halting \ {b} : pc[t] \in {1, 4}
  BY LinkedFacts
<1>2. /\ pc[b] \in 0 .. 8 /\ victim[b] \in Slots /\ caller[b] \in Slots
  BY <1>1 DEF HaltsTyped
<1>3. /\ r \in Slots /\ wasActive[r] = 1 /\ wasParentID = r /\ wasEsp0 = r
      /\ b \in Started /\ flag[r] = 1 /\ terminalNumber[r] = b
  BY Runner
<1>4. CASE ~Busy
  <2>1. b \notin Leaving /\ b \notin Halting /\ ~Early /\ ~Late
    BY <1>4 DEF Busy, Leaving, Halting, Early, Late
  <2>2. current_process_ID = r /\ parent_process_ID = r /\ Stack = r /\ esp0 = r
    BY <1>3, <1>4, <2>1 DEF wasCurrent, wasParentID, wasEsp0, Stack
  <2> QED BY <1>1, <1>2, <1>3, <1>4, <2>1, <2>2
<1>5. CASE Busy
  <2>1. /\ current_process_ID = IF pc[b] <= 7 THEN victim[b] ELSE caller[b]
        /\ parent_process_ID = IF pc[b] <= 6 THEN victim[b] ELSE caller[b]
        /\ esp0 = IF pc[b] = 1 THEN victim[b] ELSE caller[b]
    BY <1>1, <1>5 DEF HaltGlobals
  <2>2. Stack = victim[b] /\ pc[b] # 0
    BY <1>5 DEF Stack, Busy
  <2>3. b \in Leaving => caller[b] = r
    BY DEF Leaving, wasCurrent, Late
  <2>4. b \notin Leaving => pc[b] \in {1, 4} /\ victim[b] = r
    BY <1>1, <1>2, <1>3, <2>2 DEF Leaving, Quiet, Early, wasEsp0
  <2>5. b \in Halting => pc[b] \in {1, 4}
    BY DEF Halting, Quiet
  <2> QED BY <1>1, <1>2, <1>3, <1>5, <2>1, <2>2, <2>3, <2>4, <2>5
<1> QED BY <1>4, <1>5

\* What is saved for the terminal that is left, and what it is in V.
LEMMA SaveX ==
    ASSUME Sound, Healthy, Quiet, mode = "user", NEW n \in Terminals, n # buffer_flag,
           SaveContext(n, Stack), UNCHANGED <<pc, victim, caller>>,
           NEW b, NEW r, b = buffer_flag, r = wasCurrent
    PROVE  /\ wasPID' = [wasPID EXCEPT ![b] = r] /\ wasPPID' = [wasPPID EXCEPT ![b] = r]
           /\ wasSaved' = [wasSaved EXCEPT ![b] = r]
           /\ PID' \in [Terminals -> Slots] /\ PPID' \in [Terminals -> Slots]
           /\ saved_esp' \in [Terminals -> Slots \cup {BootStack}]
           /\ buffer_flag' = n /\ nxt_term' = n
           /\ \A t \in Halting \ {n} : pc[t] \in {1, 4}
           /\ \A t \in (Halting \cup Kept) \ {n} : HaltSaved(t, victim[t], caller[t])'
<1>1. /\ b \in Terminals
      /\ current_process_ID \in Slots /\ parent_process_ID \in Slots /\ Stack \in Slots
      /\ b \in Leaving => caller[b] = r
      /\ b \notin Leaving => current_process_ID = r /\ parent_process_ID = r /\ Stack = r
      /\ Busy => /\ current_process_ID = IF pc[b] <= 7 THEN victim[b] ELSE caller[b]
                 /\ parent_process_ID = IF pc[b] <= 6 THEN victim[b] ELSE caller[b]
      /\ \A t \in Halting : pc[t] \in {1, 4}
      /\ HaltsTyped
  BY QuietRunning
<1>2. /\ PID' = [PID EXCEPT ![b] = current_process_ID]
      /\ PPID' = [PPID EXCEPT ![b] = parent_process_ID]
      /\ saved_esp' = [saved_esp EXCEPT ![b] = Stack]
      /\ buffer_flag' = n /\ nxt_term' = n
  BY DEF SaveContext
<1>3. /\ PID \in [Terminals -> Slots] /\ PPID \in [Terminals -> Slots]
      /\ saved_esp \in [Terminals -> Slots \cup {BootStack}]
  BY <1>1 DEF HaltsTyped
<1>4. Leaving' = Leaving
  BY DEF Leaving
<1>5. wasPID' = [wasPID EXCEPT ![b] = r]
  BY <1>1, <1>2, <1>3, <1>4 DEF wasPID
<1>6. wasPPID' = [wasPPID EXCEPT ![b] = r]
  BY <1>1, <1>2, <1>3, <1>4 DEF wasPPID
<1>7. wasSaved' = [wasSaved EXCEPT ![b] = r]
  BY <1>1, <1>2, <1>3, <1>4 DEF wasSaved
<1>8. ASSUME NEW t \in (Halting \cup Kept) \ {n}
      PROVE  HaltSaved(t, victim[t], caller[t])'
  <2>1. t \in Terminals /\ pc[t] # 0
    BY DEF Halting, Kept, Leaving
  <2>2. CASE t = b
    BY <1>1, <1>2, <1>3, <2>1, <2>2 DEF HaltSaved, Busy
  <2>3. CASE t # b
    <3>1. HaltSaved(t, victim[t], caller[t])
      BY <2>3, LinkedFacts
    <3>2. PID'[t] = PID[t] /\ PPID'[t] = PPID[t]
      BY <1>2, <1>3, <2>1, <2>3
    <3> QED BY <3>1, <3>2 DEF HaltSaved
  <2> QED BY <2>2, <2>3
<1> QED BY <1>1, <1>2, <1>3, <1>5, <1>6, <1>7, <1>8

\* The first switch to a terminal, also one that interrupts a halt.
LEMMA StartX ==
    ASSUME Sound, Quiet, NEW n \in Terminals, StartTerminal(n, Stack),
           UNCHANGED <<pc, victim, caller>>, StacksTaken, Healthy'
    PROVE  Sound'
<1>0. PICK i, r, b, e : i = FirstFree /\ r = wasCurrent /\ b = buffer_flag /\ e = esp0
  BY Zenon
<1>1. /\ Healthy /\ mode = "user" /\ mode' = "user" /\ ~is_PCB_array_full /\ FreeSlots # {}
      /\ n # b /\ execute_status[n] = 0 /\ SaveContext(n, Stack)
  BY <1>0 DEF StartTerminal, SwitchAllowed, sys_call_execute, Healthy, is_PCB_array_full
<1>2. i \in Slots /\ flag[i] = 0
  BY <1>0, <1>1, FirstFreeIsFree
<1>3. /\ b \in Terminals /\ b \in Started /\ e \in Slots /\ r \in Slots
      /\ TableTyped /\ HaltsTyped
  BY <1>0, <1>1, QuietRunning
<1>4. i # 0 /\ i \notin Victims \cup Waiters
  <2>1. flag[0] = 1
    BY <1>1, VSame DEF Sound, V!Inv, V!Consistent, V!BootShell, V!Live
  <2> QED BY <1>1, <1>2, <2>1, Bystanders
<1>5. /\ flag' = [flag EXCEPT ![i] = 1]
      /\ current_process_ID' = i /\ parent_process_ID' = i
      /\ parent_PCB' = [parent_PCB EXCEPT ![i] = i]
      /\ page' = i /\ esp0' = i
      /\ execute_status' = [execute_status EXCEPT ![n] = 1]
      /\ isActive' = [isActive EXCEPT ![i] = 1]
      /\ terminalNumber' = [terminalNumber EXCEPT ![i] = n]
      /\ parent_ESP0' = [parent_ESP0 EXCEPT ![i] = e]
      /\ esp' = [esp EXCEPT ![i] = BaseFrame(n)]
  <2>1. sys_call_execute(BaseFrame(n), n)
    BY <1>1 DEF StartTerminal
  <2> QED BY <1>0, <1>1, <1>4, <2>1 DEF sys_call_execute
<1>6. /\ wasPID' = [wasPID EXCEPT ![b] = r] /\ wasPPID' = [wasPPID EXCEPT ![b] = r]
      /\ wasSaved' = [wasSaved EXCEPT ![b] = r]
      /\ PID' \in [Terminals -> Slots] /\ PPID' \in [Terminals -> Slots]
      /\ saved_esp' \in [Terminals -> Slots \cup {BootStack}]
      /\ buffer_flag' = n /\ nxt_term' = n
      /\ \A t \in Halting \ {n} : pc[t] \in {1, 4}
      /\ \A t \in (Halting \cup Kept) \ {n} : HaltSaved(t, victim[t], caller[t])'
  BY <1>0, <1>1, SaveX
<1>7. /\ home' = [home EXCEPT ![n] = b]
      /\ UNCHANGED <<loop, ret, popped, relocated>>
  BY <1>0 DEF StartTerminal
<1>8. ASSUME NEW j \in Slots, j # i PROVE SlotSame(j)
  BY <1>3, <1>5, <1>8 DEF TableTyped, SlotSame
<1>9. TableTyped'
  <2>1. BaseFrame(n) \in BaseFrames
    BY Sentinels
  <2> QED BY <1>2, <1>3, <1>5, <2>1 DEF TableTyped
<1>10. n \notin Halting \cup Leaving /\ ~Busy' /\ ~Early' /\ ~Late'
  <2>1. n \notin Halting \cup Leaving
    BY <1>1, LinkedFacts DEF Started
  <2>2. pc[n] \in 0 .. 8
    BY <1>3 DEF HaltsTyped
  <2> QED BY <1>6, <2>1, <2>2 DEF Busy, Early, Late, Halting, Leaving
<1>11. /\ Victims' = Victims /\ Waiters' = Waiters /\ Gone' = Gone \ {i}
       /\ buffer_flag' \notin lost'
  <2>1. /\ Victims' = Victims /\ Waiters' = Waiters
        /\ Gone' = {j \in Gone : flag'[j] = 0} /\ lost' \subseteq Leaving
    BY <1>1, <1>9, HaltsKept DEF TableTyped
  <2>2. \A j \in Gone : j \in Slots /\ flag[j] = 0
    BY <1>1, GoneFacts
  <2>3. \A j \in Gone : flag'[j] = 0 <=> j # i
    BY <1>2, <1>3, <1>5, <2>2 DEF TableTyped
  <2> QED BY <1>6, <1>10, <2>1, <2>3
<1>12. ASSUME NEW j \in Gone, flag'[j] = 0 PROVE SlotSame(j)
  <2>1. j \in Slots
    BY <1>1, GoneFacts
  <2>2. j # i
    BY <1>2, <1>3, <1>5, <1>12 DEF TableTyped
  <2> QED BY <1>8, <2>1, <2>2
<1>13. ASSUME NEW j \in Victims \cup Waiters PROVE SlotSame(j)
  <2>1. j \in Slots /\ j # i
    BY <1>1, <1>4, Bystanders
  <2> QED BY <1>8, <2>1
<1>14. ASSUME NEW t \in Halting \cup Leaving PROVE t \in Started'
  <2>1. t \in Started /\ t \in Terminals /\ t # n
    BY <1>1, <1>10, LinkedFacts
  <2>2. execute_status \in [Terminals -> {0, 1}]
    BY <1>1, VSame DEF Sound, V!Inv, V!WellTyped, V!TypeOK
  <2> QED BY <1>5, <2>1, <2>2 DEF Started
<1>15. Linked'
  BY <1>1, <1>6, <1>9, <1>10, <1>11, <1>12, <1>13, <1>14, LinkedKept
<1>16. wasActive' = [wasActive EXCEPT ![i] = 1]
  BY <1>2, <1>3, <1>4, <1>5, <1>11 DEF wasActive, TableTyped
<1>17. /\ wasTerminal' = [wasTerminal EXCEPT ![i] = n]
       /\ wasParent' = [wasParent EXCEPT ![i] = i]
       /\ wasEsp' = [wasEsp EXCEPT ![i] = V!BaseFrame(n)]
  <2>1. V!BaseFrame(n) = BaseFrame(n)
    BY VSame
  <2> QED BY <1>2, <1>3, <1>5, <1>11, <2>1 DEF wasTerminal, wasParent, wasEsp, TableTyped
<1>18. wasCurrent' = i /\ wasParentID' = i /\ wasEsp0' = i /\ wasPage' = i
  BY <1>5, <1>10 DEF wasCurrent, wasParentID, wasEsp0, wasPage
<1>19. /\ wasPID' = [wasPID EXCEPT ![buffer_flag] = wasCurrent]
       /\ wasPPID' = [wasPPID EXCEPT ![buffer_flag] = wasCurrent]
       /\ wasSaved' = [wasSaved EXCEPT ![buffer_flag] = wasCurrent]
       /\ home' = [home EXCEPT ![n] = buffer_flag]
  BY <1>0, <1>6, <1>7
<1>20. /\ i \in V!Slots /\ n \in V!Terminals
       /\ e \in V!Slots \cup {V!BootStack} /\ V!Healthy /\ V!Inv
  BY <1>1, <1>2, <1>3, VSame DEF Sound
<1>21. V!Inv'
  BY <1>1, <1>2, <1>5, <1>6, <1>7, <1>16, <1>17, <1>18, <1>19, <1>20, V!NewShellInv,
     VAssumptions
<1> QED BY <1>15, <1>21 DEF Sound

\* The lookup of a terminal that has one active process finds that process.
LEMMA LookupIsUnique ==
    ASSUME NEW t, NEW c \in Slots, terminalNumber[c] = t, isActive[c] = 1,
           \A j \in Slots : terminalNumber[j] = t /\ isActive[j] = 1 => j = c
    PROVE  get_current_process_ID(t) = c
<1> DEFINE S == {i \in Slots : terminalNumber[i] = t /\ isActive[i] = 1}
<1>1. S = {c}
  OBVIOUS
<1>2. c \in Nat
  BY Sentinels
<1>3. get_current_process_ID(t) =
        IF S = {} THEN NoProcess ELSE CHOOSE i \in S : \A j \in S : i <= j
  BY Zenon DEF S, get_current_process_ID
<1> HIDE DEF S
<1>4. (CHOOSE i \in S : \A j \in S : i <= j) = c
  BY <1>1, <1>2
<1> QED BY <1>1, <1>3, <1>4

\* What get_current_process_ID finds for a terminal in the background: the
\* process that V has saved for it, or its parent if a halt stands at 4.
LEMMA LookupDuringHalt ==
    ASSUME Sound, Healthy, Quiet, mode = "user", NEW n \in Started, n # buffer_flag
    PROVE  get_current_process_ID(n) = IF pc[n] = 4 THEN caller[n] ELSE wasPID[n]
<1>0. PICK d : d = wasPID[n]
  BY Zenon
<1>1. n \in Terminals /\ TableTyped /\ HaltsTyped
  BY LinkedFacts DEF Started
<1>2. d \in Slots /\ wasActive[d] = 1 /\ wasTerminal[d] = n
  <2>1. V!IsContextOf(n)
    BY VSame DEF Sound, V!Inv, V!Consistent, V!SavedContext
  <2> QED BY <1>0, <2>1, VSame DEF V!IsContextOf, V!Live
<1>3. ASSUME NEW i \in Slots, wasActive[i] = 1, wasTerminal[i] = n PROVE i = d
  BY <1>2, <1>3, VSame DEF Sound, V!Inv, V!Consistent, V!OneRunnerPerTerminal
<1>4. ASSUME NEW i \in Slots, terminalNumber[i] = n, i \in Victims \cup Waiters
      PROVE  n \in Halting /\ i \in {victim[n], caller[n]}
  BY <1>4, Bystanders
<1>5. ASSUME NEW i \in Slots, terminalNumber[i] = n, isActive[i] = 1
      PROVE  wasTerminal[i] = n
  <2>1. i \notin Gone
    BY <1>5, GoneFacts
  <2> QED BY <1>5, <2>1 DEF wasTerminal
<1>6. ASSUME NEW i \in Slots, i \notin Victims \cup Waiters PROVE wasActive[i] = isActive[i]
  BY <1>6 DEF wasActive
<1>7. terminalNumber[d] = n
  <2>1. d \notin Gone
    BY <1>1, <1>2, GoneFacts, Sentinels
  <2> QED BY <1>2, <2>1 DEF wasTerminal
<1>8. CASE n \notin Halting
  <2>1. pc[n] # 4
    BY <1>1, <1>8 DEF Halting
  <2>2. isActive[d] = 1
    BY <1>2, <1>4, <1>6, <1>7, <1>8
  <2>3. \A j \in Slots : terminalNumber[j] = n /\ isActive[j] = 1 => j = d
    BY <1>3, <1>4, <1>5, <1>6, <1>8
  <2>4. get_current_process_ID(n) = d
    BY <1>2, <1>7, <2>2, <2>3, LookupIsUnique
  <2> QED BY <1>0, <2>1, <2>4
<1>9. CASE n \in Halting
  <2>0. PICK c, p : c = victim[n] /\ p = caller[n]
    BY Zenon
  <2>1. /\ c \in Slots /\ p \in Slots /\ EarlyRecord(n, c, p) /\ wasActive[c] = 1
        /\ wasTerminal[c] = n /\ terminalNumber[c] = n /\ terminalNumber[p] = n
    BY <1>9, <2>0, EarlyFacts
  <2>2. c = d /\ pc[n] \in {1, 4}
    BY <1>3, <1>9, <2>1, LinkedFacts
  <2>3. ASSUME NEW j \in Slots, terminalNumber[j] = n, isActive[j] = 1 PROVE j \in {c, p}
    BY <1>3, <1>4, <1>5, <1>6, <2>0, <2>2, <2>3
  <2>4. CASE pc[n] = 1
    <3>1. isActive[c] = 1 /\ isActive[p] = 0
      BY <2>1, <2>4 DEF EarlyRecord
    <3>2. get_current_process_ID(n) = c
      BY <2>1, <2>3, <3>1, LookupIsUnique
    <3> QED BY <1>0, <2>2, <2>4, <3>2
  <2>5. CASE pc[n] = 4
    <3>1. isActive[c] = 0 /\ isActive[p] = 1
      BY <2>1, <2>5 DEF EarlyRecord
    <3>2. get_current_process_ID(n) = p
      BY <2>1, <2>3, <3>1, LookupIsUnique
    <3> QED BY <2>0, <2>5, <3>2
  <2> QED BY <2>2, <2>4, <2>5
<1> QED BY <1>8, <1>9

\* The switch back to a terminal, from a halt or to one.
LEMMA ResumeX ==
    ASSUME Sound, Quiet, NEW n \in Terminals, n \notin lost, ResumeTerminal(n, Stack),
           UNCHANGED <<pc, victim, caller>>, StacksTaken, Healthy'
    PROVE  Sound'
<1>0. PICK r, b, d, l : /\ r = wasCurrent /\ b = buffer_flag /\ d = wasPID[n]
                        /\ l = get_current_process_ID(n)
  BY Zenon
<1>1. /\ Healthy /\ mode = "user" /\ mode' = "user" /\ n # b /\ n \in Started
      /\ execute_status[n] = 1 /\ SaveContext(n, Stack)
  BY <1>0 DEF ResumeTerminal, SwitchAllowed, Healthy, Started
<1>2. /\ b \in Terminals /\ r \in Slots /\ wasParentID = r /\ wasEsp0 = r
      /\ TableTyped /\ HaltsTyped
  BY <1>0, <1>1, QuietRunning
<1>3. /\ wasPID' = [wasPID EXCEPT ![b] = r] /\ wasPPID' = [wasPPID EXCEPT ![b] = r]
      /\ wasSaved' = [wasSaved EXCEPT ![b] = r]
      /\ PID' \in [Terminals -> Slots] /\ PPID' \in [Terminals -> Slots]
      /\ saved_esp' \in [Terminals -> Slots \cup {BootStack}]
      /\ buffer_flag' = n /\ nxt_term' = n
      /\ \A t \in Halting \ {n} : pc[t] \in {1, 4}
      /\ \A t \in (Halting \cup Kept) \ {n} : HaltSaved(t, victim[t], caller[t])'
  BY <1>0, <1>1, SaveX
<1>4. /\ parent_process_ID' = PPID[n] /\ current_process_ID' = PID[n]
      /\ esp0' = l /\ page' = l
      /\ popped' = [t \in Terminals |-> popped[t] \/ (home[t] = n /\ t # n)]
      /\ UNCHANGED <<flag, isActive, terminalNumber, parent_PCB, esp, parent_ESP0,
                     execute_status, loop, ret, home, relocated>>
  BY <1>0 DEF ResumeTerminal, pcb
<1>5. l = IF pc[n] = 4 THEN caller[n] ELSE d
  BY <1>0, <1>1, LookupDuringHalt
<1>6. d \in Slots /\ wasPPID[n] = d
  <2>1. V!IsContextOf(n)
    BY <1>0, <1>1, VSame DEF Sound, V!Inv, V!Consistent, V!SavedContext
  <2> QED BY <1>0, <2>1, VSame DEF V!IsContextOf, V!Live
<1>7. lost' = lost
  BY <1>4 DEF StacksTaken
<1>8. /\ Halting' = Halting /\ Leaving' = Leaving /\ Kept' = Kept
      /\ Victims' = Victims /\ Waiters' = Waiters /\ Gone' = Gone
  BY <1>7 DEF Halting, Leaving, Kept, Victims, Waiters, Gone
<1>9. /\ pc[n] \in 0 .. 8 /\ pc'[buffer_flag'] = pc[n]
      /\ (Busy' <=> pc[n] # 0) /\ (Early' <=> n \in Halting) /\ (Late' <=> n \in Leaving)
      /\ pc[n] # 0 => n \in Halting \cup Kept
  <2>1. pc[n] \in 0 .. 8
    BY <1>2 DEF HaltsTyped
  <2> QED BY <1>3, <2>1 DEF Busy, Early, Late, Halting, Leaving, Kept
<1>10. /\ n \in Halting \cup Kept => HaltSaved(n, victim[n], caller[n])
       /\ n \in Halting => pc[n] \in {1, 4}
  BY <1>0, <1>1, LinkedFacts
<1>11. /\ n \in Leaving => d = caller[n]
       /\ n \notin Leaving => d = PID[n] /\ d = PPID[n]
  BY <1>0, <1>6 DEF wasPID, wasPPID
<1>12. n \in Halting => d = victim[n] /\ n \notin Leaving
  BY <1>10, <1>11 DEF HaltSaved, Halting, Leaving
<1>13. Busy' => HaltGlobals(victim[buffer_flag], caller[buffer_flag])'
  <2>1. SUFFICES ASSUME Busy' PROVE HaltGlobals(victim[n], caller[n])'
    BY <1>3
  <2>2. HaltSaved(n, victim[n], caller[n]) /\ pc[n] # 0
    BY <1>9, <1>10, <2>1
  <2>3. /\ parent_process_ID' = IF pc[n] <= 6 THEN victim[n] ELSE caller[n]
        /\ current_process_ID' = IF pc[n] <= 7 THEN victim[n] ELSE caller[n]
    BY <1>4, <2>2 DEF HaltSaved
  <2>4. esp0' = IF pc[n] = 1 THEN victim[n] ELSE caller[n]
    <3>1. CASE n \in Halting
      BY <1>4, <1>5, <1>10, <1>12, <3>1
    <3>2. CASE n \notin Halting
      BY <1>4, <1>5, <1>9, <1>11, <2>2, <3>2 DEF Kept, Leaving
    <3> QED BY <3>1, <3>2
  <2> QED BY <1>1, <1>9, <2>3, <2>4 DEF HaltGlobals
<1>14. Linked'
  <2>1. TableTyped' /\ \A t \in Halting \cup Leaving : t \in Started'
    BY <1>1, <1>2, <1>4, LinkedFacts DEF TableTyped, Started
  <2>2. \A i : SlotSame(i)
    BY <1>4 DEF SlotSame
  <2> QED BY <1>1, <1>3, <1>7, <1>13, <2>1, <2>2, LinkedKept
<1>15. UNCHANGED <<wasActive, wasTerminal, wasParent, wasEsp>>
  BY <1>4, <1>8 DEF wasActive, wasTerminal, wasParent, wasEsp
<1>16. wasCurrent' = d /\ wasParentID' = d /\ wasEsp0' = d /\ wasPage' = d
  <2>1. CASE n \in Leaving
    <3>1. pc[n] # 4 /\ Late' /\ ~Early'
      BY <1>9, <2>1 DEF Leaving, Late, Early
    <3> QED BY <1>3, <1>4, <1>5, <1>11, <2>1, <3>1
              DEF wasCurrent, wasParentID, wasEsp0, wasPage
  <2>2. CASE n \in Halting
    BY <1>3, <1>4, <1>9, <1>11, <1>12, <2>2 DEF wasCurrent, wasParentID, wasEsp0, wasPage
  <2>3. CASE n \notin Leaving /\ n \notin Halting
    <3>1. pc[n] # 4 /\ ~Early' /\ ~Late'
      BY <1>9, <2>3 DEF Halting
    <3> QED BY <1>3, <1>4, <1>5, <1>11, <2>3, <3>1
              DEF wasCurrent, wasParentID, wasEsp0, wasPage
  <2> QED BY <2>1, <2>2, <2>3
<1>17. V!get_current_process_ID(n) = d /\ d # V!NoProcess
  <2>1. V!get_current_process_ID(n) = d
    BY <1>0, <1>1, VSame, VAssumptions, V!LookupIsSaved DEF Sound
  <2> QED BY <1>6, <2>1, VSame, Sentinels
<1>18. V!SwitchAllowed(n)
  BY <1>0, <1>1 DEF V!SwitchAllowed
<1>19. V!SaveContext(n, wasEsp0)
  BY <1>0, <1>2, <1>3 DEF V!SaveContext
<1>20. V!ResumeTerminal(n, wasEsp0)
  <2>1. /\ wasParentID' = wasPPID[n] /\ wasCurrent' = wasPID[n]
        /\ popped' = [t \in V!Terminals |-> popped[t] \/ (home[t] = n /\ t # n)]
    BY <1>0, <1>4, <1>6, <1>16, VSame
  <2>2. UNCHANGED <<V!pcb, execute_status, loop, ret, home, relocated>>
    BY <1>4, <1>15 DEF V!pcb
  <2> QED BY <1>1, <1>16, <1>17, <1>18, <1>19, <2>1, <2>2 DEF V!ResumeTerminal
<1>21. V!Inv'
  BY <1>20, VNextInv, VSame DEF Sound, V!Next
<1> QED BY <1>14, <1>21 DEF Sound

-----------------------------------------------------------------------------
(***************************************************************************)
(* The steps of a halt.                                                    *)
(***************************************************************************)
\* The halt on screen, of process c with parent p, shares no slot with another.
Apart(b, c, p) ==
    /\ \A t \in (Halting \cup Kept) \ {b} : victim[t] \notin {c, p}
    /\ \A t \in Halting \ {b} : caller[t] \notin {c, p}

\* A step to point k of the halt on screen: it does what Linked says of that halt
\* and touches no slot but those of the process and its parent.
HaltStep(b, c, p, k) ==
    /\ b = buffer_flag /\ pc' = [pc EXCEPT ![b] = k]
    /\ Apart(b, c, p) /\ TableTyped'
    /\ \A i \in Slots \ {c, p} : SlotSame(i)
    /\ victim' \in [Terminals -> Slots] /\ caller' \in [Terminals -> Slots]
    /\ \A t \in Terminals \ {b} : victim'[t] = victim[t] /\ caller'[t] = caller[t]
    /\ victim'[b] = c /\ caller'[b] = p
    /\ k \in 1 .. 4 => EarlyRecord(b, c, p)'
    /\ k \in 5 .. 8 => LateRecord(b, c, p)'
    /\ k # 0 => HaltGlobals(c, p)'
    /\ UNCHANGED <<execute_status, PID, PPID, saved_esp, buffer_flag, lost>>

\* Such a step keeps Linked.
LEMMA OthersStand ==
    ASSUME Sound, Healthy, NEW b, NEW c, NEW p, NEW k \in 0 .. 8, HaltStep(b, c, p, k)
    PROVE  Linked'
<1>0. /\ b = buffer_flag /\ pc' = [pc EXCEPT ![b] = k]
      /\ Apart(b, c, p) /\ TableTyped'
      /\ \A i \in Slots \ {c, p} : SlotSame(i)
      /\ victim' \in [Terminals -> Slots] /\ caller' \in [Terminals -> Slots]
      /\ \A t \in Terminals \ {b} : victim'[t] = victim[t] /\ caller'[t] = caller[t]
      /\ victim'[b] = c /\ caller'[b] = p
      /\ k \in 1 .. 4 => EarlyRecord(b, c, p)'
      /\ k \in 5 .. 8 => LateRecord(b, c, p)'
      /\ k # 0 => HaltGlobals(c, p)'
      /\ UNCHANGED <<execute_status, PID, PPID, saved_esp, buffer_flag, lost>>
  BY DEF HaltStep
<1> USE <1>0
<1>1. /\ b \in Terminals /\ HaltsTyped
      /\ \A t \in Halting \cup Leaving : t \in Started /\ t \in Terminals
  BY LinkedFacts
<1>2. b \in Started
  BY Runner
<1>3. /\ pc \in [Terminals -> 0 .. 8] /\ lost \subseteq Leaving \ {b}
      /\ victim \in [Terminals -> Slots] /\ caller \in [Terminals -> Slots]
  BY <1>1 DEF HaltsTyped
<1>4. pc'[b] = k /\ \A t \in Terminals \ {b} : pc'[t] = pc[t]
  BY <1>1, <1>3
<1>5. /\ \A t : t # b => /\ t \in Halting' <=> t \in Halting
                         /\ t \in Leaving' <=> t \in Leaving
                         /\ t \in Kept' <=> t \in Kept
      /\ b \in Halting' <=> k \in 1 .. 4
      /\ b \in Leaving' <=> k \in 5 .. 8
      /\ b \in Kept' => k \in 5 .. 8
  BY <1>1, <1>4 DEF Halting, Leaving, Kept
<1>6. HaltsTyped'
  <2>1. lost' \subseteq Leaving' \ {buffer_flag'}
    BY <1>3, <1>5
  <2>2. pc' \in [Terminals -> 0 .. 8]
    BY <1>3
  <2> QED BY <1>1, <2>1, <2>2 DEF HaltsTyped
<1>7. \A t \in Halting' \cup Leaving' : t \in Started'
  BY <1>1, <1>2, <1>5 DEF Started
<1>8. ASSUME NEW t \in Halting' PROVE EarlyRecord(t, victim[t], caller[t])'
  <2>1. CASE t = b
    BY <1>5, <1>8, <2>1
  <2>2. CASE t # b
    <3>0. PICK d, q : d = victim[t] /\ q = caller[t]
      BY Zenon
    <3>1. t \in Halting /\ t \in Terminals /\ EarlyRecord(t, d, q)
          /\ d \in Slots \ {c, p} /\ q \in Slots \ {c, p}
      BY <1>1, <1>3, <1>5, <1>8, <2>2, <3>0, LinkedFacts DEF Apart
    <3>2. EarlyRecord(t, d, q)'
      BY <1>4, <2>2, <3>1 DEF EarlyRecord, SlotSame
    <3> QED BY <2>2, <3>0, <3>1, <3>2
  <2> QED BY <2>1, <2>2
<1>9. ASSUME NEW t \in Kept' PROVE LateRecord(t, victim[t], caller[t])'
  <2>1. CASE t = b
    BY <1>5, <1>9, <2>1
  <2>2. CASE t # b
    <3>0. PICK d, q : d = victim[t] /\ q = caller[t]
      BY Zenon
    <3>1. t \in Kept /\ t \in Terminals
      BY <1>5, <1>9, <2>2 DEF Kept, Leaving
    <3>2. LateRecord(t, d, q) /\ d \in Slots \ {c, p}
      BY <1>3, <2>2, <3>0, <3>1, LinkedFacts DEF Apart
    <3>3. LateRecord(t, d, q)'
      BY <1>4, <2>2, <3>1, <3>2 DEF LateRecord, SlotSame
    <3> QED BY <2>2, <3>0, <3>1, <3>3
  <2> QED BY <2>1, <2>2
<1>10. \A t \in Halting' \ {buffer_flag'} : pc'[t] \in {1, 4}
  <2>1. \A t \in Halting \ {b} : pc[t] \in {1, 4}
    BY LinkedFacts
  <2> QED BY <1>1, <1>4, <1>5, <2>1
<1>11. ASSUME NEW t \in (Halting' \cup Kept') \ {buffer_flag'}
       PROVE  HaltSaved(t, victim[t], caller[t])'
  <2>1. t # b /\ t \in Halting \cup Kept /\ t \in Terminals
    BY <1>5, <1>11 DEF Halting, Kept, Leaving
  <2>2. HaltSaved(t, victim[t], caller[t])
    BY <2>1, LinkedFacts
  <2>3. pc'[t] = pc[t] /\ victim'[t] = victim[t] /\ caller'[t] = caller[t]
    BY <1>4, <2>1
  <2> QED BY <2>2, <2>3 DEF HaltSaved
<1>12. ASSUME NEW t \in Kept', NEW u \in Kept', victim'[t] = victim'[u] PROVE t = u
  <2>1. \A v \in Kept' : v # b => v \in Kept /\ victim'[v] = victim[v]
                                  /\ victim'[v] # c
    BY <1>5 DEF Apart, Kept, Leaving
  <2>2. \A v, w \in Kept : victim[v] = victim[w] => v = w
    BY LinkedFacts
  <2> QED BY <1>12, <2>1, <2>2
<1>13. Busy' => HaltGlobals(victim[buffer_flag], caller[buffer_flag])'
  BY <1>4 DEF Busy
<1> QED BY <1>6, <1>7, <1>8, <1>9, <1>10, <1>11, <1>12, <1>13 DEF Linked

\* The fault: the process on screen becomes a halting one, nothing else.
LEMMA FaultX ==
    ASSUME Sound, Fault, Healthy'
    PROVE  Sound'
<1>0. PICK c, p, b : c = current_process_ID /\ p = parent_PCB[c] /\ b = buffer_flag
  BY Zenon
<1>1. /\ Healthy /\ mode = "user" /\ ~Busy /\ pc[b] = 0 /\ p # c
      /\ pc' = [pc EXCEPT ![b] = 1] /\ victim' = [victim EXCEPT ![b] = c]
      /\ caller' = [caller EXCEPT ![b] = p] /\ lost' = lost
  BY <1>0 DEF Fault, At, Wrapper, Handler, Busy, Healthy, vars
<1>2. UNCHANGED <<flag, isActive, terminalNumber, parent_PCB, esp, parent_ESP0,
                  parent_process_ID, current_process_ID, esp0, page,
                  execute_status, PID, PPID, saved_esp,
                  buffer_flag, nxt_term, mode, loop, ret, home, popped, relocated>>
  BY DEF Fault, vars, pcb, cpu, term
<1>3. /\ b \in Terminals /\ c \in V!Live /\ c \in Slots /\ b \notin Halting \cup Leaving
      /\ isActive[c] = 1 /\ wasActive[c] = 1
      /\ terminalNumber[c] = b /\ wasTerminal[c] = b
      /\ wasParent[c] = p /\ wasEsp[c] = esp[c]
      /\ parent_process_ID = c /\ page = c /\ esp0 = c /\ flag[c] = 1
      /\ c \notin Victims \cup Waiters \cup Gone
      /\ wasCurrent = c /\ wasParentID = c /\ wasEsp0 = c /\ wasPage = c
      /\ TableTyped /\ HaltsTyped
  BY <1>0, <1>1, Running
<1>4. p \in Slots /\ wasActive[p] = 0 /\ esp[c] = p /\ wasTerminal[p] = b
  <2>1. V!HasWaitingParent(c)
    BY <1>1, <1>3, VSame DEF Sound, V!Inv, V!Consistent, V!ParentsWait
  <2> QED BY <1>1, <1>3, <2>1, VSame DEF V!HasWaitingParent, V!Live
<1>5. p \notin Victims \cup Waiters \cup Gone /\ isActive[p] = 0
  <2>1. p \notin Gone
    BY <1>1, <1>3, <1>4, GoneFacts, Sentinels
  <2>2. p \notin Victims \cup Waiters
    BY <1>1, <1>3, <1>4, Bystanders
  <2> QED BY <1>4, <2>1, <2>2 DEF wasActive
<1>6. /\ pc \in [Terminals -> 0 .. 8]
      /\ victim \in [Terminals -> Slots] /\ caller \in [Terminals -> Slots]
  BY <1>3 DEF HaltsTyped
<1>7. /\ pc'[b] = 1 /\ victim'[b] = c /\ caller'[b] = p
      /\ \A t \in Terminals \ {b} : pc'[t] = pc[t] /\ victim'[t] = victim[t]
                                    /\ caller'[t] = caller[t]
  BY <1>1, <1>3, <1>6
<1>8. Halting' = Halting \cup {b} /\ Leaving' = Leaving /\ Kept' = Kept
  BY <1>1, <1>3, <1>7 DEF Halting, Leaving, Kept
<1>9. \A t \in Halting \cup Leaving \cup Kept : t \in Terminals \ {b}
  BY <1>3 DEF Halting, Leaving, Kept
<1>10. Victims' = Victims \cup {c} /\ Waiters' = Waiters \cup {p} /\ Gone' = Gone
  <2>1. Victims' = Victims \cup {c}
    BY <1>7, <1>8, <1>9 DEF Victims
  <2>2. Waiters' = Waiters \cup {p}
    BY <1>7, <1>8, <1>9 DEF Waiters
  <2> QED BY <1>7, <1>8, <1>9, <2>1, <2>2 DEF Gone
<1>11. Early' /\ ~Late' /\ ~Early /\ ~Late
  BY <1>0, <1>1, <1>2, <1>7 DEF Early, Late
<1>12. wasActive' = wasActive
  BY <1>1, <1>2, <1>3, <1>4, <1>5, <1>10 DEF wasActive
<1>13. wasTerminal' = wasTerminal /\ wasParent' = wasParent /\ wasEsp' = wasEsp
  BY <1>2, <1>10 DEF wasTerminal, wasParent, wasEsp
<1>14. /\ wasCurrent' = wasCurrent /\ wasParentID' = wasParentID
       /\ wasEsp0' = wasEsp0 /\ wasPage' = wasPage
  BY <1>0, <1>2, <1>3, <1>7, <1>11 DEF wasCurrent, wasParentID, wasEsp0, wasPage
<1>15. wasPID' = wasPID /\ wasPPID' = wasPPID /\ wasSaved' = wasSaved
  BY <1>2, <1>7, <1>8, <1>9 DEF wasPID, wasPPID, wasSaved
<1>16. V!Inv'
  <2>1. UNCHANGED <<V!pcb, V!cpu, V!term>>
    BY <1>2, <1>12, <1>13, <1>14, <1>15 DEF V!pcb, V!cpu, V!term
  <2> QED BY <1>2, <2>1, VUnchanged DEF Sound
<1>17. EarlyRecord(b, c, p)' /\ HaltGlobals(c, p)'
  BY <1>0, <1>1, <1>2, <1>3, <1>4, <1>5, <1>7 DEF EarlyRecord, HaltGlobals
<1>18. Linked'
  <2>1. Apart(b, c, p)
    BY <1>3, <1>5 DEF Apart, Victims, Waiters, Gone
  <2>2. TableTyped' /\ \A i : SlotSame(i)
    BY <1>2, <1>3 DEF TableTyped, SlotSame
  <2>3. victim' \in [Terminals -> Slots] /\ caller' \in [Terminals -> Slots]
    BY <1>1, <1>3, <1>4, <1>6
  <2>4. HaltStep(b, c, p, 1)
    BY <1>0, <1>1, <1>2, <1>7, <1>17, <2>1, <2>2, <2>3 DEF HaltStep
  <2>5. 1 \in 0 .. 8
    OBVIOUS
  <2> QED BY <1>1, <2>4, <2>5, OthersStand
<1> QED BY <1>16, <1>18 DEF Sound

\* What is known of the halt on screen.
LEMMA HaltStands ==
    ASSUME Sound, Healthy, Busy, NEW c, NEW p, NEW b,
           b = buffer_flag, c = victim[b], p = caller[b]
    PROVE  /\ b \in Terminals /\ pc[b] \in 1 .. 8 /\ c \in Slots /\ p \in Slots /\ p # c
           /\ HaltGlobals(c, p) /\ Apart(b, c, p) /\ TableTyped /\ HaltsTyped
           /\ pc[b] \in 1 .. 4 => b \in Halting /\ EarlyRecord(b, c, p) /\ parent_ESP0[c] = p
           /\ pc[b] \in 5 .. 8 => b \in Kept /\ LateRecord(b, c, p) /\ c \in Gone
<1>1. /\ TableTyped /\ HaltsTyped /\ b \in Terminals /\ HaltGlobals(c, p)
      /\ Late => b \in Kept
  BY LinkedFacts
<1>2. pc[b] \in 1 .. 8 /\ c \in Slots /\ p \in Slots
  BY <1>1 DEF HaltsTyped, Busy
<1>3. CASE pc[b] \in 1 .. 4
  <2>1. b \in Halting
    BY <1>1, <1>3 DEF Halting
  <2>2. EarlyRecord(b, c, p) /\ parent_ESP0[c] = p /\ p # c /\ c \notin Gone /\ p \notin Gone
    BY <2>1, EarlyFacts
  <2>3. ASSUME NEW t \in Kept PROVE victim[t] \notin {c, p}
    BY <2>2 DEF Gone
  <2>4. ASSUME NEW t \in Halting \ {b}
        PROVE  victim[t] \notin {c, p} /\ caller[t] \notin {c, p}
    <3>1. victim[t] # c /\ caller[t] # p /\ victim[t] # p
      BY <2>1, <2>4, HaltsApart
    <3>2. c # caller[t]
      BY <2>1, <2>4, HaltsApart
    <3> QED BY <3>1, <3>2
  <2>5. Apart(b, c, p)
    BY <2>3, <2>4 DEF Apart
  <2> QED BY <1>1, <1>2, <1>3, <2>1, <2>2, <2>5
<1>4. CASE pc[b] \in 5 .. 8
  <2>1. b \in Kept /\ c \in Gone /\ b \notin Halting /\ Late
    BY <1>1, <1>4 DEF Late, Gone, Halting
  <2>2. LateRecord(b, c, p) /\ p # c
    BY <2>1, LinkedFacts DEF LateRecord
  <2>3. wasCurrent = p
    BY <2>1 DEF wasCurrent
  <2>4. p \notin Gone /\ wasTerminal[p] = b
    BY <2>3, Runner
  <2>5. p \notin Victims \cup Waiters
    BY <2>1, <2>4, Bystanders
  <2>6. c \notin Victims \cup Waiters
    BY <2>1, Bystanders
  <2>7. ASSUME NEW t \in Kept \ {b} PROVE victim[t] \notin {c, p}
    BY <2>1, <2>4, <2>7, LinkedFacts DEF Gone
  <2>8. Apart(b, c, p)
    BY <2>5, <2>6, <2>7 DEF Apart, Victims, Waiters
  <2> QED BY <1>1, <1>2, <1>4, <2>1, <2>2, <2>8
<1> QED BY <1>2, <1>3, <1>4

\* A step before the slot is released: in V nothing has happened yet.
LEMMA EarlyAdvances ==
    ASSUME Sound, Healthy, Busy, NEW c, NEW p, NEW b, NEW k \in 2 .. 4,
           b = buffer_flag, c = victim[b], p = caller[b], pc[b] \in 1 .. 3,
           pc' = [pc EXCEPT ![b] = k],
           isActive' \in [Slots -> {0, 1}], EarlyRecord(b, c, p)', HaltGlobals(c, p)',
           \A i \in Slots \ {c, p} : isActive'[i] = isActive[i],
           UNCHANGED <<flag, terminalNumber, parent_PCB, esp, parent_ESP0,
                       parent_process_ID, current_process_ID, page,
                       execute_status, PID, PPID, saved_esp,
                       buffer_flag, nxt_term, mode, loop, ret, home, popped, relocated,
                       victim, caller, lost>>
    PROVE  Sound'
<1>1. /\ b \in Terminals /\ c \in Slots /\ p \in Slots /\ Apart(b, c, p)
      /\ TableTyped /\ HaltsTyped /\ b \in Halting
  BY HaltStands
<1>2. /\ pc \in [Terminals -> 0 .. 8]
      /\ victim \in [Terminals -> Slots] /\ caller \in [Terminals -> Slots]
  BY <1>1 DEF HaltsTyped
<1>3. pc'[b] = k /\ \A t \in Terminals \ {b} : pc'[t] = pc[t]
  BY <1>1, <1>2
<1>4. Halting' = Halting /\ Leaving' = Leaving
  BY <1>1, <1>3 DEF Halting, Leaving
<1>5. Kept' = Kept /\ Victims' = Victims /\ Waiters' = Waiters
  BY <1>4 DEF Kept, Victims, Waiters
<1>6. Gone' = Gone
  BY <1>5 DEF Gone
<1>7. c \in Victims /\ p \in Waiters /\ Early /\ Early' /\ ~Late /\ ~Late'
  BY <1>1, <1>3 DEF Victims, Waiters, Early, Late
<1>8. wasActive' = wasActive
  BY <1>5, <1>7 DEF wasActive
<1>9. wasTerminal' = wasTerminal /\ wasParent' = wasParent /\ wasEsp' = wasEsp
  BY <1>6 DEF wasTerminal, wasParent, wasEsp
<1>10. /\ wasCurrent' = wasCurrent /\ wasParentID' = wasParentID
       /\ wasEsp0' = wasEsp0 /\ wasPage' = wasPage
  BY <1>7 DEF wasCurrent, wasParentID, wasEsp0, wasPage
<1>11. wasPID' = wasPID /\ wasPPID' = wasPPID /\ wasSaved' = wasSaved
  BY <1>4 DEF wasPID, wasPPID, wasSaved
<1>12. V!Inv'
  <2>1. UNCHANGED <<V!pcb, V!cpu, V!term>>
    BY <1>8, <1>9, <1>10, <1>11 DEF V!pcb, V!cpu, V!term
  <2> QED BY <2>1, VUnchanged DEF Sound
<1>13. Linked'
  <2>1. TableTyped' /\ \A i \in Slots \ {c, p} : SlotSame(i)
    BY <1>1 DEF TableTyped, SlotSame
  <2>2. HaltStep(b, c, p, k)
    BY <1>1, <1>2, <2>1 DEF HaltStep
  <2> QED BY <2>2, OthersStand
<1> QED BY <1>12, <1>13 DEF Sound

\* A step after the release: in V everything has happened.
LEMMA LateAdvances ==
    ASSUME Sound, Healthy, Busy, NEW c, NEW p, NEW b, NEW k \in 6 .. 8,
           b = buffer_flag, c = victim[b], p = caller[b], pc[b] \in 5 .. 7,
           pc' = [pc EXCEPT ![b] = k], TableTyped',
           LateRecord(b, c, p)', HaltGlobals(c, p)',
           \A i \in Slots \ {c} : SlotSame(i),
           UNCHANGED <<flag, isActive, parent_ESP0, esp0, page,
                       execute_status, PID, PPID, saved_esp,
                       buffer_flag, nxt_term, mode, loop, ret, home, popped, relocated,
                       victim, caller, lost>>
    PROVE  Sound'
<1>1. /\ b \in Terminals /\ c \in Slots /\ p \in Slots /\ Apart(b, c, p)
      /\ HaltsTyped /\ b \in Kept /\ c \in Gone
  BY HaltStands
<1>2. /\ pc \in [Terminals -> 0 .. 8]
      /\ victim \in [Terminals -> Slots] /\ caller \in [Terminals -> Slots]
  BY <1>1 DEF HaltsTyped
<1>3. pc'[b] = k /\ \A t \in Terminals \ {b} : pc'[t] = pc[t]
  BY <1>1, <1>2
<1>4. Halting' = Halting /\ Leaving' = Leaving
  BY <1>1, <1>3 DEF Halting, Leaving
<1>5. Kept' = Kept /\ Victims' = Victims /\ Waiters' = Waiters
  BY <1>4 DEF Kept, Victims, Waiters
<1>6. Gone' = Gone
  BY <1>5 DEF Gone
<1>7. ~Early /\ ~Early' /\ Late /\ Late'
  BY <1>3 DEF Early, Late
<1>8. wasActive' = wasActive
  BY <1>5 DEF wasActive
<1>9. wasTerminal' = wasTerminal /\ wasParent' = wasParent /\ wasEsp' = wasEsp
  BY <1>1, <1>6 DEF wasTerminal, wasParent, wasEsp, SlotSame
<1>10. /\ wasCurrent' = wasCurrent /\ wasParentID' = wasParentID
       /\ wasEsp0' = wasEsp0 /\ wasPage' = wasPage
  BY <1>7 DEF wasCurrent, wasParentID, wasEsp0, wasPage
<1>11. wasPID' = wasPID /\ wasPPID' = wasPPID /\ wasSaved' = wasSaved
  BY <1>4 DEF wasPID, wasPPID, wasSaved
<1>12. V!Inv'
  <2>1. UNCHANGED <<V!pcb, V!cpu, V!term>>
    BY <1>8, <1>9, <1>10, <1>11 DEF V!pcb, V!cpu, V!term
  <2> QED BY <2>1, VUnchanged DEF Sound
<1>13. Linked'
  <2>1. HaltStep(b, c, p, k)
    BY <1>1, <1>2 DEF HaltStep
  <2> QED BY <2>1, OthersStand
<1> QED BY <1>12, <1>13 DEF Sound

\* The slot is released: in V this is the halt.
LEMMA ReleaseAdvances ==
    ASSUME Sound, Healthy, Busy, NEW c, NEW p, NEW b,
           b = buffer_flag, c = victim[b], p = caller[b], pc[b] = 4,
           pc' = [pc EXCEPT ![b] = 5], flag' = [flag EXCEPT ![c] = 0],
           UNCHANGED <<isActive, terminalNumber, parent_PCB, esp, parent_ESP0,
                       parent_process_ID, current_process_ID, esp0, page,
                       execute_status, PID, PPID, saved_esp,
                       buffer_flag, nxt_term, mode, loop, ret, home, popped, relocated,
                       victim, caller, lost>>
    PROVE  Sound'
<1>1. /\ b \in Terminals /\ c \in Slots /\ p \in Slots /\ p # c /\ Apart(b, c, p)
      /\ TableTyped /\ HaltsTyped /\ b \in Halting /\ EarlyRecord(b, c, p)
      /\ HaltGlobals(c, p) /\ parent_ESP0[c] = p
  BY HaltStands
<1>2. /\ pc \in [Terminals -> 0 .. 8]
      /\ victim \in [Terminals -> Slots] /\ caller \in [Terminals -> Slots]
      /\ lost \subseteq Leaving \ {b}
  BY <1>1 DEF HaltsTyped
<1>3. pc'[b] = 5 /\ \A t \in Terminals \ {b} : pc'[t] = pc[t]
  BY <1>1, <1>2
<1>4. /\ isActive[p] = 1 /\ isActive[c] = 0 /\ parent_PCB[c] = p /\ esp[c] = p
      /\ esp0 = p /\ parent_process_ID = c /\ current_process_ID = c /\ mode = "user"
  BY <1>1 DEF EarlyRecord, HaltGlobals
<1>5. Halting' = Halting \ {b} /\ Leaving' = Leaving \cup {b} /\ Kept' = Kept \cup {b}
      /\ b \notin Leaving
  <2>1. Halting' = Halting \ {b} /\ Leaving' = Leaving \cup {b} /\ b \notin Leaving
    BY <1>1, <1>3 DEF Halting, Leaving
  <2> QED BY <1>2, <2>1 DEF Kept
<1>6. /\ Victims = Victims' \cup {c} /\ c \notin Victims' /\ p \notin Victims'
      /\ Waiters = Waiters' \cup {p} /\ c \notin Waiters' /\ p \notin Waiters'
      /\ Gone' = Gone \cup {c} /\ c \notin Gone /\ p \notin Gone
  <2>1. Victims = Victims' \cup {c} /\ c \notin Victims' /\ p \notin Victims'
    BY <1>1, <1>5 DEF Victims, Apart
  <2>2. Waiters = Waiters' \cup {p} /\ c \notin Waiters' /\ p \notin Waiters'
    BY <1>1, <1>5 DEF Waiters, Apart
  <2>3. Gone' = Gone \cup {c}
    BY <1>5 DEF Gone
  <2>4. c \notin Gone /\ p \notin Gone
    BY <1>1, EarlyFacts
  <2> QED BY <2>1, <2>2, <2>3, <2>4
<1>7. Early /\ ~Late /\ Late' /\ ~Early'
  BY <1>3 DEF Early, Late
<1>8. wasActive' = [wasActive EXCEPT ![p] = 1, ![c] = 0]
  BY <1>1, <1>4, <1>6 DEF wasActive
<1>9. /\ wasTerminal' = [wasTerminal EXCEPT ![c] = NoTerminal]
      /\ wasParent' = [wasParent EXCEPT ![c] = Null]
      /\ wasEsp' = [wasEsp EXCEPT ![c] = Null]
      /\ wasParent[c] = p /\ wasEsp[c] = p
  BY <1>1, <1>4, <1>6 DEF wasTerminal, wasParent, wasEsp
<1>10. /\ wasCurrent = c /\ wasParentID = c
       /\ wasCurrent' = p /\ wasParentID' = p /\ wasEsp0' = p /\ wasPage' = p
  BY <1>4, <1>7 DEF wasCurrent, wasParentID, wasEsp0, wasPage
<1>11. /\ wasPID' \in [Terminals -> Slots] /\ wasPPID' \in [Terminals -> Slots]
       /\ wasSaved' \in [Terminals -> Slots \cup {BootStack}]
       /\ \A t \in Terminals \ {b} : wasPID'[t] = wasPID[t] /\ wasPPID'[t] = wasPPID[t]
                                     /\ wasSaved'[t] = wasSaved[t]
  <2>1. /\ PID \in [Terminals -> Slots] /\ PPID \in [Terminals -> Slots]
        /\ saved_esp \in [Terminals -> Slots \cup {BootStack}]
    BY <1>1 DEF HaltsTyped
  <2> QED BY <1>2, <1>5, <2>1 DEF wasPID, wasPPID, wasSaved
<1>12. V!HaltCurrent
  <2>1. V!ReleasePCB(c, p) /\ V!BecomeParent(p)
    BY <1>8, <1>9, <1>10, VSame DEF V!ReleasePCB, V!BecomeParent
  <2>2. wasCurrent = c /\ wasParent[c] = p /\ wasEsp0' = parent_ESP0[c]
        /\ flag' = [flag EXCEPT ![c] = 0] /\ parent_ESP0' = parent_ESP0
    BY <1>1, <1>9, <1>10
  <2> QED BY <1>1, <2>1, <2>2 DEF V!HaltCurrent
<1>13. V!Inv'
  <2>1. ret' \in V!Returns
    BY VSame DEF Sound, V!Inv, V!WellTyped, V!TypeOK, Returns
  <2>2. wasEsp[wasParentID] \in V!Slots
    BY <1>1, <1>9, <1>10, VSame
  <2>3. /\ wasPID' \in [V!Terminals -> V!Slots] /\ wasPPID' \in [V!Terminals -> V!Slots]
        /\ wasSaved' \in [V!Terminals -> V!Slots \cup {V!BootStack}]
        /\ \A t \in V!Terminals \ {buffer_flag} :
              wasPID'[t] = wasPID[t] /\ wasPPID'[t] = wasPPID[t] /\ wasSaved'[t] = wasSaved[t]
    BY <1>11, VSame
  <2> QED BY <1>4, <1>12, <2>1, <2>2, <2>3, V!HaltedInv, VAssumptions DEF Sound
<1>14. LateRecord(b, c, p)' /\ HaltGlobals(c, p)'
  <2>1. flag'[c] = 0
    BY <1>1 DEF TableTyped
  <2> QED BY <1>1, <1>3, <1>4, <2>1 DEF LateRecord, HaltGlobals
<1>15. Linked'
  <2>1. TableTyped' /\ \A i \in Slots \ {c, p} : SlotSame(i)
    BY <1>1 DEF TableTyped, SlotSame
  <2>2. HaltStep(b, c, p, 5)
    BY <1>1, <1>2, <1>14, <2>1 DEF HaltStep
  <2>3. 5 \in 0 .. 8
    OBVIOUS
  <2> QED BY <2>2, <2>3, OthersStand
<1> QED BY <1>13, <1>15 DEF Sound

\* tss.esp0 is set to the parent's stack.
LEMMA HaltEsp0X ==
    ASSUME Sound, HaltEsp0, Healthy'
    PROVE  Sound'
<1>0. PICK c, p, b : c = victim[b] /\ p = caller[b] /\ b = buffer_flag
  BY Zenon
<1>1. /\ Healthy /\ Busy /\ pc[b] = 1 /\ pc' = [pc EXCEPT ![b] = 2]
      /\ UNCHANGED <<victim, caller, lost>>
  BY <1>0 DEF HaltEsp0, At, Goto, Busy, Healthy, hist
<1>2. /\ b \in Terminals /\ HaltsTyped /\ TableTyped /\ HaltGlobals(c, p)
      /\ EarlyRecord(b, c, p) /\ parent_ESP0[c] = p
  BY <1>0, <1>1, HaltStands
<1>3. current_process_ID = c /\ esp0' = p
  BY <1>0, <1>1, <1>2 DEF HaltGlobals, HaltEsp0
<1>4. UNCHANGED <<flag, isActive, terminalNumber, parent_PCB, esp, parent_ESP0,
                  parent_process_ID, current_process_ID, page,
                  execute_status, PID, PPID, saved_esp,
                  buffer_flag, nxt_term, mode, loop, ret, home, popped, relocated>>
  BY DEF HaltEsp0, pcb, term
<1>5. pc'[b] = 2
  BY <1>1, <1>2 DEF HaltsTyped
<1>6. EarlyRecord(b, c, p)'
  BY <1>1, <1>2, <1>4, <1>5 DEF EarlyRecord
<1>7. HaltGlobals(c, p)'
  BY <1>0, <1>1, <1>2, <1>3, <1>4, <1>5 DEF HaltGlobals
<1>8. 2 \in 2 .. 4 /\ pc[b] \in 1 .. 3 /\ isActive' \in [Slots -> {0, 1}]
  BY <1>1, <1>2, <1>4 DEF TableTyped
<1> QED BY <1>0, <1>1, <1>4, <1>6, <1>7, <1>8, EarlyAdvances

\* isActive of the parent and of the process, the release, and the terminal.
LEMMA HaltFieldX ==
    ASSUME Sound, HaltField, Healthy'
    PROVE  Sound'
<1>0. PICK c, p, b : c = victim[b] /\ p = caller[b] /\ b = buffer_flag
  BY Zenon
<1>1. /\ Healthy /\ Busy /\ pc[b] \in 2 .. 5 /\ UNCHANGED <<victim, caller, lost>>
      /\ pc' = [pc EXCEPT ![b] = pc[b] + 1]
  <2>1. Healthy
    BY DEF HaltField, Healthy
  <2>2. PICK k \in 2 .. 5 : pc[b] = k /\ pc' = [pc EXCEPT ![b] = k + 1]
                            /\ UNCHANGED <<victim, caller, lost>>
    BY <1>0 DEF HaltField, At, Goto, hist
  <2> QED BY <1>0, <2>1, <2>2 DEF Busy
<1>2. /\ b \in Terminals /\ HaltsTyped /\ TableTyped /\ HaltGlobals(c, p)
      /\ c \in Slots /\ p \in Slots /\ p # c
      /\ pc[b] \in 1 .. 4 => EarlyRecord(b, c, p)
      /\ pc[b] \in 5 .. 8 => LateRecord(b, c, p)
  BY <1>0, <1>1, HaltStands
<1>3. current_process_ID = c /\ parent_PCB[c] = p
  <2>1. current_process_ID = c
    BY <1>0, <1>1, <1>2 DEF HaltGlobals
  <2> QED BY <1>1, <1>2, <2>1 DEF EarlyRecord, LateRecord
<1>4. UNCHANGED <<parent_PCB, esp, parent_ESP0,
                  parent_process_ID, current_process_ID, esp0, page,
                  execute_status, PID, PPID, saved_esp,
                  buffer_flag, nxt_term, mode, loop, ret, home, popped, relocated>>
  BY DEF HaltField, cpu, term
<1>5. pc'[b] = pc[b] + 1
  BY <1>1, <1>2 DEF HaltsTyped
<1>6. HaltGlobals(c, p)'
  BY <1>0, <1>1, <1>2, <1>4, <1>5 DEF HaltGlobals
<1>7. CASE pc[b] = 2
  <2>1. isActive' = [isActive EXCEPT ![p] = 1] /\ UNCHANGED <<flag, terminalNumber>>
    BY <1>0, <1>3, <1>7 DEF HaltField, At
  <2>2. EarlyRecord(b, c, p)'
    BY <1>2, <1>4, <1>5, <1>7, <2>1 DEF EarlyRecord, TableTyped
  <2>3. PICK k \in 2 .. 4 : pc' = [pc EXCEPT ![b] = k]
    BY <1>1, <1>7
  <2>4. /\ pc[b] \in 1 .. 3 /\ isActive' \in [Slots -> {0, 1}]
        /\ \A i \in Slots \ {c, p} : isActive'[i] = isActive[i]
    BY <1>2, <1>7, <2>1 DEF TableTyped
  <2>5. Healthy /\ Busy /\ UNCHANGED <<victim, caller, lost>>
    BY <1>1
  <2> QED BY <1>0, <1>4, <1>6, <2>1, <2>2, <2>3, <2>4, <2>5, EarlyAdvances
<1>8. CASE pc[b] = 3
  <2>1. isActive' = [isActive EXCEPT ![c] = 0] /\ UNCHANGED <<flag, terminalNumber>>
    BY <1>0, <1>3, <1>8 DEF HaltField, At
  <2>2. EarlyRecord(b, c, p)'
    BY <1>2, <1>4, <1>5, <1>8, <2>1 DEF EarlyRecord, TableTyped
  <2>3. PICK k \in 2 .. 4 : pc' = [pc EXCEPT ![b] = k]
    BY <1>1, <1>8
  <2>4. /\ pc[b] \in 1 .. 3 /\ isActive' \in [Slots -> {0, 1}]
        /\ \A i \in Slots \ {c, p} : isActive'[i] = isActive[i]
    BY <1>2, <1>8, <2>1 DEF TableTyped
  <2>5. Healthy /\ Busy /\ UNCHANGED <<victim, caller, lost>>
    BY <1>1
  <2> QED BY <1>0, <1>4, <1>6, <2>1, <2>2, <2>3, <2>4, <2>5, EarlyAdvances
<1>9. CASE pc[b] = 4
  <2>1. flag' = [flag EXCEPT ![c] = 0] /\ UNCHANGED <<isActive, terminalNumber>>
    BY <1>0, <1>3, <1>9 DEF HaltField, At
  <2>2. pc' = [pc EXCEPT ![b] = 5]
    BY <1>1, <1>9
  <2> QED BY <1>0, <1>1, <1>4, <1>9, <2>1, <2>2, ReleaseAdvances
<1>10. CASE pc[b] = 5
  <2>1. terminalNumber' = [terminalNumber EXCEPT ![c] = NoTerminal]
        /\ UNCHANGED <<flag, isActive>>
    BY <1>0, <1>3, <1>10 DEF HaltField, At
  <2>2. LateRecord(b, c, p)'
    BY <1>2, <1>4, <1>5, <1>10, <2>1 DEF LateRecord, TableTyped
  <2>3. /\ 6 \in 6 .. 8 /\ pc[b] \in 5 .. 7 /\ pc' = [pc EXCEPT ![b] = 6]
    BY <1>1, <1>10
  <2>4. TableTyped' /\ \A i \in Slots \ {c} : SlotSame(i)
    BY <1>2, <1>4, <2>1 DEF TableTyped, SlotSame
  <2> QED BY <1>0, <1>1, <1>4, <1>6, <2>1, <2>2, <2>3, <2>4, LateAdvances
<1> QED BY <1>1, <1>7, <1>8, <1>9, <1>10

\* parent_process_ID is set to the parent.
LEMMA HaltParentIDX ==
    ASSUME Sound, HaltParentID, Healthy'
    PROVE  Sound'
<1>0. PICK c, p, b : c = victim[b] /\ p = caller[b] /\ b = buffer_flag
  BY Zenon
<1>1. /\ Healthy /\ Busy /\ pc[b] = 6 /\ pc' = [pc EXCEPT ![b] = 7]
      /\ UNCHANGED <<victim, caller, lost>>
  BY <1>0 DEF HaltParentID, At, Goto, Busy, Healthy, hist
<1>2. /\ b \in Terminals /\ HaltsTyped /\ TableTyped /\ HaltGlobals(c, p)
      /\ LateRecord(b, c, p)
  BY <1>0, <1>1, HaltStands
<1>3. current_process_ID = c /\ parent_PCB[c] = p /\ parent_process_ID' = p
  BY <1>0, <1>1, <1>2 DEF HaltGlobals, LateRecord, HaltParentID
<1>4. UNCHANGED <<flag, isActive, terminalNumber, parent_PCB, esp, parent_ESP0,
                  current_process_ID, esp0, page,
                  execute_status, PID, PPID, saved_esp,
                  buffer_flag, nxt_term, mode, loop, ret, home, popped, relocated>>
  BY DEF HaltParentID, pcb, term
<1>5. pc'[b] = 7
  BY <1>1, <1>2 DEF HaltsTyped
<1>6. LateRecord(b, c, p)' /\ HaltGlobals(c, p)'
  <2>1. LateRecord(b, c, p)'
    BY <1>1, <1>2, <1>4, <1>5 DEF LateRecord
  <2> QED BY <1>0, <1>1, <1>2, <1>3, <1>4, <1>5, <2>1 DEF HaltGlobals
<1>7. 7 \in 6 .. 8 /\ pc[b] \in 5 .. 7 /\ TableTyped' /\ \A i \in Slots \ {c} : SlotSame(i)
  BY <1>1, <1>2, <1>4 DEF TableTyped, SlotSame
<1> QED BY <1>0, <1>1, <1>4, <1>6, <1>7, LateAdvances

\* The PCB's pointers are cleared and the parent becomes the current process.
LEMMA HaltCurrentIDX ==
    ASSUME Sound, HaltCurrentID, Healthy'
    PROVE  Sound'
<1>0. PICK c, p, b : c = victim[b] /\ p = caller[b] /\ b = buffer_flag
  BY Zenon
<1>1. /\ Healthy /\ Busy /\ pc[b] = 7 /\ pc' = [pc EXCEPT ![b] = 8]
      /\ UNCHANGED <<victim, caller, lost>>
  BY <1>0 DEF HaltCurrentID, At, Goto, Busy, Healthy, hist
<1>2. /\ b \in Terminals /\ HaltsTyped /\ TableTyped /\ HaltGlobals(c, p)
      /\ LateRecord(b, c, p) /\ c \in Slots /\ p \in Slots
  BY <1>0, <1>1, HaltStands
<1>3. /\ current_process_ID = c /\ parent_PCB[c] = p /\ current_process_ID' = p
      /\ parent_PCB' = [parent_PCB EXCEPT ![c] = Null] /\ esp' = [esp EXCEPT ![c] = Null]
  <2>1. current_process_ID = c /\ parent_PCB[c] = p
    BY <1>0, <1>1, <1>2 DEF HaltGlobals, LateRecord
  <2> QED BY <2>1, Zenon DEF HaltCurrentID
<1>4. UNCHANGED <<flag, isActive, terminalNumber, parent_ESP0,
                  parent_process_ID, esp0, page,
                  execute_status, PID, PPID, saved_esp,
                  buffer_flag, nxt_term, mode, loop, ret, home, popped, relocated>>
  BY DEF HaltCurrentID, term
<1>5. pc'[b] = 8
  BY <1>1, <1>2 DEF HaltsTyped
<1>6. LateRecord(b, c, p)'
  BY <1>1, <1>2, <1>3, <1>4, <1>5 DEF LateRecord, TableTyped
<1>7. HaltGlobals(c, p)'
  BY <1>0, <1>1, <1>2, <1>3, <1>4, <1>5 DEF HaltGlobals
<1>8. 8 \in 6 .. 8 /\ pc[b] \in 5 .. 7 /\ TableTyped' /\ \A i \in Slots \ {c} : SlotSame(i)
  BY <1>1, <1>2, <1>3, <1>4 DEF TableTyped, SlotSame
<1> QED BY <1>0, <1>1, <1>4, <1>6, <1>7, <1>8, LateAdvances

\* The parent's page is mapped: the halt is over, and what is left of the process
\* is what V says of it.
LEMMA HaltReturnX ==
    ASSUME Sound, HaltReturn, Healthy'
    PROVE  Sound'
<1>0. PICK c, p, b : c = victim[b] /\ p = caller[b] /\ b = buffer_flag
  BY Zenon
<1>1. /\ Healthy /\ Busy /\ pc[b] = 8 /\ pc' = [pc EXCEPT ![b] = 0]
      /\ UNCHANGED <<victim, caller, lost>>
  BY <1>0 DEF HaltReturn, At, Goto, Busy, Healthy, hist
<1>2. /\ b \in Terminals /\ HaltsTyped /\ TableTyped /\ HaltGlobals(c, p)
      /\ LateRecord(b, c, p) /\ c \in Slots /\ p \in Slots /\ p # c
      /\ Apart(b, c, p) /\ b \in Kept /\ c \in Gone
  BY <1>0, <1>1, HaltStands
<1>3. /\ terminalNumber[c] = NoTerminal /\ parent_PCB[c] = Null /\ esp[c] = Null
      /\ parent_process_ID = p /\ current_process_ID = p
  BY <1>0, <1>1, <1>2 DEF LateRecord, HaltGlobals
<1>4. /\ page' = p /\ ret' = [why |-> "exception", eax |-> 1]
      /\ UNCHANGED <<flag, isActive, terminalNumber, parent_PCB, esp, parent_ESP0,
                     parent_process_ID, current_process_ID, esp0,
                     execute_status, PID, PPID, saved_esp,
                     buffer_flag, nxt_term, mode, loop, home, popped, relocated>>
  BY <1>3 DEF HaltReturn, pcb, term
<1>5. /\ pc \in [Terminals -> 0 .. 8]
      /\ victim \in [Terminals -> Slots] /\ caller \in [Terminals -> Slots]
      /\ PID \in [Terminals -> Slots] /\ PPID \in [Terminals -> Slots]
      /\ saved_esp \in [Terminals -> Slots \cup {BootStack}]
  BY <1>2 DEF HaltsTyped
<1>6. pc'[b] = 0 /\ \A t \in Terminals \ {b} : pc'[t] = pc[t]
  BY <1>1, <1>2, <1>5
<1>7. Halting' = Halting /\ Leaving' = Leaving \ {b} /\ Kept' = Kept \ {b}
  <2>1. Halting' = Halting /\ Leaving' = Leaving \ {b}
    BY <1>1, <1>6 DEF Halting, Leaving
  <2> QED BY <1>1, <2>1 DEF Kept
<1>8. Victims' = Victims /\ Waiters' = Waiters /\ Gone' = Gone \ {c}
  <2>1. Victims' = Victims /\ Waiters' = Waiters
    BY <1>1, <1>7 DEF Victims, Waiters
  <2>2. \A t \in Kept \ {b} : victim[t] # c
    BY <1>2 DEF Apart
  <2>3. Gone = {victim[t] : t \in Kept} /\ Gone' = {victim[t] : t \in Kept \ {b}}
    BY <1>1, <1>7 DEF Gone
  <2>4. Gone' = Gone \ {c}
    BY <1>0, <1>2, <2>2, <2>3
  <2> QED BY <2>1, <2>4
<1>9. ~Early /\ ~Early' /\ Late /\ ~Late'
  BY <1>0, <1>1, <1>4, <1>6 DEF Early, Late
<1>10. UNCHANGED <<wasActive, wasTerminal, wasParent, wasEsp>>
  BY <1>3, <1>4, <1>8 DEF wasActive, wasTerminal, wasParent, wasEsp
<1>11. UNCHANGED <<wasCurrent, wasParentID, wasEsp0, wasPage>>
  BY <1>0, <1>3, <1>4, <1>9 DEF wasCurrent, wasParentID, wasEsp0, wasPage
<1>12. /\ wasPID' \in [Terminals -> Slots] /\ wasPPID' \in [Terminals -> Slots]
       /\ wasSaved' \in [Terminals -> Slots \cup {BootStack}]
       /\ \A t \in Terminals \ {b} : wasPID'[t] = wasPID[t] /\ wasPPID'[t] = wasPPID[t]
                                     /\ wasSaved'[t] = wasSaved[t]
  BY <1>1, <1>4, <1>5, <1>7 DEF wasPID, wasPPID, wasSaved
<1>13. V!Inv'
  <2>1. ret' \in V!Returns
    <3>1. ret' \in Returns
      BY <1>4 DEF Returns
    <3> QED BY <3>1, VSame
  <2>2. /\ wasPID' \in [V!Terminals -> V!Slots] /\ wasPPID' \in [V!Terminals -> V!Slots]
        /\ wasSaved' \in [V!Terminals -> V!Slots \cup {V!BootStack}]
        /\ \A t \in V!Terminals \ {buffer_flag} :
              wasPID'[t] = wasPID[t] /\ wasPPID'[t] = wasPPID[t] /\ wasSaved'[t] = wasSaved[t]
    BY <1>0, <1>12, VSame
  <2>3. UNCHANGED <<V!pcb, V!cpu, execute_status, buffer_flag, nxt_term, mode, loop,
                    home, popped, relocated>>
    BY <1>4, <1>10, <1>11 DEF V!pcb, V!cpu
  <2>4. V!Healthy
    BY <1>1, VSame
  <2> QED BY <2>1, <2>2, <2>3, <2>4, V!OffScreenInv, VAssumptions DEF Sound
<1>14. Linked'
  <2>1. TableTyped' /\ \A i \in Slots \ {c, p} : SlotSame(i)
    BY <1>2, <1>4 DEF TableTyped, SlotSame
  <2>2. HaltStep(b, c, p, 0)
    BY <1>0, <1>1, <1>2, <1>4, <1>5, <2>1 DEF HaltStep
  <2>3. 0 \in 0 .. 8
    OBVIOUS
  <2> QED BY <1>1, <2>2, <2>3, OthersStand
<1> QED BY <1>13, <1>14 DEF Sound

-----------------------------------------------------------------------------
\* The first state: no halt is under way.
LEMMA XInitInv == XInit => XInv
<1> SUFFICES ASSUME XInit PROVE Sound
  BY DEF XInv
<1>1. /\ Init /\ pc = [t \in Terminals |-> 0] /\ victim = [t \in Terminals |-> 0]
      /\ caller = [t \in Terminals |-> 0] /\ lost = {}
      /\ buffer_flag \in Terminals
  BY Sentinels DEF XInit, Init
<1>2. /\ Halting = {} /\ Leaving = {} /\ Kept = {} /\ Victims = {} /\ Waiters = {}
      /\ Gone = {} /\ ~Busy /\ ~Early /\ ~Late
  BY <1>1 DEF Halting, Leaving, Kept, Victims, Waiters, Gone, Busy, Early, Late
<1>3. /\ TableTyped /\ PID \in [Terminals -> Slots] /\ PPID \in [Terminals -> Slots]
      /\ saved_esp \in [Terminals -> Slots \cup {BootStack}]
  BY <1>1, Sentinels DEF Init, TableTyped
<1>4. /\ wasActive = isActive /\ wasTerminal = terminalNumber
      /\ wasParent = parent_PCB /\ wasEsp = esp
  <2>1. wasActive = isActive
    BY <1>2, <1>3 DEF wasActive, TableTyped
  <2> QED BY <1>2, <1>3, <2>1 DEF wasTerminal, wasParent, wasEsp, TableTyped
<1>5. /\ wasCurrent = current_process_ID /\ wasParentID = parent_process_ID
      /\ wasEsp0 = esp0 /\ wasPage = page
      /\ wasPID = PID /\ wasPPID = PPID /\ wasSaved = saved_esp
  BY <1>2, <1>3 DEF wasCurrent, wasParentID, wasEsp0, wasPage, wasPID, wasPPID, wasSaved
<1>6. V!Init
  BY <1>1, <1>4, <1>5, VSame DEF Init, V!Init
<1>7. V!Inv
  BY <1>6, V!InitInv, VAssumptions
<1>8. Linked
  <2>1. /\ pc \in [Terminals -> 0 .. 8] /\ victim \in [Terminals -> Slots]
        /\ caller \in [Terminals -> Slots]
    BY <1>1, Sentinels
  <2> QED BY <1>1, <1>2, <1>3, <2>1 DEF Linked, HaltsTyped
<1> QED BY <1>7, <1>8 DEF Sound

\* No step leaves the kernel looping with interrupts off.
LEMMA NeverSpins == Sound /\ [XNext]_xvars => mode' # "spin"
<1> SUFFICES ASSUME Sound, [XNext]_xvars PROVE mode' # "spin"
  OBVIOUS
<1>1. mode # "spin"
  BY DEF Sound, V!Inv, V!Consistent, V!StartNeverSpins
<1>2. ASSUME NEW n, NEW e, StartTerminal(n, e) PROVE mode' # "spin"
  BY <1>2 DEF StartTerminal, SwitchAllowed, sys_call_execute
<1>3. ASSUME NEW n, NEW e, ResumeTerminal(n, e) PROVE mode' # "spin"
  BY <1>3 DEF ResumeTerminal
<1>4. ASSUME Undisturbed PROVE mode' # "spin"
  BY <1>1, <1>2, <1>3, <1>4
     DEF Undisturbed, Next, ExecuteProgram, sys_call_execute, ExecuteInvalid, ExecuteFull,
         HaltProgram, HaltBaseShell, RestartShell
<1>5. ASSUME Fault \/ HaltEsp0 \/ HaltField \/ HaltParentID \/ HaltCurrentID \/ HaltReturn
      PROVE  mode' = mode
  BY <1>5 DEF Fault, HaltEsp0, HaltField, HaltParentID, HaltCurrentID, HaltReturn, vars
<1>6. ASSUME NEW n, InterruptedHalt(n) \/ ResumeLost(n) PROVE mode' # "spin"
  BY <1>2, <1>3, <1>6 DEF InterruptedHalt, ResumeLost
<1>7. CASE UNCHANGED xvars
  BY <1>1, <1>7 DEF xvars, vars
<1> QED BY <1>1, <1>4, <1>5, <1>6, <1>7 DEF XNext

\* What the terminal on screen does when no halt is under way there.
LEMMA UndisturbedX ==
    ASSUME Sound, Undisturbed, Healthy'
    PROVE  Sound'
<1>1. /\ ~Busy /\ Quiet /\ Stack = esp0 /\ Next /\ StacksTaken
      /\ UNCHANGED <<pc, victim, caller>> /\ buffer_flag' \notin lost
  BY DEF Undisturbed, Busy, Quiet, Stack, hist
<1>2. CASE ExecuteProgram
  BY <1>1, <1>2, ExecuteX
<1>3. CASE ExecuteInvalid \/ ExecuteFull
  <2>1. ret' \in [why : {"invalid", "full"}, eax : {-1, 0}]
    BY <1>3 DEF ExecuteInvalid, ExecuteFull
  <2>2. UNCHANGED <<pcb, cpu, term, buffer_flag, nxt_term, mode, loop,
                    home, popped, relocated>>
    BY <1>3 DEF ExecuteInvalid, ExecuteFull
  <2>3. lost' = lost
    BY <1>1, <2>2 DEF StacksTaken, pcb
  <2> QED BY <1>1, <2>1, <2>2, <2>3, UnchangedX
<1>4. ASSUME NEW st \in Statuses, HaltProgram(st) PROVE Sound'
  BY <1>1, <1>4, HaltProgramX
<1>5. CASE HaltBaseShell
  BY <1>1, <1>5, HaltBaseShellX
<1>6. CASE RestartShell
  BY <1>1, <1>6, RestartShellX
<1>7. ASSUME NEW n \in Terminals, StartTerminal(n, esp0) PROVE Sound'
  BY <1>1, <1>7, StartX
<1>8. ASSUME NEW n \in Terminals, ResumeTerminal(n, esp0) PROVE Sound'
  <2>1. n \notin lost
    BY <1>1, <1>8 DEF ResumeTerminal, SaveContext
  <2> QED BY <1>1, <1>8, <2>1, ResumeX
<1> QED BY <1>1, <1>2, <1>3, <1>4, <1>5, <1>6, <1>7, <1>8 DEF Next

\* Every step keeps the invariant.
LEMMA XNextInv == XInv /\ [XNext]_xvars => XInv'
<1> SUFFICES ASSUME XInv, [XNext]_xvars, ~cut' PROVE Sound'
  BY DEF XInv
<1>1. ~cut
  BY DEF XNext, Fault, HaltEsp0, HaltField, HaltParentID, HaltCurrentID, HaltReturn,
         InterruptedHalt, ResumeLost, Undisturbed, Goto, hist, xvars
<1>2. Sound
  BY <1>1 DEF XInv
<1>3. CASE ~Healthy'
  <2>1. V!Inv'
    BY <1>2, <1>3, NeverSpins, VVacuous
  <2> QED BY <1>3, <2>1 DEF Sound, Linked
<1>4. CASE Healthy'
  <2>1. CASE Fault
    BY <1>2, <1>4, <2>1, FaultX
  <2>2. CASE HaltEsp0
    BY <1>2, <1>4, <2>2, HaltEsp0X
  <2>3. CASE HaltField
    BY <1>2, <1>4, <2>3, HaltFieldX
  <2>4. CASE HaltParentID
    BY <1>2, <1>4, <2>4, HaltParentIDX
  <2>5. CASE HaltCurrentID
    BY <1>2, <1>4, <2>5, HaltCurrentIDX
  <2>6. CASE HaltReturn
    BY <1>2, <1>4, <2>6, HaltReturnX
  <2>7. ASSUME NEW n \in Terminals, InterruptedHalt(n) PROVE Sound'
    <3>1. /\ pc[buffer_flag] # 0 /\ StacksTaken /\ UNCHANGED <<pc, victim, caller>>
          /\ pc[buffer_flag] \notin {2, 3}
          /\ \/ StartTerminal(n, victim[buffer_flag])
             \/ n \notin lost /\ ResumeTerminal(n, victim[buffer_flag])
      BY <2>7 DEF InterruptedHalt
    <3>2. Quiet /\ Stack = victim[buffer_flag]
      BY <3>1 DEF Quiet, Stack, Busy
    <3> QED BY <1>2, <1>4, <3>1, <3>2, StartX, ResumeX
  <2>8. ASSUME NEW n \in Terminals, ResumeLost(n) PROVE FALSE
    BY <1>4, <2>8 DEF ResumeLost, Healthy
  <2>9. CASE Undisturbed
    BY <1>2, <1>4, <2>9, UndisturbedX
  <2>10. CASE UNCHANGED xvars
    <3>1. UNCHANGED <<pcb, cpu, term, buffer_flag, nxt_term, mode, loop, ret,
                      home, popped, relocated>> /\ UNCHANGED <<pc, victim, caller, lost>>
      BY <2>10 DEF xvars, vars, hist
    <3> QED BY <1>2, <3>1, UnchangedX
  <2> QED
    BY <2>1, <2>2, <2>3, <2>4, <2>5, <2>6, <2>7, <2>8, <2>9, <2>10 DEF XNext
<1> QED BY <1>3, <1>4

\* The inductive invariant: as long as no switch has come between line 46 and the
\* second write of isActive, the state in which every halt happens at once is
\* consistent, and each halt has done exactly the assignments up to where it stands.
THEOREM XInvHolds == XSpec => []XInv
<1>1. XInit => XInv
  BY XInitInv
<1>2. XInv /\ [XNext]_xvars => XInv'
  BY XNextInv
<1> QED BY <1>1, <1>2, PTL DEF XSpec

\* After the fault of a program the kernel's records agree on its parent, whatever
\* terminals the user has looked at meanwhile and however many halts were under
\* way, unless a switch came where tss.esp0 and isActive say different things
\* (sys_call_halt called by a handler of IDT.c).
THEOREM RestoredUnlessCutHolds == XSpec => []RestoredUnlessCut
<1>1. XInv => RestoredUnlessCut
  <2> SUFFICES ASSUME XInv, ~cut PROVE RestoredUnlessCut
    BY DEF RestoredUnlessCut
  <2>1. Sound
    BY DEF XInv
  <2>2. FaultRestoresParent
    <3> SUFFICES ASSUME Settled PROVE FaultRestoresParent
      BY DEF FaultRestoresParent
    <3>1. Healthy /\ ~Busy
      BY DEF Settled, Busy
    <3> QED BY <2>1, <3>1, Running DEF FaultRestoresParent
  <2>3. ASSUME Healthy, pc[buffer_flag] = 8
        PROVE  current_process_ID = caller[buffer_flag]
    <3>1. HaltGlobals(victim[buffer_flag], caller[buffer_flag])
      BY <2>1, <2>3, LinkedFacts DEF Busy
    <3> QED BY <2>3, <3>1 DEF HaltGlobals
  <2> QED BY <2>2, <2>3 DEF RestoredUnlessCut
<1> QED BY <1>1, XInvHolds, PTL

\* Execute and a first switch give the kernel stack of a halt to another process
\* only when the halt was left after it had released its slot (syscalls.c:64).
THEOREM StackKeptUntilReleaseHolds == XSpec => []StackKeptUntilRelease
<1>1. XInv => StackKeptUntilRelease
  <2> SUFFICES ASSUME XInv, ~cut, Healthy PROVE \A t \in lost : pc[t] \in 5 .. 8
    BY DEF StackKeptUntilRelease
  <2>1. HaltsTyped
    BY LinkedFacts DEF XInv
  <2> QED BY <2>1 DEF HaltsTyped, Leaving
<1> QED BY <1>1, XInvHolds, PTL
=============================================================================
