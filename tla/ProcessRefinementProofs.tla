---------------------- MODULE ProcessRefinementProofs ----------------------
(***************************************************************************)
(* ProcessTerminals implements JobStacks, for every number of slots and    *)
(* terminals: the processes of a terminal form one chain of parents, so    *)
(* the stack of jobs is determined by the process table, and every action  *)
(* pushes, pops, opens, looks or leaves all stacks alone.                  *)
(***************************************************************************)
EXTENDS ProcessRefinement, ProcessTerminalsProofs, FiniteSetTheorems

\* s is the chain of processes of terminal t, from its shell to the active one.
IsStackOf(s, t) ==
    /\ s \in Seq(Slots) /\ Len(s) \in Nat \ {0}
    /\ \A k \in 1 .. Len(s) : s[k] \in Live /\ terminalNumber[s[k]] = t
    /\ \A j, k \in 1 .. Len(s) : s[j] = s[k] => j = k
    /\ parent_PCB[s[1]] = s[1]
    /\ \A k \in 2 .. Len(s) : parent_PCB[s[k]] = s[k - 1]
    /\ isActive[s[Len(s)]] = 1
    /\ \A i \in Live : terminalNumber[i] = t => \E k \in 1 .. Len(s) : s[k] = i

\* Every terminal that was started has such a chain, with all of its processes
\* on it: none is cut off from its shell.
Chained == Healthy => \A t \in Started : \E s : IsStackOf(s, t)

RInv == Inv /\ Chained

\* a[1] is its own parent and every later element of a the child of the last.
Descends(par, a, m) ==
    /\ m \in Nat \ {0}
    /\ par[a[1]] = a[1]
    /\ \A k \in 2 .. m : par[a[k]] = a[k - 1] /\ a[k - 1] # a[k]

\* Two chains that end in the same process are the same.
LEMMA ChainUnique ==
    ASSUME NEW par, NEW a, NEW b, NEW m, NEW n,
           Descends(par, a, m), Descends(par, b, n), a[m] = b[n]
    PROVE  m = n /\ \A k \in 1 .. m : a[k] = b[k]
<1>0. /\ m \in Nat \ {0} /\ n \in Nat \ {0}
      /\ par[a[1]] = a[1] /\ \A k \in 2 .. m : par[a[k]] = a[k - 1] /\ a[k - 1] # a[k]
      /\ par[b[1]] = b[1] /\ \A k \in 2 .. n : par[b[k]] = b[k - 1] /\ b[k - 1] # b[k]
  BY DEF Descends
<1> USE <1>0
<1> DEFINE S == {d \in Nat : d < m /\ d < n /\ a[m - d] # b[n - d]}
<1>1. S = {}
  <2> SUFFICES ASSUME S # {} PROVE FALSE
    OBVIOUS
  <2>1. PICK d \in S : \A e \in S : d <= e
    <3>1. S \subseteq Nat
      OBVIOUS
    <3> HIDE DEF S
    <3> QED BY <3>1, LeastNatural
  <2>2. d # 0
    OBVIOUS
  <2>3. d - 1 \in Nat /\ ~(d - 1 \in S)
    <3>1. d \in Nat /\ d - 1 \in Nat /\ ~(d <= d - 1)
      BY <2>2
    <3> HIDE DEF S
    <3> QED BY <2>1, <3>1
  <2>4. a[m - (d - 1)] = b[n - (d - 1)]
    BY <2>3
  <2>5. PICK j, k : j = m - d /\ k = n - d
    OBVIOUS
  <2>6. a[j + 1] = b[k + 1] /\ j + 1 \in 2 .. m /\ k + 1 \in 2 .. n /\ j \in Nat /\ k \in Nat
    <3>1. m - (d - 1) = j + 1 /\ n - (d - 1) = k + 1
      BY <2>5
    <3> QED BY <2>4, <2>5, <3>1
  <2>7. par[a[j + 1]] = a[j] /\ par[b[k + 1]] = b[k]
    BY <2>6
  <2>8. a[j] = b[k]
    BY <2>6, <2>7
  <2> QED BY <2>5, <2>8
<1>2. ASSUME NEW d \in Nat, d < m, d < n PROVE a[m - d] = b[n - d]
  BY <1>1, <1>2
<1> HIDE DEF S
<1>3. m = n
  <2>1. CASE m < n
    <3>1. PICK k : k = n - m + 1
      OBVIOUS
    <3>2. k \in 2 .. n /\ n - (m - 1) = k /\ k - 1 \in Nat
      BY <2>1, <3>1
    <3>3. a[1] = b[k]
      <4>1. a[m - (m - 1)] = b[n - (m - 1)]
        BY <1>2, <2>1
      <4>2. m - (m - 1) = 1
        OBVIOUS
      <4> QED BY <3>2, <4>1, <4>2
    <3> QED BY <3>2, <3>3
  <2>2. CASE n < m
    <3>1. PICK k : k = m - n + 1
      OBVIOUS
    <3>2. k \in 2 .. m /\ m - (n - 1) = k /\ k - 1 \in Nat
      BY <2>2, <3>1
    <3>3. b[1] = a[k]
      <4>1. a[m - (n - 1)] = b[n - (n - 1)]
        BY <1>2, <2>2
      <4>2. n - (n - 1) = 1
        OBVIOUS
      <4> QED BY <3>2, <4>1, <4>2
    <3> QED BY <3>2, <3>3
  <2> QED BY <2>1, <2>2
<1>4. ASSUME NEW k \in 1 .. m PROVE a[k] = b[k]
  <2>1. m - k \in Nat /\ m - k < m /\ m - (m - k) = k /\ n - (m - k) = k
    BY <1>3
  <2>2. a[m - (m - k)] = b[n - (m - k)]
    BY <1>2, <1>3, <2>1
  <2> QED BY <2>1, <2>2
<1> QED BY <1>3, <1>4

\* A sequence of different slots is no longer than the table.
LEMMA FitsIn ==
    ASSUME NEW C \in SUBSET Slots, NEW m \in Nat, NEW s \in [1 .. m -> C],
           \A j, k \in 1 .. m : s[j] = s[k] => j = k
    PROVE  IsFiniteSet(C) /\ Cardinality(C) \in Nat /\ m <= Cardinality(C)
<1>1. IsFiniteSet(1 .. m) /\ Cardinality(1 .. m) = m
  BY FS_Interval
<1>2. IsFiniteSet(C) /\ Cardinality(C) \in Nat
  <2>1. SIZE_OF_PCB_ARRAY - 1 \in Nat
    BY SlotsAssumption
  <2>2. IsFiniteSet(Slots)
    BY <2>1, FS_Interval DEF Slots
  <2>3. IsFiniteSet(C)
    BY <2>2, FS_Subset
  <2> QED BY <2>3, FS_CardinalityType
<1>3. ASSUME Cardinality(C) < Cardinality(1 .. m) PROVE FALSE
  <2>1. \E j, k \in 1 .. m : j # k /\ s[j] = s[k]
    BY <1>1, <1>2, <1>3, FS_PigeonHole
  <2> QED BY <2>1
<1> QED BY <1>1, <1>2, <1>3

\* The lookup finds the one active process of a terminal.
LEMMA LookupIsActive ==
    ASSUME NEW t, NEW p \in Slots
    PROVE  Inv /\ Healthy /\ isActive[p] = 1 /\ terminalNumber[p] = t
           => get_current_process_ID(t) = p
<1> SUFFICES ASSUME Inv, Healthy, isActive[p] = 1, terminalNumber[p] = t
             PROVE  get_current_process_ID(t) = p
  OBVIOUS
<1> DEFINE S == {i \in Slots : terminalNumber[i] = t /\ isActive[i] = 1}
<1>1. p \in S /\ \A j \in S : j = p
  BY DEF Inv, Consistent, OneRunnerPerTerminal
<1>2. S = {p} /\ p \in Nat
  BY <1>1, Sentinels
<1> HIDE DEF S
<1>3. (CHOOSE i \in S : \A j \in S : i <= j) = p
  BY <1>2
<1>4. get_current_process_ID(t) =
        IF S = {} THEN NoProcess ELSE CHOOSE i \in S : \A j \in S : i <= j
  BY Zenon DEF S, get_current_process_ID
<1> QED BY <1>2, <1>3, <1>4

\* The jobs of a terminal are its chain, whichever way the chain was found.
LEMMA JobsAre ==
    ASSUME NEW t \in Terminals, NEW s
    PROVE  Inv /\ Healthy /\ t \in Started /\ IsStackOf(s, t) => JobsOf(t) = s
<1> SUFFICES ASSUME Inv, Healthy, t \in Started, IsStackOf(s, t) PROVE JobsOf(t) = s
  OBVIOUS
<1>0. PICK m, p : m = Len(s) /\ p = s[m]
  OBVIOUS
<1>1. /\ m \in Nat \ {0} /\ s \in Seq(Slots) /\ p \in Slots /\ isActive[p] = 1
      /\ terminalNumber[p] = t
  BY <1>0 DEF IsStackOf
<1>2. get_current_process_ID(t) = p
  BY <1>1, LookupIsActive
<1>3. PICK C : C = Candidates(p)
  OBVIOUS
<1>4. s \in StacksTo(p) /\ s \in [1 .. m -> C]
  <2>1. ASSUME NEW k \in 1 .. m PROVE s[k] \in C
    <3>1. CASE k = m
      BY <1>0, <1>3, <3>1 DEF Candidates
    <3>2. CASE k # m
      <4>0. PICK i, j : i = s[k] /\ j = s[k + 1]
        OBVIOUS
      <4>1. k \in 1 .. m /\ k + 1 \in 1 .. m /\ k + 1 \in 2 .. m /\ k + 1 # k
        BY <1>1, <2>1, <3>2
      <4>2. i \in Live /\ j \in Live /\ i # j
        BY <1>0, <4>0, <4>1 DEF IsStackOf
      <4>3. parent_PCB[j] = i
        <5>1. parent_PCB[s[k + 1]] = s[(k + 1) - 1]
          BY <1>0, <4>1 DEF IsStackOf
        <5> QED BY <4>0, <4>1, <5>1
      <4>4. isActive[i] = 0
        BY <4>2, <4>3 DEF Inv, Consistent, ParentsWait, HasWaitingParent
      <4> QED BY <1>3, <4>0, <4>2, <4>4 DEF Candidates
    <3> QED BY <3>1, <3>2
  <2>2. s \in [1 .. m -> C]
    BY <1>0, <1>1, <2>1
  <2>3. C \in SUBSET Slots
    BY <1>1, <1>3 DEF Candidates, Live
  <2>4. m \in 1 .. Cardinality(C)
    <3>1. \A j, k \in 1 .. m : s[j] = s[k] => j = k
      BY <1>0 DEF IsStackOf
    <3>2. Cardinality(C) \in Nat /\ m <= Cardinality(C)
      BY <1>1, <2>2, <2>3, <3>1, FitsIn
    <3> QED BY <1>1, <3>2
  <2> QED BY <1>3, <2>2, <2>4, Zenon DEF StacksTo
<1>5. IsChain(s, p)
  <2>1. ASSUME NEW k \in 2 .. m PROVE s[k - 1] # s[k]
    BY <1>0, <1>1 DEF IsStackOf
  <2> QED BY <1>0, <1>1, <2>1 DEF IsStackOf, IsChain
<1>6. ASSUME NEW r \in StacksTo(p), IsChain(r, p) PROVE r = s
  <2>1. PICK n \in 1 .. Cardinality(C) : r \in [1 .. n -> C]
    BY <1>3, Zenon DEF StacksTo
  <2>2. r \in Seq(C) /\ Len(r) = n /\ n \in Nat \ {0}
    BY <2>1
  <2>3. s[m] = r[n]
    BY <1>0, <1>6, <2>2 DEF IsChain
  <2>4. m = n /\ \A k \in 1 .. m : s[k] = r[k]
    <3>1. PICK par : par = parent_PCB
      OBVIOUS
    <3>2. Descends(par, s, m)
      BY <1>0, <1>1, <1>5, <3>1 DEF IsChain, Descends
    <3>3. Descends(par, r, n)
      BY <1>6, <2>2, <3>1 DEF IsChain, Descends
    <3>4. m = n
      BY <2>3, <3>2, <3>3, ChainUnique
    <3>5. \A k \in 1 .. m : s[k] = r[k]
      BY <2>3, <3>2, <3>3, ChainUnique
    <3> QED BY <3>4, <3>5
  <2> QED BY <1>4, <2>1, <2>4
<1>7. (CHOOSE r \in StacksTo(p) : IsChain(r, p)) = s
  BY <1>4, <1>5, <1>6, Zenon
<1>8. execute_status[t] # 0
  BY DEF Started
<1> QED BY <1>2, <1>7, <1>8 DEF JobsOf

\* The same of the state after a step.
LEMMA JobsAreAfter ==
    ASSUME NEW t \in Terminals, NEW s
    PROVE  (Inv /\ Healthy /\ t \in Started /\ IsStackOf(s, t) => JobsOf(t) = s)'
<1>1. Inv /\ Healthy /\ t \in Started /\ IsStackOf(s, t) => JobsOf(t) = s
  BY JobsAre
<1> QED BY <1>1, PTL

\* A terminal has one active process.
LEMMA OneActive ==
    ASSUME Inv, Healthy, NEW i \in Slots, NEW j \in Slots,
           isActive[i] = 1, isActive[j] = 1, terminalNumber[i] = terminalNumber[j]
    PROVE  i = j
BY DEF Inv, Consistent, OneRunnerPerTerminal

\* The jobs of a terminal that was started form its chain.
LEMMA JobsStack ==
    ASSUME RInv, Healthy, NEW t \in Started PROVE IsStackOf(JobsOf(t), t)
<1>1. PICK s : IsStackOf(s, t)
  BY DEF RInv, Chained
<1>2. JobsOf(t) = s
  BY <1>1, JobsAre DEF RInv, Started
<1> QED BY <1>1, <1>2

\* A terminal that was not started has no jobs.
LEMMA NoJobs ==
    ASSUME NEW t \in Terminals PROVE TypeOK /\ t \notin Started => JobsOf(t) = <<>>
BY DEF TypeOK, Started, JobsOf

LEMMA NoJobsAfter ==
    ASSUME NEW t \in Terminals PROVE (TypeOK /\ t \notin Started => JobsOf(t) = <<>>)'
<1>1. TypeOK /\ t \notin Started => JobsOf(t) = <<>>
  BY NoJobs
<1> QED BY <1>1, PTL

\* Only slots of live processes are in use by jobs.
LEMMA InUseLive == ASSUME RInv, Healthy PROVE Abstract!InUse \subseteq Live
<1> SUFFICES ASSUME NEW i \in Abstract!InUse PROVE i \in Live
  OBVIOUS
<1> DEFINE J == [t \in Terminals |-> JobsOf(t)]
<1>0. PICK t \in Terminals : i \in ToSet(J[t])
  BY Zenon DEF Abstract!InUse, Abstract!ToSet, ToSet
<1> USE <1>0
<1>1. t \in Started
  <2> SUFFICES ASSUME t \notin Started PROVE FALSE
    OBVIOUS
  <2>1. JobsOf(t) = <<>>
    BY NoJobs DEF RInv, Inv, WellTyped
  <2> QED BY <2>1 DEF ToSet
<1>2. PICK s : s = JobsOf(t)
  OBVIOUS
<1>3. IsStackOf(s, t) /\ i \in ToSet(s)
  BY <1>1, <1>2, JobsStack
<1> QED BY <1>3 DEF IsStackOf, ToSet

\* A step that leaves the processes of terminal t as they are leaves its jobs.
LEMMA JobsKept ==
    ASSUME RInv, Healthy, Inv', Healthy', NEW t \in Terminals,
           execute_status'[t] = execute_status[t],
           \A i \in Live : terminalNumber[i] = t =>
               /\ i \in Live' /\ terminalNumber'[i] = t
               /\ parent_PCB'[i] = parent_PCB[i] /\ isActive'[i] = isActive[i],
           \A i \in Live' : terminalNumber'[i] = t => i \in Live /\ terminalNumber[i] = t
    PROVE  JobsOf(t)' = JobsOf(t) /\ (t \in Started' => \E s : IsStackOf(s, t)')
<1>0. TypeOK /\ TypeOK' /\ (t \in Started' <=> t \in Started)
  BY DEF RInv, Inv, WellTyped, Started
<1>1. CASE t \in Started
  <2>1. PICK s : s = JobsOf(t)
    OBVIOUS
  <2>2. IsStackOf(s, t)
    BY <1>1, <2>1, JobsStack
  <2>3. PICK m \in Nat \ {0} : m = Len(s)
    BY <2>2 DEF IsStackOf
  <2>4. ASSUME NEW k \in 1 .. m
        PROVE  /\ s[k] \in Live' /\ terminalNumber'[s[k]] = t
               /\ parent_PCB'[s[k]] = parent_PCB[s[k]] /\ isActive'[s[k]] = isActive[s[k]]
    BY <2>2, <2>3 DEF IsStackOf
  <2>5. 1 \in 1 .. m /\ m \in 1 .. m
    OBVIOUS
  <2>6. IsStackOf(s, t)'
    <3>1. ASSUME NEW i \in Live', terminalNumber'[i] = t PROVE \E k \in 1 .. m : s[k] = i
      BY <2>2, <2>3, <3>1 DEF IsStackOf
    <3> QED BY <2>2, <2>3, <2>4, <2>5, <3>1 DEF IsStackOf
  <2>7. JobsOf(t)' = s
    BY <1>0, <1>1, <2>6, JobsAreAfter
  <2> QED BY <2>1, <2>6, <2>7
<1>2. CASE t \notin Started
  <2>1. JobsOf(t) = <<>>
    BY <1>0, <1>2, NoJobs
  <2>2. JobsOf(t)' = <<>>
    BY <1>0, <1>2, NoJobsAfter
  <2> QED BY <1>0, <1>2, <2>1, <2>2
<1> QED BY <1>1, <1>2

\* A step that changes none of what the chains are made of changes no job.
LEMMA StutterStep ==
    ASSUME RInv, Healthy, Inv', Healthy', Live' = Live,
           UNCHANGED <<isActive, terminalNumber, parent_PCB, execute_status, buffer_flag>>
    PROVE  Chained' /\ UNCHANGED Abstract!jvars
<1>1. ASSUME NEW t \in Terminals
      PROVE  JobsOf(t)' = JobsOf(t) /\ (t \in Started' => \E s : IsStackOf(s, t)')
  BY JobsKept
<1>2. Chained'
  BY <1>1 DEF Chained, Started
<1> QED BY <1>1, <1>2 DEF Abstract!jvars

\* The program that calls execute is on top of the stack on screen, and the new
\* process goes on top of it.
LEMMA ExecuteStep ==
    ASSUME RInv, ExecuteProgram, Inv', Healthy'
    PROVE  Chained' /\ Abstract!StartJob
<1> USE Sentinels
<1>0. PICK i, c, b : i = FirstFree /\ c = current_process_ID /\ b = buffer_flag
  BY Zenon
<1>1. Healthy /\ mode = "user" /\ mode' = "user" /\ Inv
  BY DEF ExecuteProgram, sys_call_execute, Healthy, RInv
<1>2. i \in Slots /\ flag[i] = 0
  BY <1>0, FirstFreeIsFree DEF ExecuteProgram, is_PCB_array_full
<1>3. TypeOK /\ Live = {j \in Slots : flag[j] = 1}
  BY <1>1 DEF Inv, WellTyped, Live
<1>4. /\ c \in Live /\ c \in Slots /\ isActive[c] = 1 /\ terminalNumber[c] = b
      /\ parent_process_ID = c /\ nxt_term = b /\ execute_status[b] = 1
      /\ b \in Terminals /\ b \in Started
  BY <1>0, <1>1, <1>3 DEF Inv, Consistent, RunningProcess, Started
<1>5. i # 0 /\ i # c /\ i \notin Live
  BY <1>1, <1>2, <1>3, <1>4 DEF Inv, Consistent, BootShell
<1>6. /\ flag' = [flag EXCEPT ![i] = 1]
      /\ parent_PCB' = [parent_PCB EXCEPT ![i] = c]
      /\ execute_status' = execute_status
      /\ isActive' = [isActive EXCEPT ![c] = 0, ![i] = 1]
      /\ terminalNumber' = [terminalNumber EXCEPT ![i] = b]
      /\ buffer_flag' = b
  BY <1>0, <1>3, <1>4, <1>5 DEF ExecuteProgram, sys_call_execute, TypeOK
<1>7. Live' = Live \cup {i} /\ Started' = Started
  BY <1>1, <1>2, <1>3, <1>6 DEF Live, Started, TypeOK
<1>8. ASSUME NEW j \in Live
      PROVE  /\ j \in Live' /\ j \in Slots /\ j # i
             /\ terminalNumber'[j] = terminalNumber[j]
             /\ parent_PCB'[j] = parent_PCB[j]
             /\ j # c => isActive'[j] = isActive[j]
  BY <1>3, <1>5, <1>6, <1>7 DEF TypeOK
<1>9. ASSUME NEW t \in Terminals, t # b
      PROVE  JobsOf(t)' = JobsOf(t) /\ (t \in Started' => \E s : IsStackOf(s, t)')
  <2>1. ASSUME NEW j \in Live, terminalNumber[j] = t
        PROVE  /\ j \in Live' /\ terminalNumber'[j] = t
               /\ parent_PCB'[j] = parent_PCB[j] /\ isActive'[j] = isActive[j]
    BY <1>4, <1>8, <1>9, <2>1
  <2>2. ASSUME NEW j \in Live', terminalNumber'[j] = t
        PROVE  j \in Live /\ terminalNumber[j] = t
    BY <1>2, <1>3, <1>6, <1>7, <1>9, <2>2 DEF TypeOK
  <2> QED BY <1>1, <1>6, <2>1, <2>2, JobsKept
<1>10. PICK s : s = JobsOf(b)
  OBVIOUS
<1>11. PICK m \in Nat \ {0} : m = Len(s)
  BY <1>1, <1>4, <1>10, JobsStack DEF IsStackOf
<1>12. /\ s \in Seq(Slots)
       /\ \A k \in 1 .. m : s[k] \in Live /\ terminalNumber[s[k]] = b
       /\ \A j, k \in 1 .. m : s[j] = s[k] => j = k
       /\ parent_PCB[s[1]] = s[1]
       /\ \A k \in 2 .. m : parent_PCB[s[k]] = s[k - 1]
       /\ isActive[s[m]] = 1
       /\ \A j \in Live : terminalNumber[j] = b => \E k \in 1 .. m : s[k] = j
  <2>1. IsStackOf(s, b)
    BY <1>1, <1>4, <1>10, JobsStack
  <2> QED BY <1>11, <2>1 DEF IsStackOf
<1>13. s[m] = c
  <2>1. m \in 1 .. m
    OBVIOUS
  <2>2. PICK e : e = s[m]
    OBVIOUS
  <2>3. e \in Slots /\ isActive[e] = 1 /\ terminalNumber[e] = b
    BY <1>3, <1>12, <2>1, <2>2
  <2> QED BY <1>1, <1>4, <2>2, <2>3, OneActive
<1>14. PICK r : r = Append(s, i)
  OBVIOUS
<1>15. /\ r \in Seq(Slots) /\ Len(r) = m + 1 /\ r[m + 1] = i
       /\ \A k \in 1 .. m : r[k] = s[k]
  <2>1. s \in Seq(Slots) /\ i \in Slots
    BY <1>2, <1>12
  <2> QED BY <1>11, <1>14, <2>1
<1>16. IsStackOf(r, b)'
  <2>1. ASSUME NEW k \in 1 .. m + 1
        PROVE  r[k] \in Live' /\ terminalNumber'[r[k]] = b
    <3>1. CASE k = m + 1
      BY <1>2, <1>3, <1>6, <1>7, <1>15, <3>1 DEF TypeOK
    <3>2. CASE k # m + 1
      <4>1. k \in 1 .. m
        BY <3>2
      <4>2. PICK e : e = s[k]
        OBVIOUS
      <4>3. r[k] = e /\ e \in Live /\ terminalNumber[e] = b
        BY <1>12, <1>15, <4>1, <4>2
      <4> QED BY <1>8, <4>3
    <3> QED BY <3>1, <3>2
  <2>2. ASSUME NEW j \in 1 .. m + 1, NEW k \in 1 .. m + 1, r[j] = r[k] PROVE j = k
    <3>1. (j = m + 1 \/ j \in 1 .. m) /\ (k = m + 1 \/ k \in 1 .. m)
      OBVIOUS
    <3> QED BY <1>5, <1>12, <1>15, <2>2, <3>1
  <2>3. parent_PCB'[r[1]] = r[1]
    <3>1. 1 \in 1 .. m
      OBVIOUS
    <3>2. r[1] = s[1] /\ s[1] \in Live /\ parent_PCB[s[1]] = s[1]
      BY <1>12, <1>15, <3>1
    <3> QED BY <1>8, <3>2
  <2>4. ASSUME NEW k \in 2 .. m + 1 PROVE parent_PCB'[r[k]] = r[k - 1]
    <3>1. CASE k = m + 1
      <4>1. k - 1 = m /\ m \in 1 .. m
        BY <3>1
      <4> QED BY <1>2, <1>3, <1>6, <1>13, <1>15, <3>1, <4>1 DEF TypeOK
    <3>2. CASE k # m + 1
      <4>1. k \in 2 .. m /\ k \in 1 .. m /\ k - 1 \in 1 .. m
        BY <3>2
      <4>2. PICK e, f : e = s[k] /\ f = s[k - 1]
        OBVIOUS
      <4>3. r[k] = e /\ r[k - 1] = f /\ e \in Live /\ parent_PCB[e] = f
        BY <1>12, <1>15, <4>1, <4>2
      <4> QED BY <1>8, <4>3
    <3> QED BY <3>1, <3>2
  <2>5. isActive'[i] = 1
    BY <1>2, <1>3, <1>6 DEF TypeOK
  <2>6. ASSUME NEW j \in Live', terminalNumber'[j] = b
        PROVE  \E k \in 1 .. m + 1 : r[k] = j
    <3>1. CASE j = i
      <4>1. m + 1 \in 1 .. m + 1
        OBVIOUS
      <4> QED BY <1>15, <3>1, <4>1
    <3>2. CASE j # i
      <4>1. PICK k \in 1 .. m : s[k] = j
        BY <1>7, <1>8, <1>12, <2>6, <3>2
      <4>2. k \in 1 .. m + 1 /\ r[k] = j
        BY <1>15, <4>1
      <4> QED BY <4>2
    <3> QED BY <3>1, <3>2
  <2> QED BY <1>15, <2>1, <2>2, <2>3, <2>4, <2>5, <2>6 DEF IsStackOf
<1>17. JobsOf(b)' = r
  BY <1>4, <1>7, <1>16, JobsAreAfter
<1>18. Chained'
  <2>1. ASSUME NEW t \in Started' PROVE \E q : IsStackOf(q, t)'
    BY <1>9, <1>16 DEF Started
  <2> QED BY <2>1 DEF Chained
<1>19. Abstract!StartJob
  <2>1. i \notin Abstract!InUse
    BY <1>1, <1>5, InUseLive
  <2>2. [t \in Terminals |-> JobsOf(t)']
          = [[t \in Terminals |-> JobsOf(t)] EXCEPT ![b] = Append(@, i)]
    BY <1>4, <1>9, <1>10, <1>14, <1>17
  <2> QED BY <1>0, <1>2, <1>6, <2>1, <2>2 DEF Abstract!StartJob
<1> QED BY <1>2, <1>18, <1>19

\* The program that halts is on top of the stack on screen and is not its shell;
\* the process below it wakes.
LEMMA HaltStep ==
    ASSUME RInv, NEW status \in Statuses, HaltProgram(status), Inv', Healthy'
    PROVE  Chained' /\ Abstract!EndJob
<1> USE Sentinels
<1>0. PICK c, p, b : c = current_process_ID /\ p = parent_PCB[c] /\ b = buffer_flag
  BY Zenon
<1>1. Healthy /\ mode = "user" /\ mode' = "user" /\ Inv
  BY DEF HaltProgram, Healthy, RInv
<1>2. TypeOK /\ Live = {j \in Slots : flag[j] = 1}
  BY <1>1 DEF Inv, WellTyped, Live
<1>3. /\ c \in Live /\ isActive[c] = 1 /\ terminalNumber[c] = b
      /\ parent_process_ID = c /\ b \in Started
  BY <1>0, <1>1 DEF Inv, Consistent, RunningProcess
<1>4. HasWaitingParent(c) /\ esp[c] \in Slots /\ b \in Terminals /\ c \in Slots
  BY <1>1, <1>2, <1>3 DEF Inv, Consistent, ParentsWait, HaltProgram, Started
<1>5. p # c /\ p \in Live /\ p \in Slots
  BY <1>0, <1>2, <1>3, <1>4 DEF HasWaitingParent, Started
<1>6. /\ flag' = [flag EXCEPT ![c] = 0]
      /\ isActive' = [isActive EXCEPT ![p] = 1, ![c] = 0]
      /\ terminalNumber' = [terminalNumber EXCEPT ![c] = NoTerminal]
      /\ parent_PCB' = [parent_PCB EXCEPT ![c] = Null]
      /\ execute_status' = execute_status
      /\ buffer_flag' = b
  BY <1>0, <1>5 DEF HaltProgram, HaltCurrent, ReleasePCB, BecomeParent, term
<1>7. Live' = Live \ {c} /\ Started' = Started
  BY <1>1, <1>2, <1>3, <1>6 DEF Live, Started, TypeOK
<1>8. ASSUME NEW j \in Live, j # c
      PROVE  /\ j \in Live' /\ j \in Slots
             /\ terminalNumber'[j] = terminalNumber[j]
             /\ parent_PCB'[j] = parent_PCB[j]
             /\ j # p => isActive'[j] = isActive[j]
  BY <1>2, <1>6, <1>7, <1>8 DEF TypeOK
<1>9. terminalNumber[p] = b
  BY <1>0, <1>3, <1>4 DEF HasWaitingParent
<1>10. ASSUME NEW t \in Terminals, t # b
       PROVE  JobsOf(t)' = JobsOf(t) /\ (t \in Started' => \E s : IsStackOf(s, t)')
  <2>1. ASSUME NEW j \in Live, terminalNumber[j] = t
        PROVE  /\ j \in Live' /\ terminalNumber'[j] = t
               /\ parent_PCB'[j] = parent_PCB[j] /\ isActive'[j] = isActive[j]
    BY <1>3, <1>8, <1>9, <1>10, <2>1
  <2>2. ASSUME NEW j \in Live', terminalNumber'[j] = t
        PROVE  j \in Live /\ terminalNumber[j] = t
    BY <1>7, <1>8, <2>2
  <2> QED BY <1>1, <1>6, <2>1, <2>2, JobsKept
<1>11. PICK s : s = JobsOf(b)
  OBVIOUS
<1>12. PICK m \in Nat \ {0} : m = Len(s)
  BY <1>1, <1>3, <1>11, JobsStack DEF IsStackOf
<1>13. /\ s \in Seq(Slots)
       /\ \A k \in 1 .. m : s[k] \in Live /\ terminalNumber[s[k]] = b
       /\ \A j, k \in 1 .. m : s[j] = s[k] => j = k
       /\ parent_PCB[s[1]] = s[1]
       /\ \A k \in 2 .. m : parent_PCB[s[k]] = s[k - 1]
       /\ isActive[s[m]] = 1
       /\ \A j \in Live : terminalNumber[j] = b => \E k \in 1 .. m : s[k] = j
  <2>1. IsStackOf(s, b)
    BY <1>1, <1>3, <1>11, JobsStack
  <2> QED BY <1>12, <2>1 DEF IsStackOf
<1>14. s[m] = c
  <2>1. m \in 1 .. m
    OBVIOUS
  <2>2. PICK e : e = s[m]
    OBVIOUS
  <2>3. e \in Slots /\ isActive[e] = 1 /\ terminalNumber[e] = b
    BY <1>2, <1>13, <2>1, <2>2
  <2> QED BY <1>1, <1>3, <1>4, <2>2, <2>3, OneActive
<1>15. m # 1 /\ m - 1 \in Nat \ {0} /\ s[m - 1] = p
  <2>1. m # 1
    BY <1>0, <1>5, <1>13, <1>14
  <2>2. m \in 2 .. m
    BY <2>1
  <2> QED BY <1>0, <1>13, <1>14, <2>1, <2>2
<1>16. PICK n, r : n = m - 1 /\ r = SubSeq(s, 1, n)
  OBVIOUS
<1>17. r \in Seq(Slots) /\ Len(r) = n /\ n \in Nat \ {0} /\ \A k \in 1 .. n : r[k] = s[k]
  <2>1. s \in Seq(Slots) /\ n \in 1 .. Len(s)
    BY <1>12, <1>13, <1>15, <1>16
  <2> QED BY <1>15, <1>16, <2>1
<1>18. ASSUME NEW k \in 1 .. n
       PROVE  /\ r[k] = s[k] /\ s[k] \in Live /\ s[k] # c
              /\ terminalNumber[s[k]] = b /\ k \in 1 .. m
  <2>1. k \in 1 .. m /\ m \in 1 .. m /\ k # m
    BY <1>16
  <2> QED BY <1>13, <1>14, <1>17, <2>1
<1>19. IsStackOf(r, b)'
  <2>1. ASSUME NEW k \in 1 .. n
        PROVE  r[k] \in Live' /\ terminalNumber'[r[k]] = b
               /\ parent_PCB'[r[k]] = parent_PCB[s[k]]
    <3>1. PICK e : e = s[k]
      OBVIOUS
    <3>2. r[k] = e /\ e \in Live /\ e # c /\ terminalNumber[e] = b
      BY <1>18, <3>1
    <3> QED BY <1>8, <3>1, <3>2
  <2>2. ASSUME NEW j \in 1 .. n, NEW k \in 1 .. n, r[j] = r[k] PROVE j = k
    BY <1>13, <1>18, <2>2
  <2>3. parent_PCB'[r[1]] = r[1]
    <3>1. 1 \in 1 .. n
      BY <1>17
    <3> QED BY <1>13, <1>18, <2>1, <3>1
  <2>4. ASSUME NEW k \in 2 .. n PROVE parent_PCB'[r[k]] = r[k - 1]
    <3>1. k \in 1 .. n /\ k - 1 \in 1 .. n /\ k \in 2 .. m
      BY <1>16, <1>17
    <3> QED BY <1>13, <1>18, <2>1, <3>1
  <2>5. r[n] = p /\ isActive'[p] = 1
    BY <1>2, <1>5, <1>6, <1>15, <1>16, <1>17 DEF TypeOK
  <2>6. ASSUME NEW j \in Live', terminalNumber'[j] = b PROVE \E k \in 1 .. n : r[k] = j
    <3>1. j \in Live /\ j # c /\ terminalNumber[j] = b
      BY <1>7, <1>8, <2>6
    <3>2. PICK k \in 1 .. m : s[k] = j
      BY <1>13, <3>1
    <3>3. k \in 1 .. n
      BY <1>14, <1>16, <3>1, <3>2
    <3> QED BY <1>17, <3>2, <3>3
  <2> QED BY <1>17, <2>1, <2>2, <2>3, <2>4, <2>5, <2>6 DEF IsStackOf
<1>20. JobsOf(b)' = r
  BY <1>3, <1>4, <1>7, <1>19, JobsAreAfter
<1>21. Chained'
  <2>1. ASSUME NEW t \in Started' PROVE \E q : IsStackOf(q, t)'
    BY <1>10, <1>19 DEF Started
  <2> QED BY <2>1 DEF Chained
<1>22. Abstract!EndJob
  <2>1. Len(JobsOf(b)) > 1 /\ Abstract!Front(JobsOf(b)) = r
    BY <1>11, <1>12, <1>15, <1>16 DEF Abstract!Front
  <2>2. [t \in Terminals |-> JobsOf(t)']
          = [[t \in Terminals |-> JobsOf(t)] EXCEPT ![b] = Abstract!Front(@)]
    BY <1>4, <1>10, <1>20, <2>1
  <2> QED BY <1>0, <1>4, <1>6, <2>1, <2>2 DEF Abstract!EndJob
<1> QED BY <1>21, <1>22

\* The first switch to a terminal opens it with its shell.
LEMMA StartTerminalStep ==
    ASSUME RInv, NEW n \in Terminals, StartTerminal(n, esp0), Inv', Healthy'
    PROVE  Chained' /\ Abstract!OpenTerminal(n)
<1> USE Sentinels
<1>0. PICK i : i = FirstFree
  BY Zenon
<1>1. Healthy /\ mode = "user" /\ mode' = "user" /\ Inv /\ ~is_PCB_array_full
  BY DEF StartTerminal, SwitchAllowed, sys_call_execute, Healthy, RInv
<1>2. i \in Slots /\ flag[i] = 0
  BY <1>0, <1>1, FirstFreeIsFree DEF is_PCB_array_full
<1>3. TypeOK /\ Live = {j \in Slots : flag[j] = 1}
  BY <1>1 DEF Inv, WellTyped, Live
<1>4. i # 0 /\ i \notin Live /\ execute_status[n] = 0 /\ n \notin Started
  BY <1>1, <1>2, <1>3 DEF Inv, Consistent, BootShell, StartTerminal, Started
<1>5. /\ flag' = [flag EXCEPT ![i] = 1]
      /\ parent_PCB' = [parent_PCB EXCEPT ![i] = i]
      /\ execute_status' = [execute_status EXCEPT ![n] = 1]
      /\ isActive' = [isActive EXCEPT ![i] = 1]
      /\ terminalNumber' = [terminalNumber EXCEPT ![i] = n]
      /\ buffer_flag' = n
  BY <1>0, <1>1, <1>4 DEF StartTerminal, SaveContext, sys_call_execute
<1>6. Live' = Live \cup {i}
  BY <1>1, <1>2, <1>3, <1>5 DEF Live, TypeOK
<1>7. ASSUME NEW t \in Terminals, t # n
      PROVE  JobsOf(t)' = JobsOf(t) /\ (t \in Started' => \E s : IsStackOf(s, t)')
  <2>1. ASSUME NEW j \in Live, terminalNumber[j] = t
        PROVE  /\ j \in Live' /\ terminalNumber'[j] = t
               /\ parent_PCB'[j] = parent_PCB[j] /\ isActive'[j] = isActive[j]
    BY <1>3, <1>4, <1>5, <1>6, <2>1 DEF TypeOK
  <2>2. execute_status'[t] = execute_status[t]
    BY <1>3, <1>5, <1>7 DEF TypeOK
  <2>3. ASSUME NEW j \in Live', terminalNumber'[j] = t
        PROVE  j \in Live /\ terminalNumber[j] = t
    BY <1>2, <1>3, <1>5, <1>6, <1>7, <2>3 DEF TypeOK
  <2> QED BY <1>1, <2>1, <2>2, <2>3, JobsKept
<1>8. PICK r : r = <<i>>
  OBVIOUS
<1>9. r \in Seq(Slots) /\ Len(r) = 1 /\ r[1] = i
  BY <1>2, <1>8
<1>10. i \in Live' /\ terminalNumber'[i] = n /\ parent_PCB'[i] = i /\ isActive'[i] = 1
  BY <1>2, <1>3, <1>5, <1>6 DEF TypeOK
<1>11. IsStackOf(r, n)'
  <2>1. ASSUME NEW j \in Live', terminalNumber'[j] = n PROVE j = i
    <3>1. ASSUME NEW k \in Live PROVE terminalNumber[k] # n
      BY <1>1, <1>4 DEF Inv, Consistent, ParentsWait, HasWaitingParent
    <3> QED BY <1>3, <1>5, <1>6, <2>1, <3>1 DEF TypeOK
  <2>2. 1 \in 1 .. 1
    OBVIOUS
  <2> QED BY <1>9, <1>10, <2>1, <2>2 DEF IsStackOf
<1>12. n \in Started'
  BY <1>3, <1>5 DEF Started, TypeOK
<1>13. JobsOf(n)' = r
  BY <1>11, <1>12, JobsAreAfter
<1>14. Chained'
  <2>1. ASSUME NEW t \in Started' PROVE \E q : IsStackOf(q, t)'
    BY <1>7, <1>11 DEF Started
  <2> QED BY <2>1 DEF Chained
<1>15. Abstract!OpenTerminal(n)
  <2>1. i \notin Abstract!InUse
    BY <1>1, <1>4, InUseLive
  <2>2. JobsOf(n) = <<>>
    BY <1>3, <1>4, NoJobs
  <2>3. [t \in Terminals |-> JobsOf(t)']
          = [[t \in Terminals |-> JobsOf(t)] EXCEPT ![n] = <<i>>]
    BY <1>7, <1>8, <1>13
  <2> QED BY <1>2, <1>5, <2>1, <2>2, <2>3 DEF Abstract!OpenTerminal
<1> QED BY <1>2, <1>14, <1>15

\* A switch back to a terminal changes what is on screen and no job.
LEMMA ResumeTerminalStep ==
    ASSUME RInv, NEW n \in Terminals, ResumeTerminal(n, esp0), Inv', Healthy'
    PROVE  Chained' /\ Abstract!Look(n)
<1>1. mode = "user" /\ Healthy
  BY DEF ResumeTerminal, Healthy
<1>2. /\ UNCHANGED <<flag, isActive, terminalNumber, parent_PCB, execute_status>>
      /\ buffer_flag' = n /\ n # buffer_flag /\ n \in Started
  BY DEF ResumeTerminal, SaveContext, SwitchAllowed, pcb, Started
<1>3. mode' = "user"
  <2>1. mode' \in {"undefined", "user"}
    BY Zenon DEF ResumeTerminal
  <2> QED BY <2>1 DEF Healthy
<1>4. Live' = Live
  BY <1>1, <1>2, <1>3 DEF Live
<1>5. ASSUME NEW t \in Terminals
      PROVE  JobsOf(t)' = JobsOf(t) /\ (t \in Started' => \E s : IsStackOf(s, t)')
  BY <1>1, <1>2, <1>4, JobsKept
<1>6. Chained'
  BY <1>5 DEF Chained, Started
<1>7. JobsOf(n) # <<>>
  <2>1. PICK s : s = JobsOf(n)
    OBVIOUS
  <2>2. Len(s) # 0
    BY <1>1, <1>2, <2>1, JobsStack DEF IsStackOf
  <2>3. Len(<<>>) = 0
    OBVIOUS
  <2> QED BY <2>1, <2>2, <2>3
<1> QED BY <1>2, <1>5, <1>6, <1>7 DEF Abstract!Look

\* The exit of a shell and its next round leave the shell where it was.
LEMMA ShellStep ==
    ASSUME RInv, HaltBaseShell \/ RestartShell, Inv', Healthy'
    PROVE  Chained' /\ UNCHANGED Abstract!jvars
<1> USE Sentinels
<1>0. PICK c : c = current_process_ID
  BY Zenon
<1>1. Healthy /\ Inv
  <2>1. CASE HaltBaseShell
    BY <2>1 DEF HaltBaseShell, Healthy, RInv
  <2>2. CASE RestartShell
    BY <2>2, Zenon DEF RestartShell, Healthy, RInv
  <2> QED BY <2>1, <2>2
<1>2. /\ TypeOK /\ c \in Live /\ c \in Slots /\ parent_process_ID = c
      /\ terminalNumber[c] = buffer_flag /\ buffer_flag \in Started
      /\ nxt_term = buffer_flag /\ isActive[c] = 1 /\ HasWaitingParent(c)
  BY <1>0, <1>1 DEF Inv, WellTyped, Consistent, RunningProcess, ParentsWait, Live
<1>3. CASE HaltBaseShell
  <2>1. mode = "user" /\ mode' = "restart"
    BY <1>3 DEF HaltBaseShell, Healthy
  <2>2. esp[c] \in BaseFrames /\ esp[c] \notin Slots
    BY <1>0, <1>2, <1>3 DEF HaltBaseShell, BaseFrames
  <2>3. parent_PCB[c] = c
    BY <1>2, <2>2 DEF HasWaitingParent, TypeOK, Live
  <2>4. /\ flag' = [flag EXCEPT ![c] = 0] /\ current_process_ID' = c
        /\ UNCHANGED <<isActive, terminalNumber, parent_PCB, execute_status, buffer_flag>>
    BY <1>0, <1>3, <2>3 DEF HaltBaseShell, HaltCurrent, term
  <2>5. Live' = Live
    BY <1>0, <1>2, <2>1, <2>4 DEF Live, TypeOK
  <2> QED BY <1>1, <2>4, <2>5, StutterStep
<1>4. CASE RestartShell
  <2>1. mode = "restart" /\ mode' = "user"
    BY <1>4 DEF RestartShell, sys_call_execute
  <2>2. FirstFree = c
    BY <1>0, <1>4, Zenon DEF RestartShell, Healthy
  <2>3. parent_PCB[c] = c
    BY <1>0, <1>1, <2>1 DEF Inv, Consistent, RestartOnScreen
  <2>4. /\ flag' = [flag EXCEPT ![c] = 1] /\ current_process_ID' = c
        /\ UNCHANGED <<isActive, terminalNumber, parent_PCB, execute_status, buffer_flag>>
    BY <1>2, <1>4, <2>2, <2>3 DEF RestartShell, sys_call_execute, TypeOK, Started
  <2>5. Live' = Live
    BY <1>0, <1>2, <2>1, <2>4 DEF Live, TypeOK
  <2> QED BY <1>1, <2>4, <2>5, StutterStep
<1> QED BY <1>3, <1>4

\* Calls of execute that fail, and stuttering, change no job.
LEMMA UnchangedStep ==
    ASSUME RInv, Inv', Healthy',
           UNCHANGED <<pcb, cpu, term, buffer_flag, mode, relocated>>
    PROVE  Chained' /\ UNCHANGED Abstract!jvars
<1>1. Healthy /\ Live' = Live
  BY DEF Healthy, Live, pcb, cpu
<1>2. UNCHANGED <<isActive, terminalNumber, parent_PCB, execute_status, buffer_flag>>
  BY DEF pcb, term
<1> QED BY <1>1, <1>2, StutterStep

\* Every step of the healthy system is a step of the job stacks or leaves them.
LEMMA StepRefines ==
    RInv /\ [Next /\ Healthy']_vars => RInv' /\ [Abstract!JNext]_(Abstract!jvars)
<1> SUFFICES ASSUME RInv, [Next /\ Healthy']_vars
             PROVE  RInv' /\ [Abstract!JNext]_(Abstract!jvars)
  OBVIOUS
<1>1. Inv'
  BY NextInv DEF RInv
<1>2. CASE UNCHANGED vars
  <2>1. CASE Healthy'
    <3>1. Chained' /\ UNCHANGED Abstract!jvars
      BY <1>1, <1>2, <2>1, UnchangedStep DEF vars
    <3> QED BY <1>1, <3>1 DEF RInv
  <2>2. CASE ~Healthy'
    <3>1. Chained'
      BY <2>2 DEF Chained
    <3>2. UNCHANGED Abstract!jvars
      BY <1>2 DEF vars, pcb, cpu, term, Abstract!jvars, JobsOf, StacksTo, Candidates, IsChain,
                  get_current_process_ID, Live
    <3> QED BY <1>1, <3>1, <3>2 DEF RInv
  <2> QED BY <2>1, <2>2
<1>3. CASE Next /\ Healthy'
  <2>1. CASE ExecuteProgram
    BY <1>1, <1>3, <2>1, ExecuteStep DEF RInv, Abstract!JNext
  <2>2. CASE ExecuteInvalid \/ ExecuteFull
    <3>1. Chained' /\ UNCHANGED Abstract!jvars
      BY <1>1, <1>3, <2>2, UnchangedStep DEF ExecuteInvalid, ExecuteFull
    <3> QED BY <1>1, <3>1 DEF RInv
  <2>3. ASSUME NEW status \in Statuses, HaltProgram(status)
        PROVE  RInv' /\ [Abstract!JNext]_(Abstract!jvars)
    BY <1>1, <1>3, <2>3, HaltStep DEF RInv, Abstract!JNext
  <2>4. CASE HaltBaseShell \/ RestartShell
    <3>1. Chained' /\ UNCHANGED Abstract!jvars
      BY <1>1, <1>3, <2>4, ShellStep
    <3> QED BY <1>1, <3>1 DEF RInv
  <2>5. ASSUME NEW n \in Terminals, StartTerminal(n, esp0)
        PROVE  RInv' /\ [Abstract!JNext]_(Abstract!jvars)
    BY <1>1, <1>3, <2>5, StartTerminalStep DEF RInv, Abstract!JNext
  <2>6. ASSUME NEW n \in Terminals, ResumeTerminal(n, esp0)
        PROVE  RInv' /\ [Abstract!JNext]_(Abstract!jvars)
    BY <1>1, <1>3, <2>6, ResumeTerminalStep DEF RInv, Abstract!JNext
  <2> QED BY <1>3, <2>1, <2>2, <2>3, <2>4, <2>5, <2>6 DEF Next
<1> QED BY <1>2, <1>3

\* The first shell is the one job of terminal 0.
LEMMA InitRefines == Init => RInv /\ Abstract!JInit
<1> SUFFICES ASSUME Init PROVE RInv /\ Abstract!JInit
  OBVIOUS
<1> USE Sentinels
<1>1. Inv /\ Healthy
  BY InitInv DEF Init, Healthy
<1>2. Started = {0} /\ Live = {0}
  BY DEF Init, Started, Live
<1>3. PICK s : s = <<0>>
  OBVIOUS
<1>4. s \in Seq(Slots) /\ Len(s) = 1 /\ s[1] = 0
  BY <1>3
<1>5. IsStackOf(s, 0)
  BY <1>2, <1>4 DEF Init, IsStackOf
<1>6. RInv
  BY <1>1, <1>2, <1>5 DEF RInv, Chained
<1>7. JobsOf(0) = <<0>>
  BY <1>1, <1>2, <1>3, <1>5, JobsAre
<1>8. ASSUME NEW t \in Terminals, t # 0 PROVE JobsOf(t) = <<>>
  BY <1>1, <1>2, <1>8, NoJobs DEF Inv, WellTyped
<1>9. Abstract!JInit
  BY <1>7, <1>8 DEF Init, Abstract!JInit
<1> QED BY <1>6, <1>9

-----------------------------------------------------------------------------
LEMMA ChainedHolds == HealthySpec => []RInv
<1>1. Init => RInv
  BY InitRefines
<1>2. RInv /\ [Next /\ Healthy']_vars => RInv'
  BY StepRefines
<1> QED BY <1>1, <1>2, PTL DEF HealthySpec

\* execute and halt lose no slot: every live process is on the stack of one
\* terminal, where halts lead from it to the shell.
THEOREM NoOrphansHolds == HealthySpec => []NoOrphans
<1>1. RInv => NoOrphans
  <2> SUFFICES ASSUME RInv, Healthy
               PROVE  /\ Abstract!InUse = Live
                      /\ \A t, u \in Terminals :
                            t < u => ToSet(JobsOf(t)) \cap ToSet(JobsOf(u)) = {}
    BY DEF NoOrphans
  <2>1. ASSUME NEW i \in Live PROVE i \in Abstract!InUse
    <3>1. PICK t : t = terminalNumber[i]
      OBVIOUS
    <3>2. t \in Started /\ t \in Terminals
      BY <3>1 DEF RInv, Inv, Consistent, ParentsWait, HasWaitingParent, Started
    <3>3. PICK s : s = JobsOf(t)
      OBVIOUS
    <3>4. IsStackOf(s, t)
      BY <3>2, <3>3, JobsStack
    <3>5. PICK k \in 1 .. Len(s) : s[k] = i
      BY <3>1, <3>4 DEF IsStackOf
    <3>6. i \in ToSet(s)
      BY <3>4, <3>5 DEF ToSet, IsStackOf
    <3> DEFINE J == [u \in Terminals |-> JobsOf(u)]
    <3>7. i \in Abstract!ToSet(J[t])
      BY <3>2, <3>3, <3>6 DEF ToSet, Abstract!ToSet
    <3> HIDE DEF J
    <3>8. i \in UNION {Abstract!ToSet(J[u]) : u \in Terminals}
      BY <3>2, <3>7
    <3> QED BY <3>8 DEF Abstract!InUse, J
  <2>2. ASSUME NEW t \in Terminals, NEW i \in ToSet(JobsOf(t))
        PROVE  terminalNumber[i] = t
    <3>1. t \in Started
      <4> SUFFICES ASSUME t \notin Started PROVE FALSE
        OBVIOUS
      <4>1. JobsOf(t) = <<>>
        BY NoJobs DEF RInv, Inv, WellTyped
      <4> QED BY <4>1 DEF ToSet
    <3>2. PICK s : s = JobsOf(t)
      OBVIOUS
    <3>3. IsStackOf(s, t) /\ i \in ToSet(s)
      BY <3>1, <3>2, JobsStack
    <3> QED BY <3>3 DEF IsStackOf, ToSet
  <2>3. ASSUME NEW t \in Terminals, NEW u \in Terminals, t < u
        PROVE  ToSet(JobsOf(t)) \cap ToSet(JobsOf(u)) = {}
    <3>1. t # u
      BY <2>3, Sentinels
    <3> QED BY <2>2, <3>1, Zenon
  <2> QED BY <2>1, <2>3, InUseLive
<1> QED BY <1>1, ChainedHolds, PTL

\* For every number of slots and terminals, execute pushes a job, halt pops one,
\* the Alt+F keys look at or open a terminal, and nothing else changes a job.
THEOREM RefinesJobStacks == HealthySpec => ImplementsJobStacks
<1>1. Init => Abstract!JInit
  BY InitRefines
<1>2. RInv /\ [Next /\ Healthy']_vars => [Abstract!JNext]_(Abstract!jvars)
  BY StepRefines
<1> QED
  BY <1>1, <1>2, ChainedHolds, PTL DEF HealthySpec, ImplementsJobStacks, Abstract!JSpec
=============================================================================
