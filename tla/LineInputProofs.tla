-------------------------- MODULE LineInputProofs --------------------------
(***************************************************************************)
(* Proofs about LineInput for every buffer size and every set of terminals *)
(* and keys.                                                               *)
(***************************************************************************)
EXTENDS LineInput, TLAPS

(***************************************************************************)
(* The inductive invariant.  LinesKept needs the saved arrays to be of     *)
(* their type only; ReadDeliversLine needs what a copy has done so far;    *)
(* NoForeignBytes needs to know of all of the shared array and of the      *)
(* saved ones, the stale bytes behind the lines included, that they hold   *)
(* nothing of another terminal.                                            *)
(***************************************************************************)
LineTyped == line \in [Terminals -> Seq(Terminals \X Keys)]

Waiting == {"idle", "spin", "woken"}
InCopy == {"test", "copy", "newline"}
Places == Waiting \cup InCopy \cup {"clear", "reset"}

\* How far the read of t has come; a read that no key disturbed has copied a
\* beginning of the line.
Progress(t) ==
    /\ pc[t] = "copy" => numberOfBytesRead[t] < BUFFER_SIZE
    /\ pc[t] \in {"test", "newline"} => numberOfBytesRead[t] <= BUFFER_SIZE
    /\ pc[t] \in Waiting => ~disturbed[t]
    /\ ~disturbed[t] =>
          /\ pc[t] \in InCopy =>
                /\ numberOfBytesRead[t] <= Len(line[t])
                /\ \A j \in 1 .. numberOfBytesRead[t] : buf[t][j - 1] = line[t][j]
          /\ pc[t] = "copy" => numberOfBytesRead[t] < Len(line[t])
          /\ pc[t] = "newline" => numberOfBytesRead[t] = Len(line[t])
          /\ pc[t] \in {"clear", "reset"} =>
                /\ numberOfBytesRead[t] = Len(line[t]) + 1
                /\ \A j \in 1 .. Len(line[t]) : buf[t][j - 1] = line[t][j]
                /\ buf[t][Len(line[t])] = <<NewLine>>

ReadsProgress == \A t \in Terminals : Progress(t)

\* The byte was not typed on a terminal other than t.
OwnByte(t, byte) == \A u \in Terminals \ {t} : byte \notin Typed(u)

\* Every byte kept for a terminal is its own, within its line and behind it.
Owned ==
    /\ \A j \in 0 .. BUFFER_SIZE - 1 : OwnByte(buffer_flag, buffer[j])
    /\ \A t \in Terminals, j \in 0 .. BUFFER_SIZE - 1 : OwnByte(t, saved_keyboard_buffer[t][j])

LInv == TypeOK /\ LineTyped /\ LinesKept /\ ReadsProgress /\ Owned /\ NoForeignBytes
-----------------------------------------------------------------------------
LEMMA Positions ==
    /\ BUFFER_SIZE \in Nat /\ BUFFER_SIZE > 0
    /\ 0 \in Terminals /\ Readers \subseteq Terminals
BY BufferAssumption, ScreenAssumption

\* A character is a pair; the bytes nobody typed are not.
LEMMA ByteKinds ==
    ASSUME NEW t \in Terminals
    PROVE  /\ \A b \in {<<Zero>>, <<Blank>>, <<NewLine>>, <<Untouched>>} :
                 b \in Bytes /\ OwnByte(t, b)
           /\ \A k \in Keys : <<t, k>> \in Bytes /\ OwnByte(t, <<t, k>>)
<1>1. ASSUME NEW x, NEW u PROVE <<x>> \notin Typed(u)
  BY DEF Typed
<1>2. ASSUME NEW k \in Keys, NEW u \in Terminals \ {t} PROVE <<t, k>> \notin Typed(u)
  BY DEF Typed
<1>3. \A b \in {<<Zero>>, <<Blank>>, <<NewLine>>, <<Untouched>>} : OwnByte(t, b)
  BY <1>1, Zenon DEF OwnByte
<1>4. \A k \in Keys : OwnByte(t, <<t, k>>)
  BY <1>2, Zenon DEF OwnByte
<1>5. \A b \in {<<Zero>>, <<Blank>>, <<NewLine>>, <<Untouched>>} : b \in Bytes
  BY Zenon DEF Bytes
<1>6. \A k \in Keys : <<t, k>> \in Bytes
  <2> SUFFICES ASSUME NEW k \in Keys PROVE <<t, k>> \in Terminals \X Keys
    BY Zenon DEF Bytes
  <2> QED OBVIOUS
<1> QED BY <1>3, <1>4, <1>5, <1>6

LEMMA PlacesAre ==
    Places = {"idle", "spin", "woken", "test", "copy", "newline", "clear", "reset"}
BY DEF Places, Waiting, InCopy

LEMMA FrontFacts ==
    ASSUME NEW S, NEW l \in Seq(S), Len(l) > 0
    PROVE  /\ Front(l) \in Seq(S) /\ Len(Front(l)) = Len(l) - 1
           /\ \A j \in 1 .. Len(l) - 1 : Front(l)[j] = l[j]
<1>1. PICK m \in Nat : m = Len(l) /\ m >= 1
  OBVIOUS
<1>2. PICK k : k = SubSeq(l, 1, m - 1)
  OBVIOUS
<1>3. k \in Seq(S) /\ Len(k) = m - 1
  BY <1>1, <1>2
<1>4. \A j \in 1 .. m - 1 : k[j] = l[j]
  BY <1>1, <1>2
<1> QED BY <1>1, <1>2, <1>3, <1>4, Zenon DEF Front

LEMMA InitInv == Init => LInv
<1> SUFFICES ASSUME Init PROVE LInv
  OBVIOUS
<1> USE Positions
<1>1. \A t \in Terminals : <<Zero>> \in Bytes /\ <<Untouched>> \in Bytes
                           /\ OwnByte(t, <<Zero>>) /\ OwnByte(t, <<Untouched>>)
  BY ByteKinds
<1>2. TypeOK
  <2>1. disturbed \in [Terminals -> BOOLEAN]
    BY Zenon DEF Init
  <2>2. buffer \in [0 .. BUFFER_SIZE - 1 -> Bytes] /\ buf \in [Terminals -> [0 .. BUFFER_SIZE -> Bytes]]
        /\ saved_keyboard_buffer \in [Terminals -> [0 .. BUFFER_SIZE - 1 -> Bytes]]
    BY <1>1 DEF Init
  <2>3. /\ buffer_Size \in 0 .. BUFFER_SIZE /\ enter_flag \in {0, 1} /\ buffer_flag \in Terminals
        /\ cur_buffer_Size \in [Terminals -> 0 .. BUFFER_SIZE]
        /\ pc \in [Terminals -> Places]
        /\ numberOfBytesRead \in [Terminals -> 0 .. BUFFER_SIZE + 1]
        /\ i \in [Terminals -> 0 .. BUFFER_SIZE]
    BY DEF Init, Places, Waiting, InCopy
  <2> QED BY <2>1, <2>2, <2>3, PlacesAre, Zenon DEF TypeOK
<1>3. LineTyped /\ LinesKept
  BY DEF Init, LineTyped, LinesKept, SizeOf, CharOf
<1>4. ReadsProgress
  BY DEF Init, ReadsProgress, Progress, Waiting, InCopy
<1>5. Owned
  BY <1>1 DEF Init, Owned
<1>6. NoForeignBytes
  BY <1>1 DEF Init, NoForeignBytes, OwnByte
<1> QED BY <1>2, <1>3, <1>4, <1>5, <1>6 DEF LInv

\* What a step leaves alone of a read, it leaves as far as it was.
LEMMA SameProgress ==
    ASSUME NEW t, Progress(t), pc'[t] = pc[t], numberOfBytesRead'[t] = numberOfBytesRead[t],
           buf'[t] = buf[t], line'[t] = line[t], disturbed'[t] = disturbed[t]
    PROVE  Progress(t)'
BY DEF Progress

\* A step of a read that changes only its own records, and the flag of Enter.
LEMMA ReadStepInv ==
    ASSUME LInv, NEW b, b = buffer_flag, enter_flag' \in {0, 1},
           UNCHANGED <<buffer, buffer_Size, buffer_flag, saved, line, disturbed>>,
           NEW there \in Places, pc' = [pc EXCEPT ![b] = there],
           pc[b] \in {"clear", "reset"} => there \in {"clear", "reset"},
           NEW x \in 0 .. BUFFER_SIZE + 1,
           numberOfBytesRead' = [numberOfBytesRead EXCEPT ![b] = x],
           NEW y \in 0 .. BUFFER_SIZE, i' = [i EXCEPT ![b] = y],
           NEW f \in [0 .. BUFFER_SIZE -> Bytes], buf' = [buf EXCEPT ![b] = f],
           \A j \in 0 .. BUFFER_SIZE : OwnByte(b, f[j]),
           Progress(b)'
    PROVE  LInv'
<1> USE Positions
<1>1. TypeOK /\ b \in Terminals
  BY DEF LInv, TypeOK
<1>2. TypeOK'
  <2>1. /\ pc' \in [Terminals -> Places] /\ buf' \in [Terminals -> [0 .. BUFFER_SIZE -> Bytes]]
        /\ numberOfBytesRead' \in [Terminals -> 0 .. BUFFER_SIZE + 1]
        /\ i' \in [Terminals -> 0 .. BUFFER_SIZE]
    BY <1>1, PlacesAre DEF TypeOK
  <2> QED BY <1>1, <2>1, PlacesAre, Zenon DEF TypeOK, saved
<1>3. LinesKept' /\ LineTyped'
  <2>1. ASSUME NEW t \in Terminals PROVE pc'[t] \notin {"clear", "reset"} => pc[t] \notin {"clear", "reset"}
    BY <1>1 DEF TypeOK
  <2> QED BY <2>1 DEF LInv, LineTyped, LinesKept, SizeOf, CharOf, saved
<1>4. Owned'
  BY DEF LInv, Owned, saved
<1>5. ReadsProgress'
  <2> SUFFICES ASSUME NEW t \in Terminals, t # b PROVE Progress(t)'
    BY DEF ReadsProgress
  <2>1. Progress(t)
    BY DEF LInv, ReadsProgress
  <2> QED BY <1>1, <2>1, SameProgress DEF TypeOK
<1>6. NoForeignBytes'
  BY <1>1 DEF LInv, NoForeignBytes, OwnByte, TypeOK
<1> QED BY <1>2, <1>3, <1>4, <1>5, <1>6 DEF LInv

\* A key changes the line on screen and the array with it.
LEMMA LineStepInv ==
    ASSUME LInv, NEW b, b = buffer_flag,
           UNCHANGED <<enter_flag, buffer_flag, saved, reads>>,
           NEW g \in [0 .. BUFFER_SIZE - 1 -> Bytes], buffer' = g,
           \A j \in 0 .. BUFFER_SIZE - 1 : OwnByte(b, g[j]),
           NEW l \in Seq(Terminals \X Keys), LineBecomes(l),
           buffer_Size' = Len(l), Len(l) <= BUFFER_SIZE,
           pc[b] \notin {"clear", "reset"} => \A j \in 1 .. Len(l) : g[j - 1] = l[j]
    PROVE  LInv'
<1> USE Positions
<1>1. TypeOK /\ b \in Terminals
  BY DEF LInv, TypeOK
<1>2. /\ line' = [line EXCEPT ![b] = l]
      /\ disturbed' \in [Terminals -> BOOLEAN]
      /\ \A t \in Terminals \ {b} : disturbed'[t] = disturbed[t]
      /\ pc[b] \notin Waiting => disturbed'[b]
      /\ pc[b] \in Waiting => disturbed'[b] = disturbed[b]
  <2>1. disturbed \in [Terminals -> BOOLEAN]
    BY <1>1 DEF TypeOK
  <2> QED BY <1>1, <2>1, Zenon DEF LineBecomes, Copying, Waiting
<1>3. TypeOK'
  <2>1. buffer' \in [0 .. BUFFER_SIZE - 1 -> Bytes] /\ buffer_Size' \in 0 .. BUFFER_SIZE
    OBVIOUS
  <2> QED BY <1>1, <1>2, <2>1, Zenon DEF TypeOK, saved, reads
<1>4. LinesKept' /\ LineTyped'
  BY <1>1, <1>2 DEF LInv, LineTyped, LinesKept, SizeOf, CharOf, saved, reads
<1>5. Owned'
  BY DEF LInv, Owned, saved
<1>6. ReadsProgress'
  <2> SUFFICES ASSUME NEW t \in Terminals PROVE Progress(t)'
    BY DEF ReadsProgress
  <2>1. Progress(t)
    BY DEF LInv, ReadsProgress
  <2>2. CASE t # b
    BY <1>1, <1>2, <2>1, <2>2, SameProgress DEF reads, LInv, LineTyped
  <2>3. CASE t = b /\ pc[b] \in Waiting
    BY <1>2, <2>1, <2>3 DEF Progress, reads, Waiting, InCopy
  <2>4. CASE t = b /\ pc[b] \notin Waiting
    BY <1>2, <2>1, <2>4 DEF Progress, reads, Waiting, InCopy
  <2> QED BY <2>2, <2>3, <2>4
<1>7. NoForeignBytes'
  BY DEF LInv, NoForeignBytes, reads
<1> QED BY <1>3, <1>4, <1>5, <1>6, <1>7 DEF LInv

-----------------------------------------------------------------------------
(***************************************************************************)
(* The keys.                                                               *)
(***************************************************************************)
\* Of the terminal on screen.
LEMMA OnScreen ==
    ASSUME LInv, NEW b, b = buffer_flag
    PROVE  /\ b \in Terminals /\ TypeOK /\ Progress(b)
           /\ line[b] \in Seq(Terminals \X Keys) /\ buffer_Size = Len(line[b])
           /\ pc[b] \notin {"clear", "reset"} => \A j \in 1 .. Len(line[b]) : buffer[j - 1] = line[b][j]
           /\ \A j \in 0 .. BUFFER_SIZE - 1 : OwnByte(b, buffer[j])
           /\ \A j \in 0 .. BUFFER_SIZE : OwnByte(b, buf[b][j])
<1>1. b \in Terminals /\ TypeOK
  BY DEF LInv, TypeOK
<1>2. Progress(b) /\ line[b] \in Seq(Terminals \X Keys)
  BY <1>1 DEF LInv, ReadsProgress, LineTyped
<1>3. /\ buffer_Size = Len(line[b])
      /\ pc[b] \notin {"clear", "reset"} => \A j \in 1 .. Len(line[b]) : buffer[j - 1] = line[b][j]
  BY <1>1 DEF LInv, LinesKept, SizeOf, CharOf
<1>4. /\ \A j \in 0 .. BUFFER_SIZE - 1 : OwnByte(b, buffer[j])
      /\ \A j \in 0 .. BUFFER_SIZE : OwnByte(b, buf[b][j])
  BY <1>1 DEF LInv, Owned, NoForeignBytes, OwnByte
<1> QED BY <1>1, <1>2, <1>3, <1>4

\* Putting a byte of the terminal on screen into the array.
LEMMA PutByte ==
    ASSUME LInv, NEW b, b = buffer_flag, NEW at \in Nat,
           NEW byte \in Bytes, OwnByte(b, byte), Put(at, byte)
    PROVE  /\ buffer' \in [0 .. BUFFER_SIZE - 1 -> Bytes]
           /\ \A j \in 0 .. BUFFER_SIZE - 1 :
                 buffer'[j] = (IF j = at THEN byte ELSE buffer[j]) /\ OwnByte(b, buffer'[j])
<1>1. /\ buffer \in [0 .. BUFFER_SIZE - 1 -> Bytes]
      /\ \A j \in 0 .. BUFFER_SIZE - 1 : OwnByte(b, buffer[j])
  BY OnScreen DEF TypeOK
<1> QED BY <1>1 DEF Put

LEMMA EnterInv == LInv /\ Enter => LInv'
<1> SUFFICES ASSUME LInv, Enter PROVE LInv'
  OBVIOUS
<1>1. PICK b : b = buffer_flag
  OBVIOUS
<1>2. /\ TypeOK /\ b \in Terminals /\ Progress(b)
      /\ \A j \in 0 .. BUFFER_SIZE : OwnByte(b, buf[b][j])
  BY <1>1, OnScreen
<1>3. /\ enter_flag' = 1
      /\ UNCHANGED <<buffer, buffer_Size, buffer_flag, saved, line, disturbed,
                     pc, buf, numberOfBytesRead, i>>
  BY DEF Enter, reads
<1>4. /\ pc' = [pc EXCEPT ![b] = pc[b]] /\ pc[b] \in Places
      /\ numberOfBytesRead' = [numberOfBytesRead EXCEPT ![b] = numberOfBytesRead[b]]
      /\ numberOfBytesRead[b] \in 0 .. BUFFER_SIZE + 1
      /\ i' = [i EXCEPT ![b] = i[b]] /\ i[b] \in 0 .. BUFFER_SIZE
      /\ buf' = [buf EXCEPT ![b] = buf[b]] /\ buf[b] \in [0 .. BUFFER_SIZE -> Bytes]
  BY <1>2, <1>3, PlacesAre DEF TypeOK
<1>5. Progress(b)'
  BY <1>2, <1>3, SameProgress
<1> QED BY <1>1, <1>2, <1>3, <1>4, <1>5, ReadStepInv

LEMMA PrintableInv == ASSUME LInv, NEW k \in Keys, Printable(k) PROVE LInv'
<1> USE Positions
<1>1. PICK b, l : b = buffer_flag /\ l = line[b]
  OBVIOUS
<1>2. /\ TypeOK /\ b \in Terminals /\ l \in Seq(Terminals \X Keys) /\ buffer_Size = Len(l)
      /\ pc[b] \notin {"clear", "reset"} => \A j \in 1 .. Len(l) : buffer[j - 1] = l[j]
  BY <1>1, OnScreen
<1>3. <<b, k>> \in Bytes /\ OwnByte(b, <<b, k>>) /\ <<b, k>> \in Terminals \X Keys
  BY <1>2, ByteKinds
<1>4. PICK m \in Seq(Terminals \X Keys) :
        /\ m = Append(l, <<b, k>>) /\ Len(m) = Len(l) + 1
        /\ \A j \in 1 .. Len(l) : m[j] = l[j]
        /\ m[Len(l) + 1] = <<b, k>>
  <2>1. PICK c \in Terminals \X Keys : c = <<b, k>>
    BY <1>3
  <2>2. PICK m : m = Append(l, c)
    OBVIOUS
  <2>3. /\ m \in Seq(Terminals \X Keys) /\ Len(m) = Len(l) + 1
        /\ \A j \in 1 .. Len(l) : m[j] = l[j]
        /\ m[Len(l) + 1] = c
    BY <1>2, <2>2
  <2> QED BY <2>1, <2>2, <2>3, Zenon
<1>5. /\ buffer_Size < BUFFER_SIZE /\ Put(buffer_Size, <<b, k>>)
      /\ buffer_Size' = buffer_Size + 1 /\ LineBecomes(m)
      /\ UNCHANGED <<enter_flag, buffer_flag, saved, reads>>
  BY <1>1, <1>4 DEF Printable, RoomInBuffer
<1>6. buffer_Size \in Nat
  BY <1>2 DEF TypeOK
<1>7. /\ buffer' \in [0 .. BUFFER_SIZE - 1 -> Bytes]
      /\ \A j \in 0 .. BUFFER_SIZE - 1 :
            buffer'[j] = (IF j = buffer_Size THEN <<b, k>> ELSE buffer[j]) /\ OwnByte(b, buffer'[j])
  BY <1>1, <1>3, <1>5, <1>6, PutByte
<1>8. pc[b] \notin {"clear", "reset"} => \A j \in 1 .. Len(m) : buffer'[j - 1] = m[j]
  <2> SUFFICES ASSUME pc[b] \notin {"clear", "reset"}, NEW j \in 1 .. Len(m) PROVE buffer'[j - 1] = m[j]
    OBVIOUS
  <2>1. Len(l) \in Nat /\ j - 1 \in 0 .. BUFFER_SIZE - 1
    BY <1>2, <1>4, <1>5
  <2>2. CASE j = Len(l) + 1
    BY <1>2, <1>4, <1>7, <2>1, <2>2
  <2>3. CASE j \in 1 .. Len(l)
    <3>1. buffer'[j - 1] = buffer[j - 1]
      BY <1>2, <1>7, <2>1, <2>3
    <3> QED BY <1>2, <1>4, <2>3, <3>1
  <2> QED BY <1>4, <2>1, <2>2, <2>3
<1>9. Len(m) <= BUFFER_SIZE /\ buffer_Size' = Len(m)
  BY <1>2, <1>4, <1>5, <1>6
<1> QED BY <1>1, <1>5, <1>7, <1>8, <1>9, LineStepInv

LEMMA BackspaceInv == LInv /\ Backspace => LInv'
<1> SUFFICES ASSUME LInv, Backspace PROVE LInv'
  OBVIOUS
<1> USE Positions
<1>1. PICK b, l : b = buffer_flag /\ l = line[b]
  OBVIOUS
<1>2. /\ TypeOK /\ b \in Terminals /\ l \in Seq(Terminals \X Keys) /\ buffer_Size = Len(l)
      /\ pc[b] \notin {"clear", "reset"} => \A j \in 1 .. Len(l) : buffer[j - 1] = l[j]
  BY <1>1, OnScreen
<1>3. <<Blank>> \in Bytes /\ OwnByte(b, <<Blank>>)
  BY <1>2, ByteKinds
<1>4. buffer_Size \in 0 .. BUFFER_SIZE /\ buffer_Size > 0
  BY <1>2 DEF TypeOK, Backspace
<1>5. PICK m \in Seq(Terminals \X Keys) :
        /\ m = Front(l) /\ Len(m) = Len(l) - 1
        /\ \A j \in 1 .. Len(l) - 1 : m[j] = l[j]
  BY <1>2, <1>4, FrontFacts
<1>6. /\ Put(buffer_Size, <<Blank>>)
      /\ buffer_Size' = buffer_Size - 1 /\ LineBecomes(m)
      /\ UNCHANGED <<enter_flag, buffer_flag, saved, reads>>
  BY <1>1, <1>5 DEF Backspace
<1>7. /\ buffer' \in [0 .. BUFFER_SIZE - 1 -> Bytes]
      /\ \A j \in 0 .. BUFFER_SIZE - 1 :
            buffer'[j] = (IF j = buffer_Size THEN <<Blank>> ELSE buffer[j]) /\ OwnByte(b, buffer'[j])
  <2>1. buffer_Size \in Nat
    BY <1>4
  <2> QED BY <1>1, <1>3, <1>6, <2>1, PutByte
<1>8. pc[b] \notin {"clear", "reset"} => \A j \in 1 .. Len(m) : buffer'[j - 1] = m[j]
  <2> SUFFICES ASSUME pc[b] \notin {"clear", "reset"}, NEW j \in 1 .. Len(m) PROVE buffer'[j - 1] = m[j]
    OBVIOUS
  <2>1. Len(l) \in Nat /\ j \in 1 .. Len(l) - 1 /\ j - 1 \in 0 .. BUFFER_SIZE - 1 /\ j - 1 # buffer_Size
    BY <1>2, <1>4, <1>5
  <2>2. buffer'[j - 1] = buffer[j - 1]
    BY <1>7, <2>1
  <2>3. j \in 1 .. Len(l)
    BY <2>1
  <2>4. \A x \in 1 .. Len(l) : buffer[x - 1] = l[x]
    BY <1>2
  <2>5. buffer[j - 1] = l[j]
    BY <2>3, <2>4
  <2>6. m[j] = l[j]
    BY <1>5, <2>1
  <2> QED BY <2>2, <2>5, <2>6
<1>9. Len(m) <= BUFFER_SIZE /\ buffer_Size' = Len(m)
  BY <1>2, <1>4, <1>5, <1>6
<1> QED BY <1>1, <1>6, <1>7, <1>8, <1>9, LineStepInv

LEMMA CtrlLInv == LInv /\ CtrlL => LInv'
<1> SUFFICES ASSUME LInv, CtrlL PROVE LInv'
  OBVIOUS
<1> USE Positions
<1>1. PICK b : b = buffer_flag
  OBVIOUS
<1>2. /\ buffer \in [0 .. BUFFER_SIZE - 1 -> Bytes]
      /\ \A j \in 0 .. BUFFER_SIZE - 1 : OwnByte(b, buffer[j])
  BY <1>1, OnScreen DEF TypeOK
<1>3. PICK m \in Seq(Terminals \X Keys) : m = <<>> /\ Len(m) = 0
  <2>1. <<>> \in Seq(Terminals \X Keys) /\ Len(<<>>) = 0
    OBVIOUS
  <2> QED BY <2>1, Zenon
<1>4. /\ buffer_Size' = 0 /\ LineBecomes(m) /\ buffer' = buffer
      /\ UNCHANGED <<enter_flag, buffer_flag, saved, reads>>
  BY <1>3 DEF CtrlL
<1>5. \A j \in 1 .. Len(m) : buffer[j - 1] = m[j]
  BY <1>3
<1>6. Len(m) <= BUFFER_SIZE /\ buffer_Size' = Len(m)
  BY <1>3, <1>4
<1> QED BY <1>1, <1>2, <1>4, <1>5, <1>6, LineStepInv

\* The line left is saved with the bytes of its terminal behind it; the one
\* brought back is what was saved, line and rest.
LEMMA SwitchInv == ASSUME LInv, NEW m \in Terminals, SwitchTerminal(m) PROVE LInv'
<1> USE Positions
<1>1. PICK o, g, s : o = buffer_flag /\ g = buffer /\ s = buffer_Size
  BY Zenon
<1>2. /\ TypeOK /\ o \in Terminals /\ s \in 0 .. BUFFER_SIZE /\ g \in [0 .. BUFFER_SIZE - 1 -> Bytes]
      /\ saved_keyboard_buffer \in [Terminals -> [0 .. BUFFER_SIZE - 1 -> Bytes]]
      /\ cur_buffer_Size \in [Terminals -> 0 .. BUFFER_SIZE]
  BY <1>1 DEF LInv, TypeOK
<1>3. PICK h : h = [j \in 0 .. BUFFER_SIZE - 1 |-> IF j < s THEN g[j] ELSE saved_keyboard_buffer[o][j]]
  OBVIOUS
<1>4. /\ m # o /\ buffer_flag' = m
      /\ buffer' = saved_keyboard_buffer[m] /\ buffer_Size' = cur_buffer_Size[m]
      /\ saved_keyboard_buffer' = [saved_keyboard_buffer EXCEPT ![o] = h]
      /\ cur_buffer_Size' = [cur_buffer_Size EXCEPT ![o] = s]
      /\ UNCHANGED <<enter_flag, pc, buf, numberOfBytesRead, i, line, disturbed>>
  <2>1. fill_buffer(saved_keyboard_buffer[o]) = h
    BY <1>1, <1>2, <1>3 DEF fill_buffer
  <2> QED BY <1>1, <2>1 DEF SwitchTerminal, Restore, reads
<1>5. /\ h \in [0 .. BUFFER_SIZE - 1 -> Bytes]
      /\ \A j \in 0 .. BUFFER_SIZE - 1 : h[j] = (IF j < s THEN g[j] ELSE saved_keyboard_buffer[o][j])
  BY <1>2, <1>3
<1>6. TypeOK'
  <2>1. /\ saved_keyboard_buffer' \in [Terminals -> [0 .. BUFFER_SIZE - 1 -> Bytes]]
        /\ cur_buffer_Size' \in [Terminals -> 0 .. BUFFER_SIZE]
        /\ buffer' \in [0 .. BUFFER_SIZE - 1 -> Bytes] /\ buffer_Size' \in 0 .. BUFFER_SIZE
    BY <1>2, <1>4, <1>5
  <2> QED BY <1>2, <1>4, <2>1, Zenon DEF TypeOK
<1>7. LinesKept' /\ LineTyped'
  <2> SUFFICES ASSUME NEW t \in Terminals
               PROVE  /\ SizeOf(t)' = SizeOf(t)
                      /\ \A j \in 0 .. SizeOf(t) - 1 : CharOf(t, j)' = CharOf(t, j)
    <3>1. ASSUME NEW u \in Terminals, NEW j \in 1 .. Len(line[u])
          PROVE  SizeOf(u) = Len(line[u]) /\ j - 1 \in 0 .. SizeOf(u) - 1
      BY DEF LInv, LinesKept, LineTyped
    <3> QED BY <1>4, <3>1 DEF LInv, LinesKept, LineTyped
  <2>1. SizeOf(t)' = SizeOf(t) /\ SizeOf(t) \in 0 .. BUFFER_SIZE
    BY <1>1, <1>2, <1>4 DEF SizeOf
  <2>2. ASSUME NEW j \in 0 .. SizeOf(t) - 1 PROVE CharOf(t, j)' = CharOf(t, j)
    <3>1. j \in 0 .. BUFFER_SIZE - 1 /\ (t = o => j < s)
      BY <1>1, <2>1 DEF SizeOf
    <3> QED BY <1>1, <1>2, <1>4, <1>5, <3>1 DEF CharOf
  <2> QED BY <2>1, <2>2
<1>8. Owned'
  <2>1. \A j \in 0 .. BUFFER_SIZE - 1 : OwnByte(o, g[j])
    BY <1>1 DEF LInv, Owned
  <2>2. \A t \in Terminals, j \in 0 .. BUFFER_SIZE - 1 : OwnByte(t, saved_keyboard_buffer[t][j])
    BY DEF LInv, Owned
  <2>3. \A j \in 0 .. BUFFER_SIZE - 1 : OwnByte(o, h[j])
    BY <1>2, <1>5, <2>1, <2>2
  <2> QED BY <1>2, <1>4, <2>2, <2>3 DEF Owned
<1>9. ReadsProgress'
  <2> SUFFICES ASSUME NEW t \in Terminals PROVE Progress(t)'
    BY DEF ReadsProgress
  <2>1. Progress(t)
    BY DEF LInv, ReadsProgress
  <2> QED BY <1>4, <2>1, SameProgress
<1>10. NoForeignBytes'
  BY <1>4 DEF LInv, NoForeignBytes
<1> QED BY <1>6, <1>7, <1>8, <1>9, <1>10 DEF LInv

-----------------------------------------------------------------------------
(***************************************************************************)
(* read_Terminal.                                                          *)
(***************************************************************************)
\* Steps that only move on.
LEMMA GotoInv ==
    ASSUME LInv, NEW b, b = buffer_flag, enter_flag' \in {0, 1},
           UNCHANGED <<buffer, buffer_Size, buffer_flag, saved, buf, numberOfBytesRead,
                       i, line, disturbed>>,
           NEW there \in Places, Goto(there),
           pc[b] \in {"clear", "reset"} => there \in {"clear", "reset"},
           pc'[b] = there => Progress(b)'
    PROVE  LInv'
<1>1. /\ TypeOK /\ b \in Terminals
      /\ \A j \in 0 .. BUFFER_SIZE : OwnByte(b, buf[b][j])
  BY OnScreen
<1>2. /\ pc' = [pc EXCEPT ![b] = there] /\ pc'[b] = there
      /\ numberOfBytesRead' = [numberOfBytesRead EXCEPT ![b] = numberOfBytesRead[b]]
      /\ numberOfBytesRead[b] \in 0 .. BUFFER_SIZE + 1
      /\ i' = [i EXCEPT ![b] = i[b]] /\ i[b] \in 0 .. BUFFER_SIZE
      /\ buf' = [buf EXCEPT ![b] = buf[b]] /\ buf[b] \in [0 .. BUFFER_SIZE -> Bytes]
  BY <1>1 DEF TypeOK, Goto
<1> QED BY <1>1, <1>2, ReadStepInv

LEMMA WaitInv == LInv /\ (CallRead \/ Wake \/ CopyTest \/ ClearDone) => LInv'
<1> SUFFICES ASSUME LInv, CallRead \/ Wake \/ CopyTest \/ ClearDone PROVE LInv'
  OBVIOUS
<1> USE Positions
<1>1. PICK b : b = buffer_flag
  OBVIOUS
<1>2. /\ b \in Terminals /\ TypeOK /\ Progress(b)
      /\ line[b] \in Seq(Terminals \X Keys) /\ buffer_Size = Len(line[b])
  BY <1>1, OnScreen
<1>3. /\ enter_flag' \in {0, 1}
      /\ UNCHANGED <<buffer, buffer_Size, buffer_flag, saved, buf, numberOfBytesRead,
                     i, line, disturbed>>
  BY <1>2 DEF CallRead, Wake, CopyTest, ClearDone, kbd, TypeOK
<1>4. CASE CallRead \/ Wake
  <2>1. PICK there \in Waiting : Goto(there) /\ pc[b] \in Waiting
    BY <1>1, <1>4 DEF CallRead, Wake, At, Waiting
  <2>2. pc'[b] = there => Progress(b)'
    BY <1>2, <1>3, <2>1 DEF Progress, Waiting, InCopy
  <2> QED BY <1>1, <1>3, <2>1, <2>2, GotoInv DEF Waiting, Places
<1>5. CASE CopyTest
  <2>1. pc[b] = "test" /\ n = numberOfBytesRead[b]
    BY <1>1, <1>5 DEF CopyTest, At, n
  <2>2. numberOfBytesRead[b] \in Nat /\ buffer_Size \in 0 .. BUFFER_SIZE
    BY <1>2 DEF TypeOK
  <2>3. CASE numberOfBytesRead[b] < buffer_Size
    <3>1. Goto("copy") /\ "copy" \in Places
      BY <1>5, <2>1, <2>3 DEF CopyTest, Places, InCopy
    <3>2. pc'[b] = "copy" => Progress(b)'
      BY <1>2, <1>3, <2>1, <2>2, <2>3 DEF Progress, Waiting, InCopy
    <3> QED BY <1>1, <1>3, <2>1, <3>1, <3>2, GotoInv
  <2>4. CASE ~(numberOfBytesRead[b] < buffer_Size)
    <3>1. Goto("newline") /\ "newline" \in Places
      BY <1>5, <2>1, <2>4 DEF CopyTest, Places, InCopy
    <3>2. pc'[b] = "newline" => Progress(b)'
      BY <1>2, <1>3, <2>1, <2>2, <2>4 DEF Progress, Waiting, InCopy
    <3> QED BY <1>1, <1>3, <2>1, <3>1, <3>2, GotoInv
  <2> QED BY <2>3, <2>4
<1>6. CASE ClearDone
  <2>1. pc[b] = "clear" /\ Goto("reset") /\ "reset" \in Places
    BY <1>1, <1>6 DEF ClearDone, At, Places
  <2>2. pc'[b] = "reset" => Progress(b)'
    BY <1>2, <1>3, <2>1 DEF Progress, Waiting, InCopy
  <2> QED BY <1>1, <1>3, <2>1, <2>2, GotoInv
<1> QED BY <1>4, <1>5, <1>6

LEMMA TakeEnterInv == LInv /\ TakeEnter => LInv'
<1> SUFFICES ASSUME LInv, TakeEnter PROVE LInv'
  OBVIOUS
<1> USE Positions
<1>1. PICK b : b = buffer_flag
  OBVIOUS
<1>2. /\ b \in Terminals /\ TypeOK /\ Progress(b)
      /\ line[b] \in Seq(Terminals \X Keys)
      /\ \A j \in 0 .. BUFFER_SIZE : OwnByte(b, buf[b][j])
  BY <1>1, OnScreen
<1>3. /\ pc[b] = "woken" /\ pc' = [pc EXCEPT ![b] = "test"] /\ enter_flag' = 0
      /\ numberOfBytesRead' = [numberOfBytesRead EXCEPT ![b] = 0]
      /\ UNCHANGED <<buffer, buffer_Size, buffer_flag, saved, buf, i, line, disturbed>>
  BY <1>1 DEF TakeEnter, At, Goto
<1>4. /\ i' = [i EXCEPT ![b] = i[b]] /\ i[b] \in 0 .. BUFFER_SIZE
      /\ buf' = [buf EXCEPT ![b] = buf[b]] /\ buf[b] \in [0 .. BUFFER_SIZE -> Bytes]
      /\ pc'[b] = "test" /\ numberOfBytesRead'[b] = 0
  BY <1>2, <1>3 DEF TypeOK
<1>5. Progress(b)'
  BY <1>2, <1>3, <1>4 DEF Progress, Waiting, InCopy
<1>6. "test" \in Places /\ 0 \in 0 .. BUFFER_SIZE + 1
  BY DEF Places, InCopy
<1> QED BY <1>1, <1>2, <1>3, <1>4, <1>5, <1>6, ReadStepInv

\* The byte copied is one of the terminal's own even if a key came after the
\* test; without such a key it is the next of the line.
LEMMA CopyByteInv == LInv /\ CopyByte => LInv'
<1> SUFFICES ASSUME LInv, CopyByte PROVE LInv'
  OBVIOUS
<1> USE Positions
<1>1. PICK b, x : b = buffer_flag /\ x = numberOfBytesRead[b]
  BY Zenon
<1>2. /\ b \in Terminals /\ TypeOK /\ Progress(b)
      /\ line[b] \in Seq(Terminals \X Keys)
      /\ pc[b] \notin {"clear", "reset"} => \A j \in 1 .. Len(line[b]) : buffer[j - 1] = line[b][j]
      /\ \A j \in 0 .. BUFFER_SIZE - 1 : OwnByte(b, buffer[j])
      /\ \A j \in 0 .. BUFFER_SIZE : OwnByte(b, buf[b][j])
  BY <1>1, OnScreen
<1>3. PICK f : f = [buf[b] EXCEPT ![x] = buffer[x]]
  OBVIOUS
<1>4. /\ pc[b] = "copy" /\ pc' = [pc EXCEPT ![b] = "test"]
      /\ buf' = [buf EXCEPT ![b] = f]
      /\ numberOfBytesRead' = [numberOfBytesRead EXCEPT ![b] = x + 1]
      /\ UNCHANGED <<buffer, buffer_Size, enter_flag, buffer_flag, saved, i, line, disturbed>>
  BY <1>1, <1>3 DEF CopyByte, At, Goto, kbd, n
<1>5. x \in 0 .. BUFFER_SIZE - 1 /\ x + 1 \in 0 .. BUFFER_SIZE + 1 /\ enter_flag' \in {0, 1}
  BY <1>1, <1>2, <1>4 DEF TypeOK, Progress
<1>6. /\ f \in [0 .. BUFFER_SIZE -> Bytes]
      /\ \A j \in 0 .. BUFFER_SIZE : f[j] = IF j = x THEN buffer[x] ELSE buf[b][j]
  BY <1>2, <1>3, <1>5 DEF TypeOK
<1>7. \A j \in 0 .. BUFFER_SIZE : OwnByte(b, f[j])
  BY <1>2, <1>5, <1>6
<1>8. /\ i' = [i EXCEPT ![b] = i[b]] /\ i[b] \in 0 .. BUFFER_SIZE
      /\ pc'[b] = "test" /\ numberOfBytesRead'[b] = x + 1 /\ buf'[b] = f
  BY <1>2, <1>4 DEF TypeOK
<1>9. Progress(b)'
  <2>1. ASSUME ~disturbed[b]
        PROVE  x + 1 <= Len(line[b]) /\ \A j \in 1 .. x + 1 : f[j - 1] = line[b][j]
    <3>1. /\ x < Len(line[b]) /\ Len(line[b]) \in Nat
          /\ \A j \in 1 .. x : buf[b][j - 1] = line[b][j]
      BY <1>1, <1>2, <1>4, <2>1 DEF Progress, InCopy
    <3>2. PICK y \in 1 .. Len(line[b]) : y = x + 1 /\ y - 1 = x
      BY <1>5, <3>1
    <3>3. buffer[y - 1] = line[b][y]
      BY <1>2, <1>4
    <3>4. ASSUME NEW j \in 1 .. x + 1 PROVE f[j - 1] = line[b][j]
      <4>1. CASE j = x + 1
        BY <1>5, <1>6, <3>2, <3>3, <4>1
      <4>2. CASE j \in 1 .. x
        <5>1. j - 1 \in 0 .. BUFFER_SIZE /\ j - 1 # x
          BY <1>5, <4>2
        <5> QED BY <1>6, <3>1, <4>2, <5>1
      <4> QED BY <1>5, <4>1, <4>2
    <3> QED BY <1>5, <3>1, <3>4
  <2> QED BY <1>4, <1>5, <1>8, <2>1 DEF Progress, Waiting, InCopy
<1>10. "test" \in Places
  BY DEF Places, InCopy
<1> QED BY <1>1, <1>4, <1>5, <1>6, <1>7, <1>8, <1>9, <1>10, ReadStepInv

LEMMA PutNewLineInv == LInv /\ PutNewLine => LInv'
<1> SUFFICES ASSUME LInv, PutNewLine PROVE LInv'
  OBVIOUS
<1> USE Positions
<1>1. PICK b, x, s : b = buffer_flag /\ x = numberOfBytesRead[b] /\ s = buffer_Size
  BY Zenon
<1>2. /\ b \in Terminals /\ TypeOK /\ Progress(b)
      /\ line[b] \in Seq(Terminals \X Keys) /\ s = Len(line[b])
      /\ \A j \in 0 .. BUFFER_SIZE : OwnByte(b, buf[b][j])
  BY <1>1, OnScreen
<1>3. PICK f : f = [buf[b] EXCEPT ![s] = <<NewLine>>]
  OBVIOUS
<1>4. /\ pc[b] = "newline" /\ pc' = [pc EXCEPT ![b] = "clear"]
      /\ buf' = [buf EXCEPT ![b] = f]
      /\ numberOfBytesRead' = [numberOfBytesRead EXCEPT ![b] = x + 1]
      /\ i' = [i EXCEPT ![b] = 0]
      /\ UNCHANGED <<buffer, buffer_Size, enter_flag, buffer_flag, saved, line, disturbed>>
  BY <1>1, <1>3 DEF PutNewLine, At, Goto, kbd
<1>5. /\ x \in 0 .. BUFFER_SIZE /\ x + 1 \in 0 .. BUFFER_SIZE + 1 /\ enter_flag' \in {0, 1}
      /\ s \in 0 .. BUFFER_SIZE
  BY <1>1, <1>2, <1>4 DEF TypeOK, Progress
<1>6. <<NewLine>> \in Bytes /\ OwnByte(b, <<NewLine>>)
  BY <1>2, ByteKinds
<1>7. /\ f \in [0 .. BUFFER_SIZE -> Bytes]
      /\ \A j \in 0 .. BUFFER_SIZE : f[j] = IF j = s THEN <<NewLine>> ELSE buf[b][j]
  BY <1>2, <1>3, <1>5, <1>6 DEF TypeOK
<1>8. \A j \in 0 .. BUFFER_SIZE : OwnByte(b, f[j])
  BY <1>2, <1>6, <1>7
<1>9. /\ pc'[b] = "clear" /\ numberOfBytesRead'[b] = x + 1 /\ buf'[b] = f /\ 0 \in 0 .. BUFFER_SIZE
  BY <1>2, <1>4 DEF TypeOK
<1>10. Progress(b)'
  <2>1. ASSUME ~disturbed[b]
        PROVE  x = s /\ f[s] = <<NewLine>> /\ \A j \in 1 .. s : f[j - 1] = line[b][j]
    <3>1. x = s /\ \A j \in 1 .. s : buf[b][j - 1] = line[b][j]
      BY <1>1, <1>2, <1>4, <2>1 DEF Progress, InCopy
    <3>2. ASSUME NEW j \in 1 .. s PROVE f[j - 1] = line[b][j]
      <4>1. j - 1 \in 0 .. BUFFER_SIZE /\ j - 1 # s
        BY <1>5
      <4> QED BY <1>7, <3>1, <4>1
    <3> QED BY <1>5, <1>7, <3>1, <3>2
  <2> QED BY <1>2, <1>4, <1>5, <1>9, <2>1 DEF Progress, Waiting, InCopy
<1>11. "clear" \in Places
  BY DEF Places
<1> QED BY <1>1, <1>4, <1>5, <1>7, <1>8, <1>9, <1>10, <1>11, ReadStepInv

LEMMA ClearByteInv == LInv /\ ClearByte => LInv'
<1> SUFFICES ASSUME LInv, ClearByte PROVE LInv'
  OBVIOUS
<1> USE Positions
<1>1. PICK b, x : b = buffer_flag /\ x = i[b]
  BY Zenon
<1>2. TypeOK /\ b \in Terminals
  BY <1>1, OnScreen
<1>3. /\ pc[b] = "clear" /\ x < buffer_Size /\ Put(x, <<Zero>>) /\ i' = [i EXCEPT ![b] = x + 1]
      /\ UNCHANGED <<buffer_Size, enter_flag, buffer_flag, saved, pc, buf,
                     numberOfBytesRead, line, disturbed>>
  BY <1>1 DEF ClearByte, At
<1>4. x \in Nat /\ x + 1 \in 0 .. BUFFER_SIZE
  BY <1>1, <1>2, <1>3 DEF TypeOK
<1>5. <<Zero>> \in Bytes /\ OwnByte(b, <<Zero>>)
  BY <1>2, ByteKinds
<1>6. /\ buffer' \in [0 .. BUFFER_SIZE - 1 -> Bytes]
      /\ \A j \in 0 .. BUFFER_SIZE - 1 : OwnByte(b, buffer'[j])
  BY <1>1, <1>3, <1>4, <1>5, PutByte
<1>7. TypeOK'
  <2>1. i' \in [Terminals -> 0 .. BUFFER_SIZE]
    BY <1>2, <1>3, <1>4 DEF TypeOK
  <2> QED BY <1>2, <1>3, <1>6, <2>1, Zenon DEF TypeOK, saved
<1>8. LinesKept' /\ LineTyped'
  BY <1>1, <1>3 DEF LInv, LinesKept, LineTyped, SizeOf, CharOf, saved
<1>9. Owned'
  BY <1>1, <1>3, <1>6 DEF LInv, Owned, saved
<1>10. ReadsProgress'
  <2> SUFFICES ASSUME NEW t \in Terminals PROVE Progress(t)'
    BY DEF ReadsProgress
  <2>1. Progress(t)
    BY DEF LInv, ReadsProgress
  <2> QED BY <1>3, <2>1, SameProgress
<1>11. NoForeignBytes'
  BY <1>3 DEF LInv, NoForeignBytes
<1> QED BY <1>7, <1>8, <1>9, <1>10, <1>11 DEF LInv

LEMMA ResetSizeInv == LInv /\ ResetSize => LInv'
<1> SUFFICES ASSUME LInv, ResetSize PROVE LInv'
  OBVIOUS
<1> USE Positions
<1>1. PICK b, f : b = buffer_flag /\ f = [j \in DOMAIN buf[b] |-> <<Untouched>>]
  BY Zenon
<1>2. TypeOK /\ b \in Terminals /\ \A j \in 0 .. BUFFER_SIZE - 1 : OwnByte(b, buffer[j])
  BY <1>1, OnScreen
<1>3. /\ pc' = [pc EXCEPT ![b] = "idle"] /\ buffer_Size' = 0
      /\ line' = [line EXCEPT ![b] = <<>>]
      /\ buf' = [buf EXCEPT ![b] = f]
      /\ numberOfBytesRead' = [numberOfBytesRead EXCEPT ![b] = 0]
      /\ i' = [i EXCEPT ![b] = 0]
      /\ disturbed' = [disturbed EXCEPT ![b] = FALSE]
      /\ UNCHANGED <<buffer, enter_flag, buffer_flag, saved>>
  BY <1>1, Zenon DEF ResetSize, Goto
<1>4. <<Untouched>> \in Bytes /\ OwnByte(b, <<Untouched>>)
  BY <1>2, ByteKinds
<1>5. /\ f \in [0 .. BUFFER_SIZE -> Bytes]
      /\ \A j \in 0 .. BUFFER_SIZE : OwnByte(b, f[j])
  BY <1>1, <1>2, <1>4 DEF TypeOK
<1>6. <<>> \in Seq(Terminals \X Keys) /\ Len(<<>>) = 0
  OBVIOUS
<1>7. /\ pc' \in [Terminals -> Places] /\ pc'[b] = "idle"
      /\ line' \in [Terminals -> Seq(Terminals \X Keys)] /\ line'[b] = <<>>
      /\ buf' \in [Terminals -> [0 .. BUFFER_SIZE -> Bytes]]
      /\ numberOfBytesRead' \in [Terminals -> 0 .. BUFFER_SIZE + 1]
      /\ i' \in [Terminals -> 0 .. BUFFER_SIZE]
      /\ \A t \in Terminals \ {b} :
            /\ pc'[t] = pc[t] /\ line'[t] = line[t] /\ buf'[t] = buf[t]
            /\ numberOfBytesRead'[t] = numberOfBytesRead[t]
  <2>1. "idle" \in Places
    BY PlacesAre
  <2>2. pc \in [Terminals -> Places]
    BY <1>2, PlacesAre DEF TypeOK
  <2>3. line \in [Terminals -> Seq(Terminals \X Keys)]
    BY DEF LInv, LineTyped
  <2>4. /\ line' \in [Terminals -> Seq(Terminals \X Keys)] /\ line'[b] = <<>>
        /\ \A t \in Terminals \ {b} : line'[t] = line[t]
    BY <1>2, <1>3, <1>6, <2>3, Zenon
  <2>5. /\ pc' \in [Terminals -> Places] /\ pc'[b] = "idle"
        /\ \A t \in Terminals \ {b} : pc'[t] = pc[t]
    BY <1>2, <1>3, <2>1, <2>2, Zenon
  <2>6. /\ buf' \in [Terminals -> [0 .. BUFFER_SIZE -> Bytes]]
        /\ numberOfBytesRead' \in [Terminals -> 0 .. BUFFER_SIZE + 1]
        /\ i' \in [Terminals -> 0 .. BUFFER_SIZE]
        /\ \A t \in Terminals \ {b} :
              buf'[t] = buf[t] /\ numberOfBytesRead'[t] = numberOfBytesRead[t]
    BY <1>2, <1>3, <1>5 DEF TypeOK
  <2> QED BY <2>4, <2>5, <2>6
<1>8. /\ disturbed' \in [Terminals -> BOOLEAN] /\ ~disturbed'[b]
      /\ \A t \in Terminals \ {b} : disturbed'[t] = disturbed[t]
  BY <1>2, <1>3, Zenon DEF TypeOK
<1>9. TypeOK'
  <2>1. buffer_Size' \in 0 .. BUFFER_SIZE
    BY <1>3
  <2> QED BY <1>2, <1>3, <1>7, <1>8, <2>1, PlacesAre, Zenon DEF TypeOK, saved
<1>10. LinesKept' /\ LineTyped'
  BY <1>1, <1>3, <1>6, <1>7 DEF LInv, LinesKept, LineTyped, SizeOf, CharOf, saved
<1>11. Owned'
  BY <1>3 DEF LInv, Owned, saved
<1>12. ReadsProgress'
  <2> SUFFICES ASSUME NEW t \in Terminals PROVE Progress(t)'
    BY DEF ReadsProgress
  <2>1. CASE t = b
    BY <1>7, <1>8, <2>1 DEF Progress, Waiting, InCopy
  <2>2. CASE t # b
    <3>1. Progress(t)
      BY DEF LInv, ReadsProgress
    <3> QED BY <1>7, <1>8, <2>2, <3>1, SameProgress
  <2> QED BY <2>1, <2>2
<1>13. NoForeignBytes'
  BY <1>3, <1>5, <1>7, <1>2 DEF LInv, NoForeignBytes, OwnByte, TypeOK
<1> QED BY <1>9, <1>10, <1>11, <1>12, <1>13 DEF LInv

-----------------------------------------------------------------------------
LEMMA NextInv == LInv /\ [Next]_vars => LInv'
<1> SUFFICES ASSUME LInv, [Next]_vars PROVE LInv'
  OBVIOUS
<1>1. CASE UNCHANGED vars
  <2>1. UNCHANGED <<buffer, buffer_Size, enter_flag, buffer_flag, saved_keyboard_buffer,
                    cur_buffer_Size, pc, buf, numberOfBytesRead, i, line, disturbed>>
    BY <1>1 DEF vars, kbd, saved, reads
  <2>2. TypeOK' /\ LineTyped'
    BY <2>1, Zenon DEF LInv, TypeOK, LineTyped
  <2>3. LinesKept' /\ Owned' /\ NoForeignBytes'
    BY <2>1 DEF LInv, LinesKept, SizeOf, CharOf, Owned, NoForeignBytes
  <2>4. ReadsProgress'
    BY <2>1, SameProgress DEF LInv, ReadsProgress
  <2> QED BY <2>2, <2>3, <2>4 DEF LInv
<1>2. CASE Enter \/ Backspace \/ CtrlL
  BY <1>2, EnterInv, BackspaceInv, CtrlLInv
<1>3. ASSUME NEW k \in Keys, Printable(k) PROVE LInv'
  BY <1>3, PrintableInv
<1>4. ASSUME NEW t \in Terminals, SwitchTerminal(t) PROVE LInv'
  BY <1>4, SwitchInv
<1>5. CASE CallRead \/ Wake \/ CopyTest \/ ClearDone
  BY <1>5, WaitInv
<1>6. CASE TakeEnter \/ CopyByte \/ PutNewLine \/ ClearByte \/ ResetSize
  BY <1>6, TakeEnterInv, CopyByteInv, PutNewLineInv, ClearByteInv, ResetSizeInv
<1> QED
  BY <1>1, <1>2, <1>3, <1>4, <1>5, <1>6, Zenon DEF Next, Read

\* The inductive invariant holds in every reachable state.
THEOREM LInvHolds == Spec => []LInv
<1> QED BY InitInv, NextInv, PTL DEF Spec

\* No count and no index of getchar and read_Terminal leaves its array.
THEOREM LineInputTyped == Spec => []TypeOK
<1>1. LInv => TypeOK
  BY DEF LInv
<1> QED BY <1>1, LInvHolds, PTL

\* Every terminal's unread line is what was typed on it, however often the one
\* buffer changed hands (getchar, fill_buffer, switch_terminal).
THEOREM LinesKeptHolds == Spec => []LinesKept
<1>1. LInv => LinesKept
  BY DEF LInv
<1> QED BY <1>1, LInvHolds, PTL

\* A read that no key disturbed delivers the line, its newline and their number
\* (read_Terminal), through any number of switches during the copy.
THEOREM ReadDeliversLineHolds == Spec => []ReadDeliversLine
<1>1. LInv => ReadDeliversLine
  BY DEF LInv, ReadsProgress, Progress, ReadDeliversLine
<1> QED BY <1>1, LInvHolds, PTL

\* No read delivers a character typed on another terminal.
THEOREM NoForeignBytesHolds == Spec => []NoForeignBytes
<1>1. LInv => NoForeignBytes
  BY DEF LInv
<1> QED BY <1>1, LInvHolds, PTL
=============================================================================
