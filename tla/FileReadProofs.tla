--------------------------- MODULE FileReadProofs ---------------------------
(***************************************************************************)
(* What read_data promises, for every block size, word size, file and      *)
(* sequence of proper requests.  The invariant ties the three positions    *)
(* the code keeps - the block and the index in it, the index in the        *)
(* caller's buffer, and the number of bytes copied - to one another in     *)
(* every phase; the slice property alone says nothing of them.             *)
(***************************************************************************)
EXTENDS FileRead, TLAPS

\* What has been copied and what is left, while read_data runs.
Balance ==
    pc # "idle" =>
        /\ offset = file_position
        /\ offset < b_length
        /\ length = Min(nbytes, b_length - offset)
        /\ copied_so_far + left_to_copy = length

\* Where the next byte comes from and where it goes to.
Aligned ==
    /\ pc \in {"first", "full", "last"} =>
          /\ left_to_copy > 0
          /\ offset + copied_so_far = BlockStart(blocks_to_offset) + i
    /\ pc = "first" => i = (offset % BLOCKSIZE) + copied_so_far
    /\ pc \in {"full", "last"} => buffer_idx + i = copied_so_far
    /\ pc = "blocks" =>
          /\ offset + copied_so_far = BlockStart(blocks_to_offset)
          /\ buffer_idx = copied_so_far

ReadInv ==
    /\ TypeOK
    /\ b_length < WORD /\ b_length \in Sizes
    /\ Balance
    /\ Aligned
    /\ BufferIsSlice
    /\ ReturnsWhatFits

-----------------------------------------------------------------------------
\* A number below the modulus is its own remainder.
LEMMA SmallMod ==
    ASSUME NEW a \in Nat, NEW w \in Nat, a < w
    PROVE  a % w = a
  BY SMT

\* A position is the start of its block and an index in the block.
LEMMA DivMod ==
    ASSUME NEW a \in Nat
    PROVE  /\ a \div BLOCKSIZE \in Nat
           /\ a % BLOCKSIZE \in 0 .. BLOCKSIZE - 1
           /\ a = BlockStart(a \div BLOCKSIZE) + (a % BLOCKSIZE)
  BY BlockAssumption, SMT DEF BlockStart

\* Blocks follow one another, from position 0 on.
LEMMA NextBlock ==
    ASSUME NEW b \in Nat
    PROVE  /\ BlockStart(b) \in Nat
           /\ BlockStart(b + 1) = BlockStart(b) + BLOCKSIZE
           /\ BlockStart(0) = 0
  BY BlockAssumption, SMT DEF BlockStart

-----------------------------------------------------------------------------
LEMMA InitReadInv == Init => ReadInv
  BY BlockAssumption, WordAssumption, SMT
  DEF Init, ReadInv, TypeOK, Balance, Aligned, BufferIsSlice, ReturnsWhatFits, Start, Count

\* A call at the end of the file.
LEMMA ReadAtEndInv ==
    ASSUME ReadInv, NEW n \in Lengths, ReadAtEnd(n)
    PROVE  ReadInv'
  <1>1. n \in Nat
    BY WordAssumption
  <1>2. TypeOK' /\ (b_length < WORD)' /\ (b_length \in Sizes)' /\ Balance' /\ Aligned'
    BY <1>1, SMT DEF ReadInv, ReadAtEnd, locals, TypeOK, Balance, Aligned
  <1>3. BufferIsSlice'
    BY SMT DEF ReadInv, TypeOK, ReadAtEnd, BufferIsSlice, Start, Count
  <1>4. ReturnsWhatFits'
    BY <1>1, SMT DEF ReadInv, TypeOK, ReadAtEnd, ReturnsWhatFits, Start, Min
  <1> QED  BY <1>2, <1>3, <1>4 DEF ReadInv

\* A call that enters read_data.  The request is proper, so the sum that the code
\* compares with the length of the file does not wrap round.
LEMMA ReadDataInv ==
    ASSUME ProperRequests, ReadInv, NEW n \in Lengths, ReadData(n)
    PROVE  ReadInv'
  <1>1. n \in Nat /\ b_length + n < WORD
    BY WordAssumption, SMT DEF ProperRequests, ReadInv, TypeOK
  <1>2. (file_position + n) % WORD = file_position + n
    BY <1>1, SmallMod, WordAssumption, SMT DEF ReadInv, TypeOK, ReturnsWhatFits
  <1>3. Clamped(n) = Min(n, b_length - file_position) /\ Clamped(n) \in Nat
    BY <1>1, <1>2, SMT DEF Clamped, Min, ReadData, ReadInv, TypeOK
  <1>4. Clamped(n) > 0 \/ file_position = 0
    BY <1>1, <1>3, SMT DEF Min, ReadData, ProperRequests, ReadInv, TypeOK
  <1>5. /\ file_position \div BLOCKSIZE \in Nat
        /\ file_position % BLOCKSIZE \in 0 .. BLOCKSIZE - 1
        /\ file_position = BlockStart(file_position \div BLOCKSIZE) + (file_position % BLOCKSIZE)
    BY DivMod DEF ReadInv, TypeOK
  <1>6. TypeOK'
    BY <1>1, <1>3, <1>5, SMT DEF ReadInv, ReadData, TypeOK
  <1>7. (b_length < WORD)' /\ (b_length \in Sizes)' /\ Balance'
    BY <1>1, <1>3, SMT DEF ReadInv, ReadData, TypeOK, Balance, Min
  <1>8. file_position = 0 => BlockStart(file_position \div BLOCKSIZE) = 0
    <2>1. file_position = 0 => file_position % BLOCKSIZE = 0
      BY SmallMod, BlockAssumption, SMT
    <2> QED  BY <1>5, <2>1, NextBlock, SMT DEF ReadInv, TypeOK
  <1>9. Aligned'
    <2>1. CASE file_position > 0
      BY <2>1, <1>3, <1>4, <1>5, SMT DEF ReadInv, ReadData, TypeOK, Aligned, BlockStart
    <2>2. CASE file_position = 0
      <3>1. pc' = "blocks" /\ offset' = 0 /\ copied_so_far' = 0 /\ buffer_idx' = 0
            /\ blocks_to_offset' = file_position \div BLOCKSIZE
        BY <2>2, SMT DEF ReadData
      <3>2. BlockStart(blocks_to_offset)' = 0
        BY <2>2, <3>1, <1>8 DEF BlockStart
      <3> QED  BY <3>1, <3>2, SMT DEF Aligned
    <2> QED  BY <2>1, <2>2, SMT DEF ReadInv, TypeOK
  <1>10. BufferIsSlice'
    BY SMT DEF ReadInv, ReadData, BufferIsSlice, Start, Count
  <1>11. ReturnsWhatFits'
    BY SMT DEF ReadInv, ReadData, TypeOK, ReturnsWhatFits
  <1> QED  BY <1>6, <1>7, <1>9, <1>10, <1>11 DEF ReadInv

\* One round of a copying loop puts the next byte of the file in the next place of
\* the buffer, within a block, at its end and at the end of the call.
LEMMA CopyByteInv ==
    ASSUME ReadInv, pc \in {"first", "full", "last"}, CopyByte(copied_so_far)
    PROVE  ReadInv'
  <1> DEFINE c == copied_so_far
             l == left_to_copy
             start == BlockStart(blocks_to_offset)
  <1>1. /\ c \in Nat /\ l \in Nat /\ l > 0 /\ start \in Nat
        /\ offset + c = start + i
        /\ c + l = length /\ offset + length <= b_length /\ b_length < WORD
        /\ offset = file_position
    BY NextBlock, SMT DEF ReadInv, TypeOK, Balance, Aligned, Min
  <1>2. (l - 1) % WORD = l - 1
    BY <1>1, SmallMod, WordAssumption, SMT DEF ReadInv, TypeOK
  <1>3. copied_so_far' = c + 1 /\ left_to_copy' = l - 1
    BY <1>2 DEF CopyByte, CopyTo
  <1>4. /\ DOMAIN buf' = 0 .. c
        /\ \A x \in 0 .. c : buf'[x] = offset + x
    <2>1. DOMAIN buf = 0 .. c - 1 /\ \A x \in DOMAIN buf : buf[x] = offset + x
      BY SMT DEF ReadInv, BufferIsSlice, Start, Count
    <2>2. buf' = [x \in DOMAIN buf \cup {c} |-> IF x = c THEN offset + c ELSE buf[x]]
      BY <1>1 DEF CopyByte, CopyTo
    <2>3. DOMAIN buf \cup {c} = 0 .. c
      BY <2>1, <1>1, SMT
    <2> QED  BY <2>1, <2>2, <2>3, SMT
  <1>5. UNCHANGED <<b_length, nbytes, offset, length>>
    BY DEF CopyByte
  <1>6. CASE l - 1 = 0
    <2>1. /\ ret' = c + 1 /\ pc' = "idle"
          /\ file_position' = (file_position + (c + 1)) % WORD
          /\ UNCHANGED <<i, blocks_to_offset, buffer_idx>>
      BY <1>3, <1>6 DEF CopyByte, Return
    <2>2. file_position' = offset + c + 1
      <3>1. file_position + (c + 1) \in Nat /\ file_position + (c + 1) < WORD /\ WORD \in Nat
        BY <1>1, <1>6, WordAssumption, SMT DEF ReadInv, TypeOK
      <3>2. (file_position + (c + 1)) % WORD = file_position + (c + 1)
        BY <3>1, SmallMod
      <3> QED  BY <1>1, <2>1, <3>2, SMT DEF ReadInv, TypeOK
    <2>3. TypeOK'
      BY <1>1, <1>3, <1>5, <1>6, <2>1, <2>2, SMT DEF ReadInv, TypeOK
    <2>4. (b_length < WORD)' /\ (b_length \in Sizes)' /\ Balance' /\ Aligned'
      BY <1>1, <1>5, <2>1, SMT DEF ReadInv, Balance, Aligned
    <2>5. Start' = offset /\ Count' = c + 1
      BY <1>1, <2>1, <2>2, SMT DEF Start, Count, ReadInv, TypeOK
    <2>6. BufferIsSlice'
      BY <1>1, <1>4, <2>5, SMT DEF BufferIsSlice
    <2>7. ReturnsWhatFits'
      BY <1>1, <1>5, <1>6, <2>1, <2>2, <2>5, SMT
      DEF ReturnsWhatFits, ReadInv, TypeOK, Balance
    <2> QED  BY <2>3, <2>4, <2>6, <2>7 DEF ReadInv
  <1>7. CASE l - 1 # 0
    <2>1. NextByte /\ UNCHANGED <<file_position, ret>>
      BY <1>3, <1>7 DEF CopyByte
    <2>2. CASE i + 1 < BLOCKSIZE
      <3>1. i' = i + 1 /\ UNCHANGED <<pc, buffer_idx, blocks_to_offset>>
        BY <2>1, <2>2 DEF NextByte
      <3>2. TypeOK'
        BY <1>1, <1>3, <1>5, <1>7, <2>1, <2>2, <3>1, BlockAssumption, SMT DEF ReadInv, TypeOK
      <3>3. BlockStart(blocks_to_offset)' = start
        BY <3>1 DEF BlockStart
      <3>4. Balance'
        BY <1>1, <1>3, <1>5, <2>1, <3>1, SMT DEF ReadInv, TypeOK, Balance
      <3>5. (offset % BLOCKSIZE)' = offset % BLOCKSIZE
        BY <1>5
      <3>6. offset % BLOCKSIZE \in Nat
        BY DivMod, BlockAssumption, SMT DEF ReadInv, TypeOK
      <3>7. Aligned'
        BY <1>1, <1>3, <1>5, <1>7, <3>1, <3>3, <3>5, <3>6, SMT DEF ReadInv, TypeOK, Aligned
      <3> QED
        <4>1. BufferIsSlice'
          BY <1>1, <1>3, <1>4, <1>5, <3>1, SMT DEF BufferIsSlice, Start, Count
        <4>2. ReturnsWhatFits'
          BY <1>5, <2>1, <3>1, SMT DEF ReturnsWhatFits, ReadInv
        <4> QED  BY <1>5, <3>2, <3>4, <3>7, <4>1, <4>2 DEF ReadInv
    <2>3. CASE ~(i + 1 < BLOCKSIZE)
      <3>1. /\ pc' = "blocks" /\ buffer_idx' = c + 1
            /\ blocks_to_offset' = blocks_to_offset + 1
            /\ UNCHANGED i
        BY <1>3, <2>1, <2>3 DEF NextByte
      <3>2. TypeOK'
        BY <1>1, <1>3, <1>5, <1>7, <2>1, <3>1, SMT DEF ReadInv, TypeOK
      <3>3. BlockStart(blocks_to_offset)' = start + BLOCKSIZE
        <4>1. BlockStart(blocks_to_offset)' = BlockStart(blocks_to_offset + 1)
          BY <3>1 DEF BlockStart
        <4> QED  BY <4>1, NextBlock DEF ReadInv, TypeOK
      <3>4. Balance'
        BY <1>1, <1>3, <1>5, <2>1, <3>1, SMT DEF ReadInv, TypeOK, Balance
      <3>5. i + 1 = BLOCKSIZE
        BY <2>3, BlockAssumption, SMT DEF ReadInv, TypeOK
      <3>6. Aligned'
        BY <1>1, <1>3, <1>5, <3>1, <3>3, <3>5, SMT DEF ReadInv, TypeOK, Aligned
      <3>7. BufferIsSlice'
        BY <1>1, <1>3, <1>4, <1>5, <3>1, SMT DEF BufferIsSlice, Start, Count
      <3>8. ReturnsWhatFits'
        BY <1>5, <2>1, <3>1, SMT DEF ReturnsWhatFits, ReadInv
      <3> QED  BY <1>5, <3>2, <3>4, <3>6, <3>7, <3>8 DEF ReadInv
    <2> QED  BY <2>2, <2>3
  <1> QED  BY <1>6, <1>7

LEMMA FirstBlockInv ==
    ASSUME ReadInv, FirstBlock
    PROVE  ReadInv'
  <1>1. i - (offset % BLOCKSIZE) = copied_so_far
    BY DivMod, BlockAssumption, SMT DEF FirstBlock, ReadInv, TypeOK, Aligned
  <1> QED  BY <1>1, CopyByteInv DEF FirstBlock

LEMMA CopyBlockInv ==
    ASSUME ReadInv, CopyBlock
    PROVE  ReadInv'
  <1>1. buffer_idx + i = copied_so_far
    BY SMT DEF CopyBlock, ReadInv, Aligned
  <1> QED  BY <1>1, CopyByteInv DEF CopyBlock

LEMMA BlocksInv ==
    ASSUME ReadInv, Blocks
    PROVE  ReadInv'
  <1>1. pc' \in {"full", "last"} /\ i' = 0
    BY DEF Blocks
  <1>2. TypeOK'
    BY <1>1, BlockAssumption, SMT DEF Blocks, ReadInv, TypeOK
  <1>3. (b_length < WORD)' /\ (b_length \in Sizes)' /\ Balance'
    BY <1>1, SMT DEF Blocks, ReadInv, Balance
  <1>4. BlockStart(blocks_to_offset)' = BlockStart(blocks_to_offset)
        /\ BlockStart(blocks_to_offset) \in Nat
    BY NextBlock DEF Blocks, BlockStart, ReadInv, TypeOK
  <1>5. Aligned'
    BY <1>1, <1>4, SMT DEF Blocks, ReadInv, TypeOK, Aligned
  <1>6. BufferIsSlice' /\ ReturnsWhatFits'
    BY <1>1, SMT DEF Blocks, ReadInv, BufferIsSlice, ReturnsWhatFits, Start, Count
  <1> QED  BY <1>2, <1>3, <1>5, <1>6 DEF ReadInv

LEMMA NothingLeftInv ==
    ASSUME ReadInv, NothingLeft
    PROVE  ReadInv'
  <1>1. /\ copied_so_far \in Nat /\ copied_so_far = length
        /\ offset = file_position /\ offset + length <= b_length /\ b_length < WORD
        /\ length = Min(nbytes, b_length - offset)
    BY SMT DEF NothingLeft, ReadInv, TypeOK, Balance, Min
  <1>2. ret' = copied_so_far /\ pc' = "idle"
        /\ file_position' = (file_position + copied_so_far) % WORD
        /\ UNCHANGED <<b_length, nbytes, buf, locals>>
    BY DEF NothingLeft, Return
  <1>3. file_position' = offset + copied_so_far
    BY <1>1, <1>2, SmallMod, WordAssumption, SMT DEF ReadInv, TypeOK
  <1>4. TypeOK'
    BY <1>1, <1>2, <1>3, SMT DEF ReadInv, TypeOK, locals
  <1>5. (b_length < WORD)' /\ (b_length \in Sizes)' /\ Balance' /\ Aligned'
    BY <1>1, <1>2, SMT DEF ReadInv, Balance, Aligned
  <1>6. Start' = offset /\ Count' = copied_so_far
    BY <1>1, <1>2, <1>3, SMT DEF Start, Count, ReadInv, TypeOK
  <1>7. BufferIsSlice'
    <2>1. Start = offset /\ Count = copied_so_far
      BY DEF NothingLeft, Start, Count
    <2> QED  BY <1>2, <1>6, <2>1 DEF ReadInv, BufferIsSlice
  <1>8. ReturnsWhatFits'
    BY <1>1, <1>2, <1>3, <1>6, SMT DEF ReturnsWhatFits, ReadInv, TypeOK
  <1> QED  BY <1>4, <1>5, <1>7, <1>8 DEF ReadInv

LEMMA NextReadInv ==
    ASSUME ProperRequests, ReadInv, [Next]_vars
    PROVE  ReadInv'
  <1>1. CASE \E n \in Lengths : ReadAtEnd(n) \/ ReadData(n)
    BY <1>1, ReadAtEndInv, ReadDataInv
  <1>2. CASE Step
    BY <1>2, FirstBlockInv, BlocksInv, NothingLeftInv, CopyBlockInv DEF Step
  <1>3. CASE UNCHANGED vars
    BY <1>3 DEF vars, locals, ReadInv, TypeOK, Balance, Aligned, BufferIsSlice,
                ReturnsWhatFits, Start, Count, BlockStart
  <1> QED  BY <1>1, <1>2, <1>3 DEF Next

-----------------------------------------------------------------------------
\* The inductive invariant of file_read and read_data under proper requests.
THEOREM ReadInvHolds == ProperRequests => (Spec => []ReadInv)
  <1> SUFFICES ASSUME ProperRequests PROVE Spec => []ReadInv
    OBVIOUS
  <1>1. ReadInv /\ [Next]_vars => ReadInv'
    BY NextReadInv
  <1> QED  BY <1>1, InitReadInv, PTL DEF Spec

\* In every reachable state of file_read the caller's buffer is the slice of the
\* file from where the call started, without a gap, whatever the sizes.
THEOREM BufferIsSliceHolds == ProperRequests => (Spec => []BufferIsSlice)
  <1> SUFFICES ASSUME ProperRequests PROVE Spec => []BufferIsSlice
    OBVIOUS
  <1>1. Spec => []ReadInv
    BY ReadInvHolds
  <1>2. ReadInv => BufferIsSlice
    BY DEF ReadInv
  <1> QED  BY <1>1, <1>2, PTL

\* A call of file_read returns the smaller of what was asked for and what is left,
\* and never moves the position beyond the end of the file.
THEOREM ReturnsWhatFitsHolds == ProperRequests => (Spec => []ReturnsWhatFits)
  <1> SUFFICES ASSUME ProperRequests PROVE Spec => []ReturnsWhatFits
    OBVIOUS
  <1>1. Spec => []ReadInv
    BY ReadInvHolds
  <1>2. ReadInv => ReturnsWhatFits
    BY DEF ReadInv
  <1> QED  BY <1>1, <1>2, PTL

\* No count or position of read_data falls below zero and the index in a block
\* stays in the block.
THEOREM FileReadTyped == ProperRequests => (Spec => []TypeOK)
  <1>1. ReadInv => TypeOK
    BY DEF ReadInv
  <1> QED  BY <1>1, ReadInvHolds, PTL

\* For proper requests the comment of read_data is right: no call copies more
\* than it was asked for, at any moment of it.
THEOREM CopiesAtMostLengthHolds == ProperRequests => (Spec => []CopiesAtMostLength)
  <1>1. ReadInv => CopiesAtMostLength
    BY SMT DEF ReadInv, TypeOK, Balance, CopiesAtMostLength, Min
  <1> QED  BY <1>1, ReadInvHolds, PTL
=============================================================================
