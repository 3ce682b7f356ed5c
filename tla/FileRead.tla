------------------------------ MODULE FileRead ------------------------------
(***************************************************************************)
(* file_read and read_data (student-distrib/file_sys.c): a program reads   *)
(* an open regular file piece by piece.  read_data copies byte by byte in  *)
(* three phases: the rest of the block the offset is in, whole blocks, and *)
(* the part of a last one.                                                 *)
(*                                                                         *)
(* A byte of the file is named by its position: byte i of the block        *)
(* in_table[b] is position b * BLOCKSIZE + i.  buf maps the indexes of the *)
(* caller's buffer written in this call to the byte written there.  The    *)
(* inode number comes from a directory entry and is valid.                 *)
(***************************************************************************)
EXTENDS Integers

CONSTANTS
    BLOCKSIZE,  \* 4096
    WORD,       \* 2^32, the range of uint32_t
    Sizes,      \* lengths of files
    Lengths,    \* values of nbytes programs pass
    EmptyReads  \* positions at which programs ask for 0 bytes

ASSUME BlockAssumption == BLOCKSIZE \in Nat \ {0}
ASSUME WordAssumption ==
    WORD \in Nat \ {0} /\ Sizes \subseteq 0 .. WORD - 1 /\ Lengths \subseteq 0 .. WORD - 1

VARIABLES
    b_length,           \* the inode's length
    file_position,      \* of the open file
    nbytes,             \* the argument of the current or last call
    ret,                \* what the last call returned, -1 before the first
    buf,
    pc,                 \* the phase of read_data
    offset, length,
    i,                  \* index in the block
    blocks_to_offset, buffer_idx, copied_so_far, left_to_copy

locals == <<offset, length, i, blocks_to_offset, buffer_idx, copied_so_far, left_to_copy>>
vars == <<b_length, file_position, nbytes, ret, buf, pc, locals>>

BlockStart(b) == b * BLOCKSIZE

Init ==
    /\ b_length \in Sizes
    /\ file_position = 0
    /\ nbytes = 0 /\ ret = -1
    /\ buf = [x \in {} |-> 0]
    /\ pc = "idle"
    /\ offset = 0 /\ length = 0 /\ i = 0 /\ blocks_to_offset = 0
    /\ buffer_idx = 0 /\ copied_so_far = 0 /\ left_to_copy = 0

\* file_read at the end of the file.
ReadAtEnd(n) ==
    /\ pc = "idle"
    /\ file_position >= b_length
    /\ nbytes' = n
    /\ ret' = 0
    /\ buf' = [x \in {} |-> 0]
    /\ UNCHANGED <<b_length, file_position, pc, locals>>

Clamped_Late(n) == n        \* mutant: the length is not cut at the end

\* The part of a request that is in the file, in 32-bit arithmetic.
Clamped(n) ==
    IF (file_position + n) % WORD > b_length THEN b_length - file_position ELSE n

\* file_read calls read_data, which sets out.
ReadData(n) ==
    /\ pc = "idle"
    /\ file_position < b_length
    /\ n > 0 \/ file_position \in EmptyReads
    /\ nbytes' = n
    /\ buf' = [x \in {} |-> 0]
    /\ offset' = file_position
    /\ length' = Clamped(n)
    /\ left_to_copy' = Clamped(n)
    /\ copied_so_far' = 0 /\ buffer_idx' = 0
    /\ blocks_to_offset' = file_position \div BLOCKSIZE
    /\ i' = file_position % BLOCKSIZE
    /\ pc' = IF file_position > 0 THEN "first" ELSE "blocks"
    /\ UNCHANGED <<b_length, file_position, ret>>

\* mutant: the position stays where it was
Return_KeepsPosition(c) == ret' = c /\ pc' = "idle" /\ UNCHANGED file_position

\* read_data returns c bytes and file_read moves the position.
Return(c) ==
    /\ ret' = c
    /\ file_position' = (file_position + c) % WORD
    /\ pc' = "idle"

\* Byte i of the current block goes to buf[j]; the counters move.
CopyTo(j) ==
    /\ buf' = [x \in DOMAIN buf \cup {j} |->
                  IF x = j THEN BlockStart(blocks_to_offset) + i ELSE buf[x]]
    /\ copied_so_far' = copied_so_far + 1
    /\ left_to_copy' = (left_to_copy - 1) % WORD

\* mutant: the next block is not moved to
NextByte_SameBlock ==
    IF i + 1 < BLOCKSIZE
    THEN /\ i' = i + 1
         /\ UNCHANGED <<pc, buffer_idx, blocks_to_offset>>
    ELSE /\ pc' = "blocks"
         /\ buffer_idx' = copied_so_far'
         /\ UNCHANGED <<i, blocks_to_offset>>

\* mutant: the loop runs one byte past the block
NextByte_OneMore ==
    IF i < BLOCKSIZE
    THEN /\ i' = i + 1
         /\ UNCHANGED <<pc, buffer_idx, blocks_to_offset>>
    ELSE /\ pc' = "blocks"
         /\ buffer_idx' = copied_so_far'
         /\ blocks_to_offset' = blocks_to_offset + 1
         /\ UNCHANGED i

\* The loop over a block goes on, or the next block is taken up.
NextByte ==
    IF i + 1 < BLOCKSIZE
    THEN /\ i' = i + 1
         /\ UNCHANGED <<pc, buffer_idx, blocks_to_offset>>
    ELSE /\ pc' = "blocks"
         /\ buffer_idx' = copied_so_far'
         /\ blocks_to_offset' = blocks_to_offset + 1
         /\ UNCHANGED i

\* One round of a copying loop, which ends the call when nothing is left.
CopyByte(j) ==
    /\ CopyTo(j)
    /\ IF left_to_copy' = 0
       THEN /\ Return(copied_so_far')
            /\ UNCHANGED <<i, blocks_to_offset, buffer_idx>>
       ELSE NextByte /\ UNCHANGED <<file_position, ret>>
    /\ UNCHANGED <<b_length, nbytes, offset, length>>

\* First case: the block the offset is in.
FirstBlock ==
    /\ pc = "first"
    /\ CopyByte(i - (offset % BLOCKSIZE))

\* The tests of the second and third case.
Blocks ==
    /\ pc = "blocks"
    /\ left_to_copy # 0
    /\ pc' = IF left_to_copy \div BLOCKSIZE > 0 THEN "full" ELSE "last"
    /\ i' = 0
    /\ UNCHANGED <<b_length, file_position, nbytes, ret, buf, offset, length,
                   blocks_to_offset, buffer_idx, copied_so_far, left_to_copy>>

NothingLeft ==
    /\ pc = "blocks"
    /\ left_to_copy = 0
    /\ Return(copied_so_far)
    /\ UNCHANGED <<b_length, nbytes, buf, locals>>

\* Second case, a whole block, and third case, the remainder: the remainder is
\* left_to_copy, so its loop ends by the return inside it.
CopyBlock ==
    /\ pc \in {"full", "last"}
    /\ CopyByte(buffer_idx + i)

Step == FirstBlock \/ Blocks \/ NothingLeft \/ CopyBlock

Next ==
    \/ \E n \in Lengths : ReadAtEnd(n) \/ ReadData(n)
    \/ Step

Spec == Init /\ [][Next]_vars

\* The loops of read_data go on; the program calls read again and again and does
\* not ask for nothing for ever.
FairSpec ==
    /\ Spec
    /\ WF_vars(Next)
    /\ SF_vars(\E n \in Lengths \ {0} : ReadData(n))

-----------------------------------------------------------------------------
Min(a, b) == IF a <= b THEN a ELSE b

TypeOK ==
    /\ b_length \in Nat /\ file_position \in Nat
    /\ nbytes \in Nat /\ ret \in Nat \cup {-1}
    /\ pc \in {"idle", "first", "blocks", "full", "last"}
    /\ offset \in Nat /\ length \in Nat
    /\ i \in 0 .. BLOCKSIZE - 1
    /\ blocks_to_offset \in Nat /\ buffer_idx \in Nat
    /\ copied_so_far \in Nat /\ left_to_copy \in Nat

\* Requests the arithmetic of read_data is made for: at least one byte unless at
\* the start of the file, and an end that does not wrap round.
ProperRequests ==
    /\ EmptyReads \subseteq {0}
    /\ \A s \in Sizes, n \in Lengths : s + n < WORD

Start == IF pc = "idle" THEN file_position - ret ELSE offset
Count == IF pc = "idle" THEN ret ELSE copied_so_far

\* At every moment the caller's buffer holds, from its first byte on and without
\* a gap, the bytes of the file from the start of the call on: the three phases
\* of read_data fit together at every block boundary.
BufferIsSlice ==
    /\ DOMAIN buf = 0 .. Count - 1
    /\ \A x \in DOMAIN buf : buf[x] = Start + x

\* A call returns as many bytes as were asked for and are left in the file, and
\* the position it leaves behind is in the file.
ReturnsWhatFits ==
    /\ file_position <= b_length
    /\ pc = "idle" /\ ret >= 0 => ret = Min(nbytes, b_length - Start)

\* A program that goes on reading, with requests of any sizes, gets to the end of
\* the file and is told so by 0 from then on.
ReadsWholeFile == <>[](file_position = b_length /\ ret = 0)

\* file_sys.c:75, "It copies length bytes of the data pointed to by inode".
CopiesAtMostLength == pc # "idle" => copied_so_far <= nbytes
=============================================================================
