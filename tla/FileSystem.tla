----------------------------- MODULE FileSystem -----------------------------
(***************************************************************************)
(* The read-only file system in memory: file_system.c without the          *)
(* descriptors, which are in module Files.                                 *)
(*                                                                         *)
(* The image is a list of directory entries, the inodes, and an area of    *)
(* NumBlocks data blocks one behind the other.  A byte of the area is      *)
(* represented by its address, so that what is read shows where it came    *)
(* from.  The constants of the code are BlockSize = BLOCK_4KB = 4096 and   *)
(* Word = 2^32, the number of values of a uint32_t.                        *)
(***************************************************************************)
EXTENDS Integers, Sequences, SequencesExt

CONSTANTS
  BlockSize,  \* BLOCK_4KB
  NumBlocks,  \* the number of data blocks in the boot block
  Word,       \* 2^32
  Room        \* how many bytes are mapped behind the caller's buffer

\* A buffer holds at least a block, as that of loader() does, and at most the
\* memory of a program.
ASSUME FileSystemAssumption ==
  /\ BlockSize \in Nat \ {0}
  /\ NumBlocks \in Nat
  /\ Word \in Nat \ {0}
  /\ Room \in Nat /\ BlockSize <= Room /\ Room < Word \div 2

\* The image is in memory, and fills no more than half of it.
ASSUME ImageAssumption == NumBlocks * BlockSize <= Word \div 2

\* inodes[i].length is the length in bytes of the file with inode i, and
\* inodes[i].blocks lists its data blocks.  The list is followed by zeros.
BlockNumber(ino, q) == IF q < Len(ino.blocks) THEN ino.blocks[q + 1] ELSE 0

\* What the file holds: the reference for everything that reads.
Content(ino) ==
  [k \in 1 .. ino.length |->
     BlockNumber(ino, (k - 1) \div BlockSize) * BlockSize
       + ((k - 1) % BlockSize)]

\* The bytes that a read of this length from this offset should give.
Wanted(ino, offset, length) ==
  SubSeq(Content(ino), offset + 1, Min({offset + length, ino.length}))

\* Every file whose blocks are somewhere in the image, in any order.
ImageFiles ==
  UNION {[length : {len},
          blocks : {s \in [1 .. (len + BlockSize - 1) \div BlockSize ->
                             0 .. NumBlocks - 1] : IsInjective(s)}] :
           len \in 0 .. NumBlocks * BlockSize}

\* How a call ends: it returns, or the exception handler never lets it.
Returns(ret, buf) == [returns |-> TRUE, ret |-> ret, buf |-> buf]
Failure   == Returns(-1, <<>>)
Exception == [returns |-> FALSE, ret |-> 0, buf |-> <<>>]

\* A uint32_t returned as an int32_t.
Int32(n) == IF n >= Word \div 2 THEN n - Word ELSE n

\* How much of length is copied from offset, with the sum of a uint32_t.
\* Mutant: forgets the offset when it cuts the length.
Mutant_Cut(ino, offset, length) ==
  IF (length + offset) % Word > ino.length THEN ino.length ELSE length
Cut(ino, offset, length) ==
  IF (length + offset) % Word > ino.length THEN ino.length - offset ELSE length

\* The loop of read_data(): it goes on to the next block of the list once i is
\* greater than BlockSize, so that it takes BlockSize + 1 bytes for a block.
Copied(ino, offset, n) ==
  LET passed(j) == (offset % BlockSize) + j
      q(j) == (offset \div BlockSize) + (passed(j) \div (BlockSize + 1))
      i(j) == passed(j) % (BlockSize + 1)
  IN [k \in 1 .. n |-> BlockNumber(ino, q(k - 1)) * BlockSize + i(k - 1)]

\* read_data(): what it returns, and what it leaves in buf.  A count that the
\* buffer has no room for takes the loop past mapped memory, into a page fault.
ReadData(inodes, inode, offset, length) ==
  IF inode \notin DOMAIN inodes THEN Failure
  ELSE LET ino == inodes[inode]
           n   == Cut(ino, offset, length)
       IN IF offset >= ino.length THEN Returns(0, <<>>)
          ELSE IF BlockNumber(ino, offset \div BlockSize) >= NumBlocks
               THEN Failure
          ELSE IF n > Room THEN Exception
          ELSE Returns(Int32(n), Copied(ino, offset, n))

\* The file with this inode as loader() copies it to a program's page, one
\* block at a time as long as more than a block is left, and then the rest.
\* Mutant: the rest is read from the beginning.
Mutant_Loader(inodes, inode) ==
  LET size  == inodes[inode].length
      whole == IF size > BlockSize THEN (size - 1) \div BlockSize ELSE 0
      piece(i) == IF i < whole
                  THEN ReadData(inodes, inode, i * BlockSize, BlockSize).buf
                  ELSE ReadData(inodes, inode, 0, size - i * BlockSize).buf
  IN FlattenSeq([i \in 1 .. whole + 1 |-> piece(i - 1)])
Loader(inodes, inode) ==
  LET size  == inodes[inode].length
      whole == IF size > BlockSize THEN (size - 1) \div BlockSize ELSE 0
      piece(i) == ReadData(inodes, inode, i * BlockSize,
                    IF i < whole THEN BlockSize ELSE size - i * BlockSize).buf
  IN FlattenSeq([i \in 1 .. whole + 1 |-> piece(i - 1)])

\* An entry of the directory is a record with a name, a type and an inode.
\* read_dentry_by_name() finds the first one with this name, and
\* read_dentry_by_index() counts from zero; both give inode 0 to a file that is
\* not regular.
Dentry(entry) ==
  [entry EXCEPT !.inode = IF entry.type = "regular" THEN @ ELSE 0]

HasName(entries, name) == \E i \in DOMAIN entries : entries[i].name = name
ReadDentryByName(entries, name) ==
  Dentry(entries[CHOOSE i \in DOMAIN entries :
                   /\ entries[i].name = name
                   /\ \A k \in 1 .. i - 1 : entries[k].name # name])
ReadDentryByIndex(entries, index) == Dentry(entries[index + 1])
=============================================================================
