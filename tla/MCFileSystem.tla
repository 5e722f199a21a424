---------------------------- MODULE MCFileSystem ----------------------------
(***************************************************************************)
(* One call of read_data(), or of loader(), on every small file, from      *)
(* every offset and with any of the requested lengths.                     *)
(***************************************************************************)
EXTENDS FileSystem

CONSTANT Requests  \* the lengths asked for

VARIABLES ino, offset, length
call == <<ino, offset, length>>

Init ==
  /\ ino \in ImageFiles
  /\ offset \in 0 .. ino.length
  /\ length \in Requests

Next == UNCHANGED call
Spec == Init /\ [][Next]_call

Result == ReadData([i \in {0} |-> ino], 0, offset, length)
Right  == Wanted(ino, offset, length)

\* "copy file data into buf": a read gives the bytes of the file from the
\* offset on, up to the length asked for or the end of the file.
ReadCopiesFile == Result = Returns(Len(Right), Right)

\* A read that returns says how many bytes it has copied, which is what was
\* asked for or what was left, and those up to the end of its first block are
\* right wherever the block is in the image, even when the read goes on.  It
\* returns when the caller has room for what it asked for, and does not only
\* when there is no room for what is left or the sum of offset and length wraps.
FirstBlockIsCopied ==
  LET first == Min({BlockSize - (offset % BlockSize), Len(Right)})
  IN /\ Result.returns =>
          /\ Result.ret = Len(Right) /\ Len(Result.buf) = Len(Right)
          /\ SubSeq(Result.buf, 1, first) = SubSeq(Right, 1, first)
     /\ ~Result.returns =>
          length > Room /\ (Len(Right) > Room \/ offset + length >= Word)

\* The program that loader() leaves in memory is the program in the file.
LoaderCopiesFile == Loader([i \in {0} |-> ino], 0) = Content(ino)
=============================================================================
