------------------------------ MODULE MCFiles ------------------------------
(***************************************************************************)
(* Files with a small image: the directory itself, the clock, and a        *)
(* regular file in two blocks that are out of order.                       *)
(*                                                                         *)
(* Before the processes run, one call is made on another image, with any   *)
(* file that fits, to compare the functions of the file system with what   *)
(* they should compute.                                                    *)
(***************************************************************************)
EXTENDS Files

MCEntries ==
  << [name |-> ".",     type |-> "directory", inode |-> 0],
     [name |-> "frame", type |-> "regular",   inode |-> 1],
     [name |-> "rtc",   type |-> "rtc",       inode |-> 0] >>

MCInodes == (0 :> [length |-> 0, blocks |-> <<>>])
         @@ (1 :> [length |-> 4, blocks |-> <<1, 0>>])

VARIABLES ino, offset, length  \* the call on the other image

C == INSTANCE MCFileSystem WITH Requests <- 0 .. Word - 1

call == <<ino, offset, length>>
NoCall == <<[length |-> 0, blocks |-> <<>>], 0, 0>>

MCInit == Init /\ C!Init

CallReturns ==
  /\ call # NoCall
  /\ ino' = NoCall[1] /\ offset' = 0 /\ length' = 0
  /\ UNCHANGED vars

MCNext ==
  \/ CallReturns
  \/ call = NoCall /\ Next /\ UNCHANGED call

MCSpec == MCInit /\ [][MCNext]_<<vars, call>>

\* What MCFileSystem says of read_data() and loader(), of every file, offset
\* and length up to the largest number: the first block of a read is right.
FirstBlockIsCopied == C!FirstBlockIsCopied

\* loader() copies the file.
LoaderCopiesFile == C!LoaderCopiesFile
=============================================================================
