SPECIFICATION MCSpec
CONSTANTS
  BlockSize = 3
  NumBlocks = 3
  Word = 32
  Room = 8
  Pids = {1, 2}
  PcbFileNumber = 4
  Entries <- MCEntries
  Inodes <- MCInodes
  Requests = {0, 1, 3}
INVARIANTS
  TypeOK
  DescriptorIsOpenedFile
  ReadsGoOn
  FirstBlockIsCopied
  LoaderCopiesFile
