------------------------------- MODULE Ramdisk -------------------------------
(***************************************************************************)
(* The ramdisk (src/ramdisk/tar.c): the walk over the headers of a tar     *)
(* archive, the list of files and the look-ups.                            *)
(*                                                                         *)
(* Memory is a sequence of blocks of BlockSize bytes (512).  A block is a  *)
(* header, a part of a file's data or zero; what tar writes is external.   *)
(* A path is a name without structure, shorter than its field.             *)
(*                                                                         *)
(* The list's nodes come from the kernel heap, whose variables are here;   *)
(* _kmain's other requests go to it as well.  No page table or stack is    *)
(* made while _kmain uses the heap (others is empty), and pages are        *)
(* counted from the first one left by then.                                *)
(***************************************************************************)
EXTENDS Integers, Sequences, SequencesExt

CONSTANTS
    BlockSize,    \* 512 in the code
    Base,         \* 8: sizes are written in octal
    Digits,       \* 11 digits of the size are read
    PageSize,     \* 4096 in the code
    NodeSize,     \* sizeof(struct HeapNode), 16 in the code
    FileNodeSize, \* sizeof(struct FileNode), 120 in the code
    HeapPages     \* pages PageAlloc has left

ASSUME RamdiskAssumption ==
    /\ BlockSize \in Nat \ {0}
    /\ Base \in Nat \ {0, 1}
    /\ Digits \in Nat \ {0}
    /\ NodeSize \in Nat \ {0}
    /\ PageSize \in Nat /\ PageSize > NodeSize
    /\ FileNodeSize \in Nat \ {0}
    /\ HeapPages \in Nat

VARIABLES
    rdstart,              \* number of the block the walk is at
    files,                \* the list behind filehead.next
    ramdiskInitialized,
    freeList, blocks, pages, combined,      \* the heap's, see Heap
    heapMode

heapVars == <<freeList, blocks, pages, combined, heapMode>>
ramdiskVars == <<rdstart, files, ramdiskInitialized, heapVars>>

Heap == INSTANCE Heap WITH
    MaxPages <- HeapPages, Sizes <- {}, Alignments <- {}, others <- {},
    mode <- heapMode

RamdiskInit ==
    /\ rdstart = 0
    /\ files = << >>
    /\ ramdiskInitialized = FALSE
    /\ Heap!Init

-----------------------------------------------------------------------------
(* What tar writes for a sequence of files with a path and a size. *)

\* Blocks that n bytes take up.
BlocksOf(n) == (n + BlockSize - 1) \div BlockSize

\* The size field, most significant digit first.
SizeField(n) == [j \in 1 .. Digits |-> (n \div Base ^ (Digits - j)) % Base]

Header(file) == [kind |-> "header", path |-> file.path, size |-> SizeField(file.size)]
DataBlock(k, j) == [kind |-> "data", file |-> k, part |-> j]
DataBlocks(archive, k) ==
    [j \in 1 .. BlocksOf(archive[k].size) |-> DataBlock(k, j)]
ZeroBlock == [kind |-> "zero"]

Blocks(archive) ==
    FlattenSeq([k \in DOMAIN archive |->
        <<Header(archive[k])>> \o DataBlocks(archive, k)]) \o <<ZeroBlock, ZeroBlock>>

-----------------------------------------------------------------------------
(* tar.c. *)

\* The digits are added up from the last to the first.
DecodeValue(value) ==
    LET sum[j \in 0 .. Digits] ==
            IF j = 0 THEN 0
            ELSE sum[j - 1] + value[Digits + 1 - j] * Base ^ (j - 1)
    IN  sum[Digits]

\* Where the walk goes from block b, in blocks.
StepAlwaysPadded(size) == (BlockSize + size) \div BlockSize + 1
Step(size) == Heap!ALIGN_UP(BlockSize + size, BlockSize) \div BlockSize

\* A request to the heap, and whether it returns: it may fault or panic.  Once
\* the heap's list has strayed, either may happen at any call.
Request(size, alignment) ==
    \/ Heap!alloc(size, alignment)
    \/ /\ heapMode = "strayed"
       /\ heapMode' \in {"strayed", "fault", "panic"}
       /\ UNCHANGED <<freeList, blocks, pages, combined>>
Served == heapMode \in {"run", "strayed"}

\* InsertEntry: memory for the node, which becomes the first of the list.
InsertEntry(file) ==
    /\ Request(FileNodeSize, 1)
    /\ files' = IF Served' THEN <<file>> \o files ELSE files

\* The block the walk is at; memory behind the archive is unknown.
At(archive) ==
    IF rdstart < Len(Blocks(archive)) THEN Blocks(archive)[rdstart + 1]
    ELSE [kind |-> "beyond"]

\* One turn of the loop of InitializeRamdisk; a block that is no header has no
\* size to go by.  If InsertEntry does not return, rdstart is used no more.
RegisterFile(archive) ==
    LET b == At(archive)
    IN  /\ ~ramdiskInitialized
        /\ b.kind = "header"
        /\ InsertEntry([path |-> b.path, size |-> DecodeValue(b.size),
                        begin |-> rdstart + 1])
        /\ rdstart' = rdstart + Step(DecodeValue(b.size))
        /\ UNCHANGED ramdiskInitialized

\* The first byte is zero: the loop ends.
EndOfArchive(archive) ==
    /\ ~ramdiskInitialized
    /\ At(archive).kind = "zero"
    /\ ramdiskInitialized' = TRUE
    /\ UNCHANGED <<rdstart, files, heapVars>>

\* RdFileGetFrame: the first in the list, 0 for NULL.
RdFileGetLastFrame(path) ==
    IF ramdiskInitialized THEN SelectLastInSeq(files, LAMBDA f : f.path = path) ELSE 0
RdFileGetFrame(path) ==
    IF ramdiskInitialized THEN SelectInSeq(files, LAMBDA f : f.path = path) ELSE 0

RdFileGetSz(path) ==
    LET i == RdFileGetFrame(path) IN IF i = 0 THEN 0 ELSE files[i].size

\* The blocks RdFileGetStream copies n bytes from.
RdFileGetStream(archive, path, n) ==
    LET begin == files[RdFileGetFrame(path)].begin
    IN  SubSeq(Blocks(archive), begin + 1, begin + BlocksOf(n))
=============================================================================
