----------------------------- MODULE BlockFiles -----------------------------
(***************************************************************************)
(* The block files: AppendBlockFile and WriteToDisk with a process that    *)
(* may end in the middle of a record, ReadFromDisk, and                    *)
(* LoadExternalBlockFile, which looks for the records of a file through a  *)
(* window and imports it at a start.  A file is a sequence of cells: the   *)
(* two of the message start, the size, and the cells of a block.           *)
(***************************************************************************)
EXTENDS Integers, Sequences, SequencesExt, FiniteSets

CONSTANTS
    FileBlock,   \* blocks
    BlockSize,   \* [FileBlock -> cells of the block]
    FileLimit,   \* cells after which AppendBlockFile begins another file (0x7F000000 - MAX_SIZE)
    ScanWindow,      \* cells that LoadExternalBlockFile looks at together (65536 bytes)
    Junk,        \* what may stand between the records of a file that is imported
    MaxFiles, MaxFileCrashes   \* bounds

VARIABLES
    files,             \* the block files, first to last
    nCurrentBlockFile, \* the file AppendBlockFile looks at first, 1 at each start
    stored,            \* [block, nFile, nBlockPos]: what WriteToDisk returned
    crashCount,
    import,            \* the file being imported
    nPos,              \* where the import has got to
    importer,          \* "none", "scan", "read", "done"
    seen,              \* blocks handed to ProcessBlock
    cut                \* the import ended early: an exception or a request to shut down

fileVars == <<files, nCurrentBlockFile, stored, crashCount, import, nPos, importer, seen, cut>>

MessageStart == <<<<"m">>, <<"g">>>>
Size(n) == <<"size", n>>
BlockCells(b) == [i \in 1 .. BlockSize[b] |-> <<b, i>>]
Record(b) == MessageStart \o <<Size(BlockSize[b])>> \o BlockCells(b)
RecordHead == 3
Slice(s, from, to) == SubSeq(s, from, IF to < Len(s) THEN to ELSE Len(s))
MaxBlock == CHOOSE n \in {BlockSize[b] : b \in FileBlock} : \A b \in FileBlock : BlockSize[b] <= n

FileOf(n) == IF n <= Len(files) THEN files[n] ELSE <<>>

\* AppendBlockFile: the first file from the current one on that is not full.
AppendBlockFile_Current == nCurrentBlockFile
AppendBlockFile ==
    CHOOSE n \in nCurrentBlockFile .. Len(files) + 1 :
        /\ Len(FileOf(n)) < FileLimit
        /\ \A k \in nCurrentBlockFile .. n - 1 : Len(FileOf(k)) >= FileLimit

Appended(n, cells) == IF n <= Len(files) THEN [files EXCEPT ![n] = @ \o cells] ELSE Append(files, cells)

\* The whole block at a position, or the reading fails.
HoldsBlock(file, pos, b) ==
    Slice(file, pos + 1, pos + BlockSize[b]) = BlockCells(b)

ReadFromDisk(s) == s.nFile <= Len(files) /\ HoldsBlock(files[s.nFile], s.nBlockPos, s.block)

-----------------------------------------------------------------------------
FilesInit ==
    /\ files = <<>> /\ nCurrentBlockFile = 1 /\ stored = {} /\ crashCount = 0
    /\ import = <<>> /\ nPos = 0 /\ importer = "none" /\ seen = {} /\ cut = FALSE

\* The position is that of the block, past the header of the record.
WriteToDisk(b) ==
    LET n == AppendBlockFile IN
    /\ importer = "none" /\ \A s \in stored : s.block # b
    /\ n <= MaxFiles
    /\ files' = Appended(n, Record(b)) /\ nCurrentBlockFile' = n
    /\ stored' = stored \cup {[block |-> b, nFile |-> n, nBlockPos |-> Len(FileOf(n)) + RecordHead]}
    /\ UNCHANGED <<crashCount, import, nPos, importer, seen, cut>>

\* The process ends with part of the record written.
CrashInWrite(b, part) ==
    LET n == AppendBlockFile IN
    /\ importer = "none" /\ \A s \in stored : s.block # b
    /\ crashCount < MaxFileCrashes /\ n <= MaxFiles
    /\ files' = Appended(n, Slice(Record(b), 1, part)) /\ nCurrentBlockFile' = 1
    /\ crashCount' = crashCount + 1
    /\ UNCHANGED <<stored, import, nPos, importer, seen, cut>>

\* A copy of a block file, with something in front of it, is imported by another node.
StartImport ==
    /\ importer = "none" /\ files # <<>>
    /\ \E junk \in Junk : import' = junk \o files[1]
    /\ importer' = "scan" /\ nPos' = 0
    /\ UNCHANGED <<files, nCurrentBlockFile, stored, crashCount, seen, cut>>

-----------------------------------------------------------------------------
InWindow == Slice(import, nPos + 1, nPos + ScanWindow)

\* Where memchr finds the first cell of a message start, counted from 0.
Finds ==
    {i \in 0 .. Len(InWindow) - Len(MessageStart) : InWindow[i + 1] = MessageStart[1]}
FirstFound == CHOOSE i \in Finds : \A j \in Finds : i <= j

NextWindow_Whole == nPos + ScanWindow
NextWindow == nPos + ScanWindow - Len(MessageStart) + 1

Scan ==
    /\ importer = "scan"
    /\ \/ /\ Len(InWindow) <= RecordHead
          /\ importer' = "done" /\ UNCHANGED nPos
       \/ /\ Len(InWindow) > RecordHead /\ Finds = {}
          /\ nPos' = NextWindow /\ UNCHANGED importer
       \/ /\ Len(InWindow) > RecordHead /\ Finds # {}
          /\ LET at == nPos + FirstFound IN
             IF Slice(import, at + 1, at + 2) = MessageStart
             THEN nPos' = at + Len(MessageStart) /\ importer' = "read"
             ELSE nPos' = at + 1 /\ UNCHANGED importer
    /\ UNCHANGED <<files, nCurrentBlockFile, stored, crashCount, import, seen, cut>>

\* What follows the message start is a size that a block may have.
AtSize == nPos < Len(import) /\ import[nPos + 1] \in {Size(n) : n \in 1 .. MaxBlock}

\* The size decides only where to go on; the block is whatever it parses to.  What is no
\* block of ours either throws or is refused, and the search goes on after the message start.
ReadBlock ==
    /\ importer = "read"
    /\ UNCHANGED <<files, nCurrentBlockFile, stored, crashCount, import>>
    /\ \/ /\ nPos < Len(import) /\ ~AtSize
          /\ importer' = "scan" /\ UNCHANGED <<nPos, seen, cut>>
       \/ /\ AtSize
          /\ \E b \in FileBlock :
             /\ HoldsBlock(import, nPos + 1, b)
             /\ importer' = "scan" /\ seen' = seen \cup {b}
             /\ nPos' = IF b \in seen THEN nPos ELSE nPos + 1 + import[nPos + 1][2]
             /\ UNCHANGED cut
       \/ /\ AtSize
          /\ \A b \in FileBlock : ~HoldsBlock(import, nPos + 1, b)
          /\ \/ importer' = "scan" /\ UNCHANGED cut
             \/ importer' = "done" /\ cut' = TRUE
          /\ UNCHANGED <<nPos, seen>>
       \/ /\ nPos = Len(import)
          /\ importer' = "done" /\ cut' = TRUE /\ UNCHANGED <<nPos, seen>>

\* fRequestShutdown ends the import between two blocks; init.cpp renames bootstrap.dat anyway.
StopImport ==
    /\ importer = "scan"
    /\ importer' = "done" /\ cut' = TRUE
    /\ UNCHANGED <<files, nCurrentBlockFile, stored, crashCount, import, nPos, seen>>

FilesNext ==
    \/ \E b \in FileBlock : WriteToDisk(b) \/ \E part \in 0 .. RecordHead + MaxBlock - 1 : CrashInWrite(b, part)
    \/ StartImport \/ Scan \/ ReadBlock \/ StopImport

-----------------------------------------------------------------------------
\* What WriteToDisk stored stays where it says, whatever a crash left before or after it.
StoredIsRead == \A s \in stored : ReadFromDisk(s)

\* No file grows past the limit by more than a record (main.cpp:2672).
FilesAreBounded == \A n \in DOMAIN files : Len(files[n]) < FileLimit + RecordHead + MaxBlock

\* An import that was not cut short has found every whole record of the file.
ImportIsWhole ==
    importer = "done" /\ ~cut =>
        \A b \in FileBlock : \A pos \in 0 .. Len(import) :
            Slice(import, pos + 1, pos + RecordHead + BlockSize[b]) = Record(b) => b \in seen

BlockFilesAreRight == StoredIsRead /\ FilesAreBounded /\ ImportIsWhole

\* Without the exception: what the code does not keep.
EveryRecordIsImported ==
    importer = "done" => \A s \in stored : s.nFile = 1 => s.block \in seen

=============================================================================
