--------------------------- MODULE NachosFileTest ---------------------------
(***************************************************************************)
(* What the commands of NachOS (threads/main.cc) do with the file system:  *)
(* copy a UNIX file to the disk, print a file, the performance test        *)
(* (filesys/fstest.cc), as programs of NachosFiles.                        *)
(***************************************************************************)
EXTENDS NachosFiles

CONSTANTS
    TransferSize,   \* units that Copy and Print transfer at a time
    ContentSize     \* and the performance test

O(kind, n, size, value, least, skip) ==
    {[op |-> kind, name |-> n, size |-> size, value |-> value, least |-> least,
      skip |-> skip]}
CloseFile == <<O("close", NoName, 0, 0, 0, 0)>>
RemoveFile(n) == <<O("remove", n, 0, 0, 0, 0)>>

\* The UNIX file has fileLength units, all of value v.  The chunk at the end is shorter.
Chunk(fileLength, i) == LET rest == fileLength - (i - 1) * TransferSize IN
    IF rest < TransferSize THEN rest ELSE TransferSize
Copy(to, fileLength, v) ==
    LET chunks == divRoundUp(fileLength, TransferSize) IN
    <<O("create", to, fileLength, 0, 0, chunks + 2), O("open", to, 0, 0, 0, chunks + 1)>>
      \o [i \in 1..chunks |-> O("write", NoName, Chunk(fileLength, i), v, 0, 0)]
      \o CloseFile

\* Reads until there is nothing more: "times" is enough for any file of the disk.
PrintFile(n) ==
    LET times == 1 + divRoundUp(MaxUnits, TransferSize) IN
    <<O("open", n, 0, 0, 0, times + 1)>>
      \o [i \in 1..times |-> O("read", NoName, TransferSize, 0, 1, times - i)]
      \o CloseFile

\* The file is created with no room for what is written: files do not grow.
FileWrite(n, fileSize, v) ==
    LET times == divRoundUp(fileSize, ContentSize) IN
    <<O("create", n, 0, 0, 0, times + 2), O("open", n, 0, 0, 0, times + 1)>>
      \o [i \in 1..times |-> O("write", NoName, ContentSize, v, ContentSize, times - i)]
      \o CloseFile

FileRead(n, fileSize, v) ==
    LET times == divRoundUp(fileSize, ContentSize) IN
    <<O("open", n, 0, 0, 0, times + 1)>>
      \o [i \in 1..times |-> O("read", NoName, ContentSize, v, ContentSize, times - i)]
      \o CloseFile

PerformanceTest(n, fileSize, v) ==
    FileWrite(n, fileSize, v) \o FileRead(n, fileSize, v) \o RemoveFile(n)
=============================================================================
