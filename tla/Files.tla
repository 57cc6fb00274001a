-------------------------------- MODULE Files --------------------------------
(***************************************************************************)
(* File objects and FileSystem::CopyFile of src/src/File.cpp.  An object   *)
(* keeps a descriptor with its offset and the mode it was opened with; the *)
(* copy loops over read() and write() in blocks and looks at neither       *)
(* result but to see whether a whole block was read.  An object that is    *)
(* not open stands for the null pointer its caller got, or is left with.   *)
(*                                                                         *)
(* fsMode_t is read as a set of bits, and FS_READ is no bit: a mode is     *)
(* writable with the bit FS_WRITE only, and FS_APPEND alone is not.        *)
(***************************************************************************)
EXTENDS Naturals, Sequences, SequencesExt

CONSTANTS
    Paths,
    Bytes,         \* what a file is made of
    InitialDisk,   \* path -> its bytes, or Missing
    Missing,       \* no such file
    Hole,          \* what the file system fills a gap with
    Objects,       \* addresses of File objects
    Block,         \* bytes CopyFile reads at a time, 1024
    DiskLimit,     \* longest file: writes are short beyond that
    NoObject

ASSUME FilesAssumption ==
    /\ Block \in Nat \ {0} /\ DiskLimit \in Nat
    /\ Missing \notin Paths /\ NoObject \notin Objects /\ Hole \in Bytes
    /\ InitialDisk \in [Paths -> Seq(Bytes) \cup {Missing}]

FS_READ == 0
FS_WRITE == 1
FS_APPEND == 2
Writable(mode) == mode % 2 = FS_WRITE
Appends(mode) == mode >= FS_APPEND

VARIABLES
    disk,          \* path -> bytes, or Missing
    path, offset, modes,   \* object -> what it opened (Missing: none)
    dest, src,     \* the locals of CopyFile, NoObject outside it
    buf,           \* what the last Read of CopyFile got
    copying,       \* "no", "read", "write", "returned" (true, whatever
                   \* happened) or "refused" (false); either ends a behaviour
    faulted,       \* a read or write of this copy was short or failed
    wanted         \* history: what this copy is to make of the destination

FileVars == <<disk, path, offset, modes, dest, src, buf, copying, faulted, wanted>>

FileInit ==
    /\ disk = InitialDisk
    /\ path = [f \in Objects |-> Missing]
    /\ offset = [f \in Objects |-> 0]
    /\ modes = [f \in Objects |-> FS_READ]
    /\ dest = NoObject /\ src = NoObject
    /\ buf = <<>> /\ copying = "no" /\ faulted = FALSE /\ wanted = <<>>

-----------------------------------------------------------------------------
(* OpenFile: a file that is not there is created, even to be read.  An     *)
(* open() that fails changes nothing and leaves its caller a null pointer. *)
OpenFile(f, p, mode) ==
    /\ copying = "no" /\ path[f] = Missing
    /\ disk' = [disk EXCEPT ![p] = IF @ = Missing THEN <<>> ELSE @]
    /\ path' = [path EXCEPT ![f] = p]
    /\ modes' = [modes EXCEPT ![f] = mode]
    /\ UNCHANGED <<offset, dest, src, buf, copying, faulted, wanted>>

CloseFile(f) ==
    /\ copying = "no" /\ path[f] # Missing
    /\ path' = [path EXCEPT ![f] = Missing]
    /\ offset' = [offset EXCEPT ![f] = 0]
    /\ modes' = [modes EXCEPT ![f] = FS_READ]
    /\ UNCHANGED <<disk, dest, src, buf, copying, faulted, wanted>>

SetPosition(f, n) ==
    /\ copying = "no" /\ path[f] # Missing
    /\ offset' = [offset EXCEPT ![f] = n]
    /\ UNCHANGED <<disk, path, modes, dest, src, buf, copying, faulted, wanted>>

(* What read(fd, buffer, len) gets at an offset. *)
BytesAt(bytes, at, len) ==
    SubSeq(bytes, at + 1, IF at + len <= Len(bytes) THEN at + len ELSE Len(bytes))

(* What write(fd, buffer, len) makes of a file. *)
Overwrite(bytes, at, new) ==
    [i \in 1 .. IF at + Len(new) > Len(bytes) /\ new # <<>> THEN at + Len(new)
                ELSE Len(bytes) |->
        IF i - at \in DOMAIN new THEN new[i - at]
        ELSE IF i <= Len(bytes) THEN bytes[i] ELSE Hole]

WriteOffset(f) == IF Appends(modes[f]) THEN Len(disk[path[f]]) ELSE offset[f]

-----------------------------------------------------------------------------
CopyFile(d, s) ==
    /\ copying = "no" /\ path[d] # Missing /\ path[s] # Missing
    /\ dest' = d /\ src' = s
    /\ copying' = "read"
    /\ wanted' = Overwrite(disk[path[d]], WriteOffset(d),
                           BytesAt(disk[path[s]], offset[s], Len(disk[path[s]])))
    /\ UNCHANGED <<disk, path, offset, modes, buf, faulted>>

(* A null pointer is refused before anything is read. *)
CopyRefused(d, s) ==
    /\ copying = "no" /\ Missing \in {path[d], path[s]}
    /\ copying' = "refused"
    /\ UNCHANGED <<disk, path, offset, modes, dest, src, buf, faulted, wanted>>

ReadBlock ==
    /\ copying = "read"
    /\ buf' = BytesAt(disk[path[src]], offset[src], Block)
    /\ offset' = [offset EXCEPT ![src] = @ + Len(buf')]
    /\ copying' = "write"
    /\ UNCHANGED <<disk, path, modes, dest, src, faulted, wanted>>

(* A signal or an error: a read gets less than there is.  After an error   *)
(* the length passed to Write is SIZE_MAX, which writes nothing.           *)
ReadShort ==
    /\ copying = "read"
    /\ \E n \in 0 .. Block - 1 :
         /\ n < Len(BytesAt(disk[path[src]], offset[src], Block))
         /\ buf' = BytesAt(disk[path[src]], offset[src], n)
         /\ offset' = [offset EXCEPT ![src] = @ + n]
    /\ copying' = "write" /\ faulted' = TRUE
    /\ UNCHANGED <<disk, path, modes, dest, src, wanted>>

(* `n' bytes of `bytes' are written; the loop goes on after a full block.  *)
Written(bytes, n) ==
    /\ disk' = [disk EXCEPT ![path[dest]] =
                   Overwrite(@, WriteOffset(dest), SubSeq(bytes, 1, n))]
    /\ offset' = [offset EXCEPT ![dest] =
                    IF n = 0 THEN @ ELSE WriteOffset(dest) + n]
    /\ copying' = IF Len(buf) = Block THEN "read" ELSE "returned"
    /\ UNCHANGED <<path, modes, dest, src, buf, wanted>>

(* Faulty variant: the last block is written whole. *)
WriteWholeBlock ==
    /\ copying = "write" /\ Writable(modes[dest])
    /\ WriteOffset(dest) + Block <= DiskLimit
    /\ Written([i \in 1 .. Block |-> IF i \in DOMAIN buf THEN buf[i] ELSE Hole], Block)
    /\ UNCHANGED faulted

WriteBlock ==
    /\ copying = "write" /\ Writable(modes[dest])
    /\ WriteOffset(dest) + Len(buf) <= DiskLimit
    /\ Written(buf, Len(buf))
    /\ UNCHANGED faulted

WriteFails ==
    /\ copying = "write" /\ buf # <<>>
    /\ \E n \in 0 .. Len(buf) - 1 :
         /\ n > 0 => Writable(modes[dest]) /\ WriteOffset(dest) + n <= DiskLimit
         /\ Written(buf, n)
    /\ faulted' = TRUE

(* Nothing is left to write to a file that cannot be written. *)
WriteNothing ==
    /\ copying = "write" /\ buf = <<>> /\ ~Writable(modes[dest])
    /\ Written(<<>>, 0)
    /\ UNCHANGED faulted

FileNext ==
    \/ \E f \in Objects :
          \/ \E p \in Paths, mode \in 0 .. 3 : OpenFile(f, p, mode)
          \/ CloseFile(f)
          \/ \E n \in 0 .. Block : SetPosition(f, n)
          \/ \E s \in Objects : CopyFile(f, s) \/ CopyRefused(f, s)
    \/ ReadBlock \/ ReadShort \/ WriteBlock \/ WriteFails \/ WriteNothing

FileSpec == FileInit /\ [][FileNext]_FileVars

-----------------------------------------------------------------------------
(* Between two files, and if no read or write was short, CopyFile puts     *)
(* exactly what was left of the source at the destination's offset, or at  *)
(* its end, and leaves the rest of it alone, whatever whole number of      *)
(* blocks that is.  (File.cpp:259-264)                                     *)
CopyFaithful ==
    copying = "returned" /\ ~faulted /\ path[dest] # path[src] =>
       disk[path[dest]] = wanted

=============================================================================
