--------------------------------- MODULE IO ---------------------------------
(***************************************************************************)
(* llxvm.runtime.IO and llxvm.io: the table of file descriptors, the file  *)
(* handles behind it, and the native file system they work on.             *)
(*                                                                         *)
(* A file is an entry of files; a path names at most one.  Open handles    *)
(* keep their file when its path is renamed.  Calls of java.io that touch  *)
(* the disk may fail where Failures allows it.  An operation stops the     *)
(* program with a Java exception where the code lets one escape.           *)
(***************************************************************************)
EXTENDS Integers, Sequences, FiniteSets

CONSTANTS
  OPEN_MAX,     \* size of the descriptor table
  INT_MAX,      \* largest Java int
  Paths,        \* path names
  Flags,        \* sets of the flags below that open is called with
  Modes,        \* permissions for new files: subsets of {"r", "w"}
  UsedDescriptors, \* descriptors the program passes to read, close, ...
  Counts,       \* byte counts of read and write
  Offsets,      \* offsets of lseek
  Failures,     \* the java.io calls that may throw an IOException
  MaxHandles,   \* bound on open files during a run
  MaxFiles,     \* bound on files created during a run
  MaxLength,    \* bound on the length of a file
  MaxOps        \* bound on reads, writes and seeks

AllFlags == {"O_WRONLY", "O_RDWR", "O_CREAT", "O_EXCL", "O_TRUNC", "O_APPEND",
             "O_SYNC"}

ASSUME LimitAssumption ==
  /\ OPEN_MAX \in Nat /\ OPEN_MAX >= 3 /\ INT_MAX \in Nat
  /\ {MaxHandles, MaxFiles, MaxLength, MaxOps} \subseteq Nat

ASSUME InputAssumption ==
  /\ Flags \subseteq SUBSET AllFlags /\ Modes \subseteq SUBSET {"r", "w"}
  /\ UsedDescriptors \subseteq Int /\ Counts \subseteq Nat
  /\ Offsets \subseteq -INT_MAX - 1 .. INT_MAX
  /\ Failures \subseteq {"create", "open", "truncate", "read", "write", "close"}

VARIABLES
  fileDescriptors,     \* descriptor -> number of its handle, or None
  numFileDescriptors,
  handles,             \* all files ever opened: [file, read, write, sync,
                       \* pos, open] and, for the properties, trunc
                       \* (O_TRUNC was given) and returned (the
                       \* constructor returned the handle)
  files,               \* all files: [data, perm]
  names,               \* path -> number of its file, or None
  status,              \* "running", "exited", or "exception"
  errno,               \* the last error
  numOps               \* reads, writes and seeks so far

vars == <<fileDescriptors, numFileDescriptors, handles, files, names, status,
          errno, numOps>>

None == 0
Descriptors == 0 .. OPEN_MAX - 1

(* The files of the standard streams. *)
Stdin == -1
Stdout == -2

StreamHandle(stream) ==
  [file |-> stream, read |-> stream = Stdin, write |-> stream = Stdout,
   sync |-> stream = Stdout, pos |-> 0, open |-> TRUE, trunc |-> FALSE,
   returned |-> TRUE]

(* Error.errno: a call that fails returns -1 and sets errno, one that      *)
(* succeeds leaves it.                                                     *)
Fail(e) == errno' = e
Succeed == UNCHANGED errno

Init ==
  /\ fileDescriptors =
       [fd \in Descriptors |-> IF fd < 3 THEN fd + 1 ELSE None]
  /\ numFileDescriptors = 3
  /\ handles = <<StreamHandle(Stdin), StreamHandle(Stdout), StreamHandle(Stdout)>>
  /\ files = <<>>
  /\ names = [p \in Paths |-> None]
  /\ status = "running"
  /\ errno = "none"
  /\ numOps = 0

-----------------------------------------------------------------------------
(* open *)

(* The files with one more, that is empty. *)
NewFile(perm) == Append(files, [data |-> <<>>, perm |-> perm])

Writes(flags) == flags \cap {"O_WRONLY", "O_RDWR"} # {}
Reads(flags) == "O_WRONLY" \notin flags

(* RandomAccessFile in mode "rw" needs both permissions. *)
Permitted(perm, flags) ==
  (IF Writes(flags) THEN {"r", "w"} ELSE {"r"}) \subseteq perm

(* The handle of a file that RandomAccessFile has opened. *)
FileHandle(f, flags, returned) ==
  [file |-> f, read |-> Reads(flags), write |-> Writes(flags),
   sync |-> "O_SYNC" \in flags, pos |-> 0, open |-> TRUE,
   trunc |-> "O_TRUNC" \in flags, returned |-> returned]

Truncates(flags) == Writes(flags) /\ "O_TRUNC" \in flags

Truncated_Always(fs, f, flags) ==
  IF Writes(flags) THEN [fs EXCEPT ![f].data = <<>>] ELSE fs
Truncated(fs, f, flags) ==
  IF Truncates(flags) THEN [fs EXCEPT ![f].data = <<>>] ELSE fs

(* putFileHandle *)
PutFileHandle_OffByOne(h) ==
  IF numFileDescriptors > OPEN_MAX
  THEN /\ Fail("ENFILE")
       /\ UNCHANGED <<fileDescriptors, numFileDescriptors>>
  ELSE /\ fileDescriptors' = [fileDescriptors EXCEPT ![numFileDescriptors] = h]
       /\ numFileDescriptors' = numFileDescriptors + 1
       /\ Succeed
PutFileHandle_OneEarly(h) ==
  IF numFileDescriptors >= OPEN_MAX - 1
  THEN /\ Fail("ENFILE")
       /\ UNCHANGED <<fileDescriptors, numFileDescriptors>>
  ELSE /\ fileDescriptors' = [fileDescriptors EXCEPT ![numFileDescriptors] = h]
       /\ numFileDescriptors' = numFileDescriptors + 1
       /\ Succeed
PutFileHandle(h) ==
  IF numFileDescriptors >= OPEN_MAX
  THEN /\ Fail("ENFILE")
       /\ UNCHANGED <<fileDescriptors, numFileDescriptors>>
  ELSE /\ fileDescriptors' = [fileDescriptors EXCEPT ![numFileDescriptors] = h]
       /\ numFileDescriptors' = numFileDescriptors + 1
       /\ Succeed

(* RandomAccessFileHandle for file f among fs, and its descriptor.  Flag   *)
(* O_APPEND is not looked at.                                              *)
MakeHandle(fs, f, flags) ==
  /\ Permitted(fs[f].perm, flags)
  /\ handles' = Append(handles, FileHandle(f, flags, TRUE))
  /\ files' = Truncated(fs, f, flags)
  /\ PutFileHandle(Len(handles'))

(* truncate(0) throws after the file has been opened: the constructor      *)
(* returns no handle and nothing closes the file.                          *)
TruncateThrows(fs, f, flags) ==
  /\ "truncate" \in Failures /\ Truncates(flags) /\ Permitted(fs[f].perm, flags)
  /\ handles' = Append(handles, FileHandle(f, flags, FALSE))
  /\ files' \in {fs, Truncated(fs, f, flags)}
  /\ Fail("EACCES")
  /\ UNCHANGED <<fileDescriptors, numFileDescriptors>>

(* RandomAccessFile throws, for want of permission or by a failure; what   *)
(* createNewFile has made stays.                                           *)
OpenThrows(fs, f, flags) ==
  /\ ~Permitted(fs[f].perm, flags) \/ ("open" \in Failures /\ "O_CREAT" \in flags)
  /\ Fail("EACCES")
  /\ files' = fs
  /\ UNCHANGED <<handles, fileDescriptors, numFileDescriptors>>

OpenHandle(fs, f, flags) ==
  \/ MakeHandle(fs, f, flags)
  \/ TruncateThrows(fs, f, flags)
  \/ OpenThrows(fs, f, flags)

(* The path names a file. *)
OpenExisting(path, flags) ==
  /\ names[path] # None
  /\ IF {"O_CREAT", "O_EXCL"} \subseteq flags
     THEN /\ Fail("EEXIST")
          /\ UNCHANGED <<files, handles, fileDescriptors, numFileDescriptors>>
     ELSE OpenHandle(files, names[path], flags)
  /\ UNCHANGED names

(* It does not: O_CREAT makes the file with the given permissions, and     *)
(* RandomAccessFile in mode "rw" makes it with the default ones.           *)
Creates(flags) == "O_CREAT" \in flags \/ Writes(flags)

OpenMissing(path, flags, mode) ==
  /\ names[path] = None
  /\ IF Creates(flags)
     THEN LET perm == IF "O_CREAT" \in flags THEN mode ELSE {"r", "w"} IN
          /\ Len(files) < MaxFiles
          /\ names' = [names EXCEPT ![path] = Len(files) + 1]
          /\ OpenHandle(NewFile(perm), Len(files) + 1, flags)
     ELSE /\ Fail("EACCES")
          /\ UNCHANGED <<names, files, handles, fileDescriptors, numFileDescriptors>>

(* createNewFile throws or, without it, RandomAccessFile. *)
OpenFails(flags) ==
  /\ IF "O_CREAT" \in flags THEN "create" \in Failures ELSE "open" \in Failures
  /\ Fail("EACCES")
  /\ UNCHANGED <<names, files, handles, fileDescriptors, numFileDescriptors>>

Open(path, flags, mode) ==
  /\ status = "running" /\ Len(handles) < MaxHandles
  /\ \/ OpenExisting(path, flags)
     \/ OpenMissing(path, flags, mode)
     \/ OpenFails(flags)
  /\ UNCHANGED <<status, numOps>>

-----------------------------------------------------------------------------
(* read, write, lseek *)

(* getFileHandle does not check: a call with a descriptor that names no    *)
(* handle, or none of the table, ends in a NullPointerException or an      *)
(* ArrayIndexOutOfBoundsException.                                         *)
Bad(fd) == fd \in Descriptors => fileDescriptors[fd] = None

Escape(fd) ==
  /\ status = "running" /\ Bad(fd)
  /\ status' = "exception"
  /\ UNCHANGED <<fileDescriptors, numFileDescriptors, handles, files, names,
                 errno, numOps>>

Handle(fd) == handles[fileDescriptors[fd]]
Data(fd) == files[Handle(fd).file].data

Transfer ==
  /\ status = "running" /\ numOps < MaxOps
  /\ numOps' = numOps + 1
  /\ UNCHANGED <<fileDescriptors, numFileDescriptors, names, status>>

MoveTo(fd, pos) == handles' = [handles EXCEPT ![fileDescriptors[fd]].pos = pos]

IsFile(fd) == ~Bad(fd) /\ Handle(fd).file \notin {Stdin, Stdout}

(* AbstractFileHandle.read for a file: bytes up to the end of the file.    *)
(* An exception loses the count of the bytes that were read before it.     *)
Available(fd) ==
  IF Handle(fd).pos < Len(Data(fd)) THEN Len(Data(fd)) - Handle(fd).pos ELSE 0

ReadFile(fd, count) ==
  LET n == IF count < Available(fd) THEN count ELSE Available(fd) IN
  /\ Transfer /\ IsFile(fd) /\ Handle(fd).read /\ Handle(fd).open
  /\ \/ MoveTo(fd, Handle(fd).pos + n) /\ Succeed
     \/ /\ "read" \in Failures /\ count > 0
        /\ \E done \in 0 .. n : MoveTo(fd, Handle(fd).pos + done)
        /\ Fail("EIO")
  /\ UNCHANGED files

(* read for the standard input: what the stream happens to hold. *)
ReadStdin(fd) ==
  /\ Transfer /\ ~Bad(fd) /\ Handle(fd).file = Stdin
  /\ Succeed
  /\ UNCHANGED <<handles, files>>

(* The contents of a file after n bytes b are written at pos; a gap is     *)
(* filled with zeros.                                                      *)
Written(data, pos, n, b) ==
  LET end == pos + n
      size == IF end > Len(data) /\ n > 0 THEN end ELSE Len(data)
  IN [i \in 1 .. size |-> IF pos < i /\ i <= end THEN b
                          ELSE IF i <= Len(data) THEN data[i] ELSE 0]

WriteBytes(fd, n) ==
  LET f == Handle(fd).file IN
  /\ Handle(fd).pos + n <= MaxLength
  /\ files' = [files EXCEPT ![f].data =
                 Written(@, Handle(fd).pos, n, fileDescriptors[fd])]
  /\ MoveTo(fd, Handle(fd).pos + n)

(* AbstractFileHandle.write for a file; the bytes are tagged with the      *)
(* handle that writes them.  With O_SYNC the exception may come from flush *)
(* after all bytes.                                                        *)
WriteFile(fd, count) ==
  /\ Transfer /\ IsFile(fd) /\ Handle(fd).write /\ Handle(fd).open
  /\ \/ WriteBytes(fd, count) /\ Succeed
     \/ /\ "write" \in Failures
        /\ \E done \in 0 .. count :
             (done = count => Handle(fd).sync) /\ WriteBytes(fd, done)
        /\ Fail("EIO")

WriteStdout(fd) ==
  /\ Transfer /\ ~Bad(fd) /\ Handle(fd).file = Stdout
  /\ Succeed
  /\ UNCHANGED <<handles, files>>

(* A handle without the capability, or one whose close has failed; that it *)
(* is closed is noticed by the first byte or, with O_SYNC, by flush.       *)
Refused(fd, e) ==
  /\ Transfer /\ ~Bad(fd)
  /\ Fail(e)
  /\ UNCHANGED <<handles, files>>

NothingDone(fd) ==
  /\ Transfer /\ ~Bad(fd)
  /\ Succeed
  /\ UNCHANGED <<handles, files>>

RefuseRead(fd, count) ==
  /\ ~Bad(fd)
  /\ \/ ~Handle(fd).read /\ Refused(fd, "EINVAL")
     \/ /\ Handle(fd).read /\ ~Handle(fd).open
        /\ IF count > 0 THEN Refused(fd, "EIO") ELSE NothingDone(fd)

RefuseWrite(fd, count) ==
  /\ ~Bad(fd)
  /\ \/ ~Handle(fd).write /\ Refused(fd, "EINVAL")
     \/ /\ Handle(fd).write /\ ~Handle(fd).open
        /\ IF count > 0 \/ Handle(fd).sync
           THEN Refused(fd, "EIO") ELSE NothingDone(fd)

(* seek: an offset beyond the largest int is reported as an error after    *)
(* the file has been positioned there.                                     *)
Target(fd, offset, whence) ==
  CASE whence = "SEEK_SET" -> offset
    [] whence = "SEEK_CUR" -> offset + Handle(fd).pos
    [] whence = "SEEK_END" -> offset + Len(Data(fd))

Seek(fd, offset, whence) ==
  LET n == Target(fd, offset, whence) IN
  /\ Transfer /\ IsFile(fd) /\ Handle(fd).open
  /\ IF n < 0
     THEN Fail("EINVAL") /\ UNCHANGED handles
     ELSE /\ MoveTo(fd, n)
          /\ IF n > INT_MAX THEN Fail("EOVERFLOW")
                            ELSE Succeed
  /\ UNCHANGED files

RefuseSeek(fd) ==
  /\ ~Bad(fd)
  /\ \/ ~IsFile(fd) /\ Refused(fd, "ESPIPE")
     \/ IsFile(fd) /\ ~Handle(fd).open /\ Refused(fd, "EINVAL")

-----------------------------------------------------------------------------
(* close, exit, names *)

(* close of java.io marks the handle closed before anything can fail, and  *)
(* does nothing for a closed one.                                          *)
MayFail(fd) == "close" \in Failures /\ IsFile(fd) /\ Handle(fd).open

Close_Forgets(fd) ==
  /\ status = "running" /\ ~Bad(fd)
  /\ fileDescriptors' = [fileDescriptors EXCEPT ![fd] = None]
  /\ UNCHANGED <<numFileDescriptors, handles, files, names, status, errno, numOps>>
Close_CountsDown(fd) ==
  /\ status = "running" /\ ~Bad(fd)
  /\ handles' = [handles EXCEPT ![fileDescriptors[fd]].open = FALSE]
  /\ fileDescriptors' = [fileDescriptors EXCEPT ![fd] = None]
  /\ numFileDescriptors' = numFileDescriptors - 1
  /\ UNCHANGED <<files, names, status, errno, numOps>>
Close(fd) ==
  /\ status = "running"
  /\ IF Bad(fd)
     THEN Fail("EBADF") /\ UNCHANGED <<handles, fileDescriptors>>
     ELSE /\ handles' = [handles EXCEPT ![fileDescriptors[fd]].open = FALSE]
          /\ \/ /\ fileDescriptors' = [fileDescriptors EXCEPT ![fd] = None]
                /\ Succeed
             \/ /\ MayFail(fd)
                /\ Fail("EIO")
                /\ UNCHANGED fileDescriptors
  /\ UNCHANGED <<numFileDescriptors, files, names, status, numOps>>

(* The descriptors IO.close() goes through. *)
ExitRange_ToFirstGap ==
  {fd \in Descriptors : \A d \in 0 .. fd : fileDescriptors[d] # None}
ExitRange == 0 .. numFileDescriptors - 1

(* _exit without throwExit: IO.close(), in which a failure of one close    *)
(* does not stop the others.  (With throwExit nothing here changes.)       *)
Exit ==
  LET open == {fd \in ExitRange : fileDescriptors[fd] # None} IN
  /\ status = "running"
  /\ \E failed \in SUBSET {fd \in open : MayFail(fd)} :
       fileDescriptors' = [fd \in Descriptors |->
         IF fd \in open \ failed THEN None ELSE fileDescriptors[fd]]
  /\ handles' = [h \in 1 .. Len(handles) |->
       IF \E fd \in open : fileDescriptors[fd] = h
       THEN [handles[h] EXCEPT !.open = FALSE] ELSE handles[h]]
  /\ status' = "exited"
  /\ UNCHANGED <<numFileDescriptors, files, names, errno, numOps>>

(* _rename: the new path may have named another file. *)
Rename(oldpath, newpath) ==
  /\ status = "running" /\ oldpath # newpath
  /\ IF names[oldpath] # None
     THEN /\ names' = [names EXCEPT ![newpath] = names[oldpath], ![oldpath] = None]
          /\ Succeed
     ELSE Fail("EACCES") /\ UNCHANGED names
  /\ UNCHANGED <<fileDescriptors, numFileDescriptors, handles, files, status,
                 numOps>>

(* link and unlink are not implemented by NativeFileSystem. *)
Unsupported ==
  /\ status = "running"
  /\ Fail("EMLINK") \/ Fail("ENOENT")
  /\ UNCHANGED <<fileDescriptors, numFileDescriptors, handles, files, names,
                 status, numOps>>

Next ==
  \/ \E path \in Paths, flags \in Flags, mode \in Modes : Open(path, flags, mode)
  \/ \E fd \in UsedDescriptors :
       \/ Escape(fd)
       \/ \E count \in Counts :
            \/ ReadFile(fd, count) \/ WriteFile(fd, count)
            \/ RefuseRead(fd, count) \/ RefuseWrite(fd, count)
       \/ ReadStdin(fd) \/ WriteStdout(fd) \/ RefuseSeek(fd)
       \/ \E offset \in Offsets, whence \in {"SEEK_SET", "SEEK_CUR", "SEEK_END"} :
            Seek(fd, offset, whence)
       \/ Close(fd)
  \/ Exit
  \/ \E oldpath, newpath \in Paths : Rename(oldpath, newpath)
  \/ Unsupported

Spec == Init /\ [][Next]_vars

-----------------------------------------------------------------------------
(* Properties *)

(* Types; descriptors at and above numFileDescriptors are unused. *)
TypeOK ==
  /\ fileDescriptors \in [Descriptors -> 0 .. Len(handles)]
  /\ numFileDescriptors \in 3 .. OPEN_MAX
  /\ \A fd \in Descriptors : fd >= numFileDescriptors => fileDescriptors[fd] = None
  /\ names \in [Paths -> 0 .. Len(files)]
  /\ \A h \in 1 .. Len(handles) :
       /\ handles[h].file \in {Stdin, Stdout} \cup 1 .. Len(files)
       /\ handles[h].pos \in Nat
  /\ status \in {"running", "exited", "exception"}

(* A descriptor that has been closed never names another handle, and one   *)
(* in use never changes its handle: a stale descriptor cannot reach a file *)
(* opened later.  (Descriptors below numFileDescriptors have been used;    *)
(* they stay so.)                                                          *)
DescriptorNeverReused ==
  [][/\ numFileDescriptors' >= numFileDescriptors
     /\ \A fd \in Descriptors :
          fd < numFileDescriptors \/ fileDescriptors[fd] # None =>
            fileDescriptors'[fd] \in {fileDescriptors[fd], None}]_vars

(* No two descriptors share a handle, and a file that is open is reached   *)
(* through a descriptor, with two exceptions: open opened it when the      *)
(* table was full, or truncate(0) threw after it had been opened.          *)
OpenHandlesReachable ==
  /\ \A c, d \in Descriptors :
       c # d /\ fileDescriptors[c] # None => fileDescriptors[c] # fileDescriptors[d]
  /\ status = "running" /\ numFileDescriptors < OPEN_MAX =>
       \A h \in 1 .. Len(handles) :
         handles[h].open /\ handles[h].returned =>
           \E fd \in Descriptors : fileDescriptors[fd] = h

(* After _exit every file is closed, also those behind descriptors whose   *)
(* close failed earlier or fails now, with the same two exceptions: a full *)
(* table, and a truncate(0) that threw.                                    *)
ExitClosesAll ==
  status = "exited" =>
    \A h \in 1 .. Len(handles) :
      handles[h].open /\ handles[h].returned => numFileDescriptors = OPEN_MAX

(* A byte of a file changes only while the offset of a handle opened for   *)
(* writing that file passes over it, also when a write fails half way, or  *)
(* when such a handle is opened with O_TRUNC, which empties the file.  No  *)
(* other handle of the same file, no renaming of its path meanwhile and no *)
(* open without that flag makes a difference.                              *)
BytesChangeUnderOffset ==
  [][\A f \in 1 .. Len(files) : files'[f].data # files[f].data =>
       \E h \in 1 .. Len(handles') :
         /\ handles'[h].file = f /\ handles'[h].write /\ handles'[h].open
         /\ \/ /\ h > Len(handles) /\ handles'[h].trunc
               /\ files'[f].data = <<>>
            \/ /\ h <= Len(handles)
               /\ Len(files'[f].data) >= Len(files[f].data)
               /\ \A i \in 1 .. Len(files[f].data) :
                    files'[f].data[i] # files[f].data[i] =>
                      handles[h].pos < i /\ i <= handles'[h].pos]_vars

(* While the table has room, an open that fails changes no file but the    *)
(* one whose truncation it was asked for, which it may have emptied, and   *)
(* makes none but under its path, empty, with O_CREAT (createNewFile comes *)
(* before all that can fail) or where only the truncation was left to do.  *)
FailedOpenLeavesFiles ==
  [][\A path \in Paths, flags \in Flags, mode \in Modes :
       /\ Open(path, flags, mode)
       /\ numFileDescriptors' = numFileDescriptors /\ numFileDescriptors < OPEN_MAX
       => /\ \A f \in 1 .. Len(files) : files'[f] # files[f] =>
               /\ f = names[path] /\ Truncates(flags)
               /\ files'[f] = [files[f] EXCEPT !.data = <<>>]
          /\ Len(files') > Len(files) =>
               /\ names'[path] = Len(files') /\ files'[Len(files')].data = <<>>
               /\ "O_CREAT" \in flags \/ Truncates(flags)]_vars
=============================================================================
