------------------------------ MODULE IOProofs ------------------------------
(***************************************************************************)
(* Theorems about IO, for every size of the descriptor table, all sets of  *)
(* paths, flags, modes, counts and offsets, and all failures of java.io.   *)
(***************************************************************************)
EXTENDS IO, SequenceTheorems, TLAPS

-----------------------------------------------------------------------------
(* The inductive invariant *)

(* Handles, and files. *)
HandleType == [file : Int, read : BOOLEAN, write : BOOLEAN, sync : BOOLEAN,
               pos : Nat, open : BOOLEAN, trunc : BOOLEAN, returned : BOOLEAN]
FileType == [data : Seq(Nat), perm : SUBSET {"r", "w"}]

(* Types of handles, files and counters, beside what TypeOK says. *)
RecordTypes ==
  /\ handles \in Seq(HandleType)
  /\ files \in Seq(FileType)
  /\ numOps \in Nat

(* The inductive invariant. *)
IOInv ==
  /\ RecordTypes
  /\ TypeOK
  /\ OpenHandlesReachable
  /\ ExitClosesAll

-----------------------------------------------------------------------------
(* Lemmas on the operators *)

(* A descriptor that names a handle. *)
LEMMA GoodDescriptor ==
  ASSUME IOInv, NEW fd, ~Bad(fd)
  PROVE  /\ fd \in Descriptors /\ fd < numFileDescriptors
         /\ fileDescriptors[fd] \in 1 .. Len(handles)
         /\ Handle(fd) \in HandleType
         /\ Handle(fd).file \in {Stdin, Stdout} \cup 1 .. Len(files)
  <1>1. fd \in Descriptors /\ fileDescriptors[fd] # None
    BY DEF Bad
  <1>2. fileDescriptors[fd] \in 1 .. Len(handles)
    <2>1. fileDescriptors[fd] \in 0 .. Len(handles)
      BY <1>1 DEF IOInv, TypeOK
    <2>2. Len(handles) \in Nat
      BY LenProperties DEF IOInv, RecordTypes
    <2>3. QED
      BY <1>1, <2>1, <2>2 DEF None
  <1>3. fd < numFileDescriptors
    BY <1>1, LimitAssumption DEF IOInv, TypeOK, Descriptors
  <1>4. Handle(fd) \in HandleType
    BY <1>2, ElementOfSeq DEF Handle, IOInv, RecordTypes
  <1>5. Handle(fd).file \in {Stdin, Stdout} \cup 1 .. Len(files)
    BY <1>2 DEF Handle, IOInv, TypeOK
  <1>6. QED
    BY <1>1, <1>2, <1>3, <1>4, <1>5

(* The file behind a descriptor. *)
LEMMA GoodFile ==
  ASSUME IOInv, NEW fd, IsFile(fd)
  PROVE  /\ ~Bad(fd)
         /\ Handle(fd).file \in 1 .. Len(files)
         /\ files[Handle(fd).file] \in FileType
         /\ Data(fd) \in Seq(Nat) /\ Len(Data(fd)) \in Nat
  <1>1. ~Bad(fd) /\ Handle(fd).file \in 1 .. Len(files)
    BY GoodDescriptor DEF IsFile
  <1>2. files[Handle(fd).file] \in FileType
    BY <1>1, ElementOfSeq DEF IOInv, RecordTypes
  <1>3. Data(fd) \in Seq(Nat)
    BY <1>2 DEF Data, FileType
  <1>4. QED
    BY <1>1, <1>2, <1>3, LenProperties

(* What no read, write, lseek or close changes of a handle. *)
SameFile(h) ==
  /\ handles'[h].file = handles[h].file
  /\ handles'[h].read = handles[h].read
  /\ handles'[h].write = handles[h].write
  /\ handles'[h].returned = handles[h].returned

(* Moving the offset behind a descriptor moves no other. *)
LEMMA MoveOffset ==
  ASSUME IOInv, NEW fd, ~Bad(fd), NEW pos \in Nat, MoveTo(fd, pos)
  PROVE  /\ handles' \in Seq(HandleType) /\ Len(handles') = Len(handles)
         /\ \A h \in 1 .. Len(handles) :
              /\ SameFile(h) /\ handles'[h].open = handles[h].open
              /\ handles'[h].pos = IF h = fileDescriptors[fd] THEN pos
                                                              ELSE handles[h].pos
  <1> DEFINE k == fileDescriptors[fd]
             r == [handles[k] EXCEPT !.pos = pos]
  <1>1. k \in 1 .. Len(handles) /\ handles[k] \in HandleType
    BY GoodDescriptor DEF Handle
  <1>2. /\ r \in HandleType /\ r.pos = pos /\ r.file = handles[k].file
        /\ r.read = handles[k].read /\ r.write = handles[k].write
        /\ r.open = handles[k].open /\ r.returned = handles[k].returned
    BY <1>1 DEF HandleType
  <1>3. handles' = [handles EXCEPT ![k] = r]
    BY DEF MoveTo
  <1>4. handles \in Seq(HandleType)
    BY DEF IOInv, RecordTypes
  <1> HIDE DEF r, k
  <1>5. /\ handles' \in Seq(HandleType) /\ Len(handles') = Len(handles)
        /\ \A h \in 1 .. Len(handles) : handles'[h] = IF h = k THEN r ELSE handles[h]
    BY <1>1, <1>2, <1>3, <1>4, ExceptSeq
  <1>6. QED
    BY <1>2, <1>5 DEF SameFile, k

-----------------------------------------------------------------------------
(* The initial state *)

(* It holds when the process starts. *)
LEMMA InitInv == Init => IOInv
  <1> SUFFICES ASSUME Init PROVE IOInv
    OBVIOUS
  <1>1. /\ StreamHandle(Stdin) \in HandleType /\ StreamHandle(Stdout) \in HandleType
        /\ StreamHandle(Stdin).file = Stdin /\ StreamHandle(Stdout).file = Stdout
        /\ StreamHandle(Stdin).pos = 0 /\ StreamHandle(Stdout).pos = 0
    BY DEF StreamHandle, HandleType, Stdin, Stdout
  <1>2. /\ handles \in Seq(HandleType) /\ Len(handles) = 3
        /\ \A h \in 1 .. 3 : handles[h].file \in {Stdin, Stdout} /\ handles[h].pos = 0
    BY <1>1 DEF Init
  <1>3. files \in Seq(FileType) /\ Len(files) = 0
    BY EmptySeq DEF Init
  <1>4. RecordTypes
    BY <1>2, <1>3 DEF Init, RecordTypes
  <1>5. /\ fileDescriptors \in [Descriptors -> 0 .. 3]
        /\ numFileDescriptors = 3 /\ 3 \in 3 .. OPEN_MAX
        /\ \A fd \in Descriptors :
             fileDescriptors[fd] = IF fd < 3 THEN fd + 1 ELSE None
    BY LimitAssumption DEF Init, Descriptors, None
  <1>6. TypeOK
    BY <1>2, <1>3, <1>5 DEF Init, TypeOK, None, Descriptors
  <1>7. OpenHandlesReachable
    <2>1. \A h \in 1 .. 3 : h - 1 \in Descriptors /\ fileDescriptors[h - 1] = h
      BY <1>5, LimitAssumption DEF Descriptors
    <2>2. \A c, d \in Descriptors :
            c # d /\ fileDescriptors[c] # None => fileDescriptors[c] # fileDescriptors[d]
      BY <1>5 DEF Descriptors, None
    <2>3. QED
      BY <1>2, <2>1, <2>2 DEF OpenHandlesReachable
  <1>8. QED
    BY <1>4, <1>6, <1>7 DEF IOInv, ExitClosesAll, Init
-----------------------------------------------------------------------------
(* read, write, lseek *)

(* What all these steps have in common: they keep the table, and of the    *)
(* handles and files all but offsets and contents.                         *)
TransferStep ==
  /\ Transfer
  /\ handles' \in Seq(HandleType) /\ Len(handles') = Len(handles)
  /\ \A h \in 1 .. Len(handles) : SameFile(h) /\ handles'[h].open = handles[h].open
  /\ files' \in Seq(FileType) /\ Len(files') = Len(files)

(* Calls that touch neither handles nor files are transfers. *)
LEMMA UnchangedTransfer ==
  ASSUME IOInv, Transfer, UNCHANGED <<handles, files>>
  PROVE  TransferStep
  BY DEF IOInv, RecordTypes, TransferStep, SameFile

(* Calls that only move an offset are transfers. *)
LEMMA MoveTransfer ==
  ASSUME IOInv, Transfer, NEW fd, ~Bad(fd), NEW pos \in Nat, MoveTo(fd, pos),
         UNCHANGED files
  PROVE  TransferStep
  BY MoveOffset DEF IOInv, RecordTypes, TransferStep

(* FileHandle.read is a transfer. *)
LEMMA ReadTransfer ==
  ASSUME IOInv, NEW fd, NEW count \in Counts, ReadFile(fd, count)
  PROVE  TransferStep
  <1> DEFINE n == IF count < Available(fd) THEN count ELSE Available(fd)
  <1>1. Transfer /\ IsFile(fd) /\ ~Bad(fd) /\ UNCHANGED files
    BY DEF ReadFile, IsFile
  <1>2. Handle(fd).pos \in Nat /\ Len(Data(fd)) \in Nat /\ count \in Nat
    BY <1>1, GoodDescriptor, GoodFile, InputAssumption DEF HandleType
  <1>3. n \in Nat
    BY <1>2 DEF Available
  <1>4. PICK done \in 0 .. n : MoveTo(fd, Handle(fd).pos + done)
    <2>1. n \in 0 .. n
      BY <1>3
    <2>2. CASE MoveTo(fd, Handle(fd).pos + n)
      BY <2>1, <2>2
    <2>3. CASE \E done \in 0 .. n : MoveTo(fd, Handle(fd).pos + done)
      BY <2>3
    <2>4. QED
      BY <2>2, <2>3 DEF ReadFile
  <1>5. Handle(fd).pos + done \in Nat
    BY <1>2, <1>3, <1>4
  <1>6. QED
    BY <1>1, <1>4, <1>5, MoveTransfer

(* FileHandle.seek is a transfer. *)
LEMMA SeekTransfer ==
  ASSUME IOInv, NEW fd, NEW offset \in Offsets,
         NEW whence \in {"SEEK_SET", "SEEK_CUR", "SEEK_END"},
         Seek(fd, offset, whence)
  PROVE  TransferStep
  <1> DEFINE n == Target(fd, offset, whence)
  <1>1. Transfer /\ IsFile(fd) /\ ~Bad(fd) /\ UNCHANGED files
    BY DEF Seek, IsFile
  <1>2. Handle(fd).pos \in Nat /\ Len(Data(fd)) \in Nat /\ offset \in Int
    BY <1>1, GoodDescriptor, GoodFile, InputAssumption, LimitAssumption
    DEF HandleType
  <1>3. n \in Int
    BY <1>2 DEF Target
  <1>4. UNCHANGED handles \/ (n \in Nat /\ MoveTo(fd, n))
    BY <1>3 DEF Seek
  <1>5. QED
    BY <1>1, <1>4, UnchangedTransfer, MoveTransfer

(* What a write leaves in the file: the old bytes outside the range that   *)
(* is written, and no less than before.                                    *)
LEMMA WrittenBytes ==
  ASSUME NEW data \in Seq(Nat), NEW pos \in Nat, NEW n \in Nat, NEW b \in Nat
  PROVE  /\ Written(data, pos, n, b) \in Seq(Nat)
         /\ Len(Written(data, pos, n, b)) >= Len(data)
         /\ \A i \in 1 .. Len(data) :
              Written(data, pos, n, b)[i] # data[i] => pos < i /\ i <= pos + n
  <1> DEFINE end == pos + n
             size == IF end > Len(data) /\ n > 0 THEN end ELSE Len(data)
             byte(i) == IF pos < i /\ i <= end THEN b
                        ELSE IF i <= Len(data) THEN data[i] ELSE 0
             w == [i \in 1 .. size |-> byte(i)]
  <1>1. Len(data) \in Nat /\ size \in Nat /\ size >= Len(data)
    BY LenProperties
  <1>2. \A i \in 1 .. size : byte(i) \in Nat
    BY <1>1, ElementOfSeq
  <1>3. w \in [1 .. size -> Nat]
    BY <1>2
  <1>4. w \in Seq(Nat) /\ Len(w) = size
    BY <1>1, <1>3
  <1>5. \A i \in 1 .. Len(data) : w[i] = byte(i)
    BY <1>1
  <1>6. Written(data, pos, n, b) = w
    BY DEF Written
  <1> HIDE DEF w
  <1>7. QED
    BY <1>1, <1>4, <1>5, <1>6

(* A write changes one file, under the offset that it moves. *)
LEMMA WriteBytesEffect ==
  ASSUME IOInv, NEW fd, IsFile(fd), NEW n \in Nat, WriteBytes(fd, n)
  PROVE  LET f == Handle(fd).file
             pos == Handle(fd).pos IN
         /\ f \in 1 .. Len(files) /\ pos \in Nat
         /\ MoveTo(fd, pos + n)
         /\ files' \in Seq(FileType) /\ Len(files') = Len(files)
         /\ \A g \in 1 .. Len(files) \ {f} : files'[g] = files[g]
         /\ Len(files'[f].data) >= Len(files[f].data)
         /\ \A i \in 1 .. Len(files[f].data) :
              files'[f].data[i] # files[f].data[i] => pos < i /\ i <= pos + n
  <1> DEFINE f == Handle(fd).file
             pos == Handle(fd).pos
             w == Written(files[f].data, pos, n, fileDescriptors[fd])
             r == [files[f] EXCEPT !.data = w]
  <1>1. /\ f \in 1 .. Len(files) /\ pos \in Nat
        /\ files[f] \in FileType /\ files[f].data \in Seq(Nat)
        /\ fileDescriptors[fd] \in Nat
    BY GoodFile, GoodDescriptor DEF HandleType, Data
  <1>2. MoveTo(fd, pos + n) /\ files' = [files EXCEPT ![f] = r]
    BY DEF WriteBytes
  <1>3. /\ w \in Seq(Nat) /\ Len(w) >= Len(files[f].data)
        /\ \A i \in 1 .. Len(files[f].data) :
             w[i] # files[f].data[i] => pos < i /\ i <= pos + n
    <2> HIDE DEF f, pos
    <2>1. QED
      BY <1>1, WrittenBytes
  <1>4. r \in FileType /\ r.data = w
    BY <1>1, <1>3 DEF FileType
  <1> HIDE DEF f, pos, w, r
  <1>5. /\ files' \in Seq(FileType) /\ Len(files') = Len(files)
        /\ \A g \in 1 .. Len(files) : files'[g] = IF g = f THEN r ELSE files[g]
    BY <1>1, <1>2, <1>4, ExceptSeq DEF IOInv, RecordTypes
  <1>6. QED
    BY <1>1, <1>2, <1>3, <1>4, <1>5 DEF f, pos

(* Of a write, done bytes reach the file. *)
LEMMA WriteDone ==
  ASSUME NEW fd, NEW count \in Counts, WriteFile(fd, count)
  PROVE  /\ Transfer /\ IsFile(fd) /\ Handle(fd).write /\ Handle(fd).open
         /\ \E done \in Nat : WriteBytes(fd, done)
  <1>1. count \in Nat
    BY InputAssumption
  <1>2. CASE WriteBytes(fd, count)
    BY <1>1, <1>2 DEF WriteFile
  <1>3. CASE \E done \in 0 .. count : WriteBytes(fd, done)
    BY <1>1, <1>3 DEF WriteFile
  <1>4. QED
    BY <1>2, <1>3 DEF WriteFile

(* FileHandle.write is a transfer. *)
LEMMA WriteTransfer ==
  ASSUME IOInv, NEW fd, NEW count \in Counts, WriteFile(fd, count)
  PROVE  TransferStep
  <1>1. Transfer /\ IsFile(fd) /\ ~Bad(fd)
    BY WriteDone DEF IsFile
  <1>2. PICK done \in Nat : WriteBytes(fd, done)
    BY WriteDone
  <1>3. /\ Handle(fd).pos \in Nat /\ MoveTo(fd, Handle(fd).pos + done)
        /\ files' \in Seq(FileType) /\ Len(files') = Len(files)
    BY <1>1, <1>2, WriteBytesEffect
  <1>4. Handle(fd).pos + done \in Nat
    BY <1>3
  <1>5. QED
    BY <1>1, <1>3, <1>4, MoveOffset DEF TransferStep

(* A step of this kind keeps the invariant. *)
LEMMA TransferInv ==
  ASSUME IOInv, TransferStep
  PROVE  IOInv'
  <1> USE DEF IOInv, Transfer, TransferStep
  <1>1. RecordTypes'
    BY DEF RecordTypes
  <1>2. TypeOK'
    <2>1. ASSUME NEW h \in 1 .. Len(handles')
          PROVE  /\ handles'[h].file \in {Stdin, Stdout} \cup 1 .. Len(files')
                 /\ handles'[h].pos \in Nat
      <3>1. h \in 1 .. Len(handles) /\ handles'[h] \in HandleType
        BY ElementOfSeq
      <3>2. QED
        BY <3>1 DEF TypeOK, SameFile, HandleType
    <2>2. QED
      BY <2>1 DEF TypeOK
  <1>3. OpenHandlesReachable'
    BY DEF OpenHandlesReachable, SameFile
  <1>4. ExitClosesAll'
    BY DEF ExitClosesAll, SameFile
  <1>5. QED
    BY <1>1, <1>2, <1>3, <1>4
-----------------------------------------------------------------------------
(* open *)

(* O_TRUNC empties the one file, for a handle that writes. *)
LEMMA TruncatedFiles ==
  ASSUME NEW fs \in Seq(FileType), NEW f \in 1 .. Len(fs), NEW flags
  PROVE  LET ts == Truncated(fs, f, flags) IN
         /\ ts \in Seq(FileType) /\ Len(ts) = Len(fs)
         /\ \A g \in 1 .. Len(fs) \ {f} : ts[g] = fs[g]
         /\ ts[f] = fs[f] \/ (Truncates(flags) /\ ts[f].data = <<>>)
  <1> DEFINE r == [fs[f] EXCEPT !.data = <<>>]
  <1>1. fs[f] \in FileType
    BY ElementOfSeq
  <1>2. r \in FileType /\ r.data = <<>>
    BY <1>1, EmptySeq DEF FileType
  <1> HIDE DEF r
  <1>3. /\ [fs EXCEPT ![f] = r] \in Seq(FileType)
        /\ Len([fs EXCEPT ![f] = r]) = Len(fs)
        /\ \A g \in 1 .. Len(fs) : [fs EXCEPT ![f] = r][g] = IF g = f THEN r ELSE fs[g]
    BY <1>2, ExceptSeq
  <1>4. Truncated(fs, f, flags) \in {fs, [fs EXCEPT ![f] = r]}
    BY DEF Truncated, r
  <1>5. Truncated(fs, f, flags) # fs => Truncates(flags)
    BY DEF Truncated
  <1>6. QED
    BY <1>2, <1>3, <1>4, <1>5

(* All else of that file stays. *)
LEMMA TruncatedRecord ==
  ASSUME NEW fs \in Seq(FileType), NEW f \in 1 .. Len(fs), NEW flags
  PROVE  Truncated(fs, f, flags)[f] \in {fs[f], [fs[f] EXCEPT !.data = <<>>]}
  BY DEF Truncated

(* A file handle is made with the next number, whether or not there is a   *)
(* descriptor for it.                                                      *)
LEMMA NewHandle ==
  ASSUME IOInv, NEW f \in Nat, NEW flags, NEW returned \in BOOLEAN,
         handles' = Append(handles, FileHandle(f, flags, returned))
  PROVE  /\ handles' \in Seq(HandleType) /\ Len(handles) \in Nat
         /\ Len(handles') = Len(handles) + 1
         /\ \A h \in 1 .. Len(handles) : handles'[h] = handles[h]
         /\ handles'[Len(handles) + 1].file = f
         /\ handles'[Len(handles) + 1].write = Writes(flags)
         /\ handles'[Len(handles) + 1].pos = 0
         /\ handles'[Len(handles) + 1].open
         /\ handles'[Len(handles) + 1].trunc = ("O_TRUNC" \in flags)
         /\ handles'[Len(handles) + 1].returned = returned
  <1> DEFINE r == FileHandle(f, flags, returned)
  <1>1. /\ r \in HandleType /\ r.file = f /\ r.write = Writes(flags) /\ r.pos = 0
        /\ r.open = TRUE /\ r.trunc = ("O_TRUNC" \in flags) /\ r.returned = returned
    BY DEF FileHandle, HandleType, Reads, Writes
  <1> HIDE DEF r
  <1>2. QED
    BY <1>1, AppendProperties, LenProperties DEF IOInv, RecordTypes, r

(* Opening a handle on an existing or new file: it gets a descriptor of its own. *)
LEMMA OpenHandleInv ==
  ASSUME IOInv, status = "running", UNCHANGED <<status, numOps>>,
         NEW fs \in Seq(FileType), Len(fs) >= Len(files),
         NEW f \in 1 .. Len(fs), NEW flags, OpenHandle(fs, f, flags),
         names' \in [Paths -> 0 .. Len(fs)]
  PROVE  IOInv'
  <1> DEFINE n == numFileDescriptors
             m == Len(handles) + 1
  <1>1. Len(files) \in Nat /\ Len(fs) \in Nat /\ n \in 3 .. OPEN_MAX
        /\ OPEN_MAX \in Nat
    BY LenProperties, LimitAssumption DEF IOInv, RecordTypes, TypeOK
  <1>2. CASE OpenThrows(fs, f, flags)
    <2>1. files' = fs /\ UNCHANGED <<handles, fileDescriptors, numFileDescriptors>>
      BY <1>2 DEF OpenThrows
    <2>2. QED
      BY <1>1, <2>1
      DEF IOInv, RecordTypes, TypeOK, OpenHandlesReachable, ExitClosesAll
  <1>3. CASE TruncateThrows(fs, f, flags)
    <2>1. /\ handles' = Append(handles, FileHandle(f, flags, FALSE))
          /\ files' \in {fs, Truncated(fs, f, flags)}
          /\ UNCHANGED <<fileDescriptors, numFileDescriptors>>
      BY <1>3 DEF TruncateThrows
    <2>2. files' \in Seq(FileType) /\ Len(files') = Len(fs)
      <3>1. /\ Truncated(fs, f, flags) \in Seq(FileType)
            /\ Len(Truncated(fs, f, flags)) = Len(fs)
        BY TruncatedFiles
      <3>2. QED
        BY <2>1, <3>1
    <2>3. f \in Nat
      BY <1>1
    <2>4. /\ handles' \in Seq(HandleType) /\ Len(handles) \in Nat
          /\ Len(handles') = m
          /\ \A h \in 1 .. Len(handles) : handles'[h] = handles[h]
          /\ handles'[m].file = f /\ handles'[m].pos = 0
          /\ handles'[m].returned = FALSE
      BY <2>1, <2>3, NewHandle
    <2>5. RecordTypes'
      BY <2>2, <2>4 DEF IOInv, RecordTypes
    <2>6. \A h \in 1 .. Len(handles') : h \in 1 .. Len(handles) \/ h = m
      BY <2>4
    <2>7. \A h \in 1 .. Len(handles') :
            /\ handles'[h].file \in {Stdin, Stdout} \cup 1 .. Len(files')
            /\ handles'[h].pos \in Nat
      BY <1>1, <2>2, <2>4, <2>6 DEF IOInv, TypeOK
    <2>8. TypeOK'
      <3>1. fileDescriptors' \in [Descriptors -> 0 .. Len(handles')]
        BY <2>1, <2>4 DEF IOInv, TypeOK
      <3>2. QED
        BY <2>1, <2>2, <2>7, <3>1 DEF IOInv, TypeOK
    <2>9. OpenHandlesReachable' /\ ExitClosesAll'
      BY <2>1, <2>4, <2>6 DEF IOInv, OpenHandlesReachable, ExitClosesAll
    <2>10. QED
      BY <2>5, <2>8, <2>9 DEF IOInv
  <1>4. CASE MakeHandle(fs, f, flags)
    <2>1. /\ handles' = Append(handles, FileHandle(f, flags, TRUE))
          /\ files' = Truncated(fs, f, flags)
          /\ PutFileHandle(Len(handles'))
      BY <1>4 DEF MakeHandle
    <2>2. files' \in Seq(FileType) /\ Len(files') = Len(fs)
      BY <2>1, TruncatedFiles
    <2>3. f \in Nat
      BY <1>1
    <2>4. /\ handles' \in Seq(HandleType) /\ Len(handles) \in Nat
          /\ Len(handles') = m
          /\ \A h \in 1 .. Len(handles) : handles'[h] = handles[h]
          /\ handles'[m].file = f /\ handles'[m].pos = 0
      BY <2>1, <2>3, NewHandle
    <2>5. RecordTypes'
      BY <2>2, <2>4 DEF IOInv, RecordTypes
    <2>6. \A h \in 1 .. Len(handles') :
            /\ handles'[h].file \in {Stdin, Stdout} \cup 1 .. Len(files')
            /\ handles'[h].pos \in Nat
      <3>1. ASSUME NEW h \in 1 .. Len(handles)
            PROVE  /\ handles'[h].file \in {Stdin, Stdout} \cup 1 .. Len(files')
                   /\ handles'[h].pos \in Nat
        BY <1>1, <2>2, <2>4 DEF IOInv, TypeOK
      <3>2. QED
        BY <1>1, <2>2, <2>4, <3>1
    <2>7. CASE n >= OPEN_MAX
      <3>1. n = OPEN_MAX /\ UNCHANGED <<fileDescriptors, numFileDescriptors>>
        BY <1>1, <2>1, <2>7 DEF PutFileHandle
      <3>2. TypeOK'
        BY <1>1, <2>2, <2>4, <2>6, <3>1 DEF IOInv, TypeOK
      <3>3. OpenHandlesReachable' /\ ExitClosesAll'
        BY <1>1, <3>1 DEF IOInv, OpenHandlesReachable, ExitClosesAll
      <3>4. QED
        BY <2>5, <3>2, <3>3 DEF IOInv
    <2>8. CASE ~(n >= OPEN_MAX)
      <3>1. /\ fileDescriptors' = [fileDescriptors EXCEPT ![n] = m]
            /\ numFileDescriptors' = n + 1 /\ n < OPEN_MAX
        BY <1>1, <2>1, <2>4, <2>8 DEF PutFileHandle
      <3>2. /\ n \in Descriptors /\ fileDescriptors'[n] = m
            /\ \A d \in Descriptors \ {n} : fileDescriptors'[d] = fileDescriptors[d]
            /\ \A d \in Descriptors : fileDescriptors[d] \in 0 .. Len(handles)
        BY <1>1, <3>1 DEF IOInv, TypeOK, Descriptors
      <3>3. fileDescriptors' \in [Descriptors -> 0 .. Len(handles')]
        BY <2>4, <3>1, <3>2 DEF IOInv, TypeOK
      <3>4. TypeOK'
        <4>1. \A fd \in Descriptors : fd >= n + 1 => fileDescriptors'[fd] = None
          <5> SUFFICES ASSUME NEW fd \in Descriptors, fd >= n + 1
                       PROVE  fileDescriptors'[fd] = None
            OBVIOUS
          <5>1. fd # n /\ fd >= n
            BY <1>1 DEF Descriptors
          <5>2. fileDescriptors[fd] = None
            BY <5>1 DEF IOInv, TypeOK
          <5>3. QED
            BY <3>2, <5>1, <5>2
        <4>2. QED
          BY <1>1, <2>2, <2>6, <3>1, <3>3, <4>1 DEF IOInv, TypeOK
      <3>5. OpenHandlesReachable'
        <4>1. ASSUME NEW c \in Descriptors, NEW d \in Descriptors,
                     c # d, fileDescriptors'[c] # None
              PROVE  fileDescriptors'[c] # fileDescriptors'[d]
          <5>1. fileDescriptors[c] # m /\ fileDescriptors[d] # m
            BY <2>4, <3>2
          <5>2. QED
            BY <3>2, <4>1, <5>1 DEF IOInv, OpenHandlesReachable
        <4>2. ASSUME NEW h \in 1 .. Len(handles'), handles'[h].open,
                     handles'[h].returned
              PROVE  \E fd \in Descriptors : fileDescriptors'[fd] = h
          <5>1. CASE h = m
            BY <3>2, <5>1
          <5>2. CASE h \in 1 .. Len(handles)
            <6>1. PICK fd \in Descriptors : fileDescriptors[fd] = h
              BY <2>4, <3>1, <4>2, <5>2 DEF IOInv, OpenHandlesReachable
            <6>2. fd # n
              <7>1. n \in Descriptors /\ n >= n
                BY <1>1, <3>2
              <7>2. fileDescriptors[n] = 0
                BY <7>1 DEF IOInv, TypeOK, None
              <7>3. QED
                BY <5>2, <6>1, <7>2
            <6>3. QED
              BY <3>2, <6>1, <6>2
          <5>3. QED
            BY <2>4, <5>1, <5>2
        <4>3. QED
          BY <4>1, <4>2 DEF OpenHandlesReachable
      <3>6. ExitClosesAll'
        BY DEF ExitClosesAll
      <3>7. QED
        BY <2>5, <3>4, <3>5, <3>6 DEF IOInv
    <2>9. QED
      BY <2>7, <2>8
  <1>5. QED
    BY <1>2, <1>3, <1>4 DEF OpenHandle

(* The files after open has made one. *)
LEMMA NewFileAdded ==
  ASSUME IOInv, NEW perm \in SUBSET {"r", "w"}
  PROVE  /\ NewFile(perm) \in Seq(FileType) /\ Len(files) \in Nat
         /\ Len(NewFile(perm)) = Len(files) + 1
         /\ \A g \in 1 .. Len(files) : NewFile(perm)[g] = files[g]
         /\ NewFile(perm)[Len(files) + 1].perm = perm
         /\ NewFile(perm)[Len(files) + 1].data = <<>>
  <1> DEFINE r == [data |-> <<>>, perm |-> perm]
  <1>1. r \in FileType /\ r.perm = perm /\ r.data = <<>>
    BY EmptySeq DEF FileType
  <1> HIDE DEF r
  <1>2. QED
    BY <1>1, AppendProperties, LenProperties DEF NewFile, r, IOInv, RecordTypes

(* The permissions of the file that open makes. *)
NewPerm(flags, mode) == IF "O_CREAT" \in flags THEN mode ELSE {"r", "w"}

(* An open that reaches a file, found or made, and one that does not.      *)
LEMMA OpenCases ==
  ASSUME IOInv, NEW path \in Paths, NEW flags \in Flags, NEW mode \in Modes,
         Open(path, flags, mode)
  PROVE  /\ status = "running" /\ UNCHANGED <<status, numOps>>
         /\ NewPerm(flags, mode) \in SUBSET {"r", "w"}
         /\ \/ UNCHANGED <<names, files, handles, fileDescriptors, numFileDescriptors>>
            \/ /\ UNCHANGED names /\ names[path] \in 1 .. Len(files)
               /\ OpenHandle(files, names[path], flags)
            \/ /\ names' = [names EXCEPT ![path] = Len(files) + 1]
               /\ OpenHandle(NewFile(NewPerm(flags, mode)), Len(files) + 1, flags)
  <1>1. /\ status = "running" /\ UNCHANGED <<status, numOps>>
        /\ NewPerm(flags, mode) \in SUBSET {"r", "w"}
    BY InputAssumption DEF Open, NewPerm
  <1>2. CASE OpenExisting(path, flags)
    <2>1. names[path] \in 0 .. Len(files) /\ names[path] # 0 /\ Len(files) \in Nat
      BY <1>2, LenProperties DEF OpenExisting, None, IOInv, TypeOK, RecordTypes
    <2>2. QED
      BY <1>1, <1>2, <2>1 DEF OpenExisting
  <1>3. CASE OpenMissing(path, flags, mode)
    BY <1>1, <1>3 DEF OpenMissing, NewPerm
  <1>4. CASE OpenFails(flags)
    BY <1>1, <1>4 DEF OpenFails
  <1>5. QED
    BY <1>2, <1>3, <1>4 DEF Open

(* IO.open. *)
LEMMA OpenInv ==
  ASSUME IOInv, NEW path \in Paths, NEW flags \in Flags, NEW mode \in Modes,
         Open(path, flags, mode)
  PROVE  IOInv'
  <1> DEFINE fs == NewFile(NewPerm(flags, mode))
  <1>1. /\ status = "running" /\ UNCHANGED <<status, numOps>>
        /\ NewPerm(flags, mode) \in SUBSET {"r", "w"}
    BY OpenCases
  <1>2. CASE UNCHANGED <<names, files, handles, fileDescriptors, numFileDescriptors>>
    BY <1>1, <1>2
    DEF IOInv, RecordTypes, TypeOK, OpenHandlesReachable, ExitClosesAll
  <1>3. CASE /\ UNCHANGED names /\ names[path] \in 1 .. Len(files)
             /\ OpenHandle(files, names[path], flags)
    <2>1. /\ files \in Seq(FileType) /\ Len(files) \in Nat
          /\ names' \in [Paths -> 0 .. Len(files)]
      BY <1>3, LenProperties DEF IOInv, RecordTypes, TypeOK
    <2>2. Len(files) >= Len(files)
      BY <2>1
    <2>3. QED
      BY <1>1, <1>3, <2>1, <2>2, OpenHandleInv
  <1>4. CASE /\ names' = [names EXCEPT ![path] = Len(files) + 1]
             /\ OpenHandle(fs, Len(files) + 1, flags)
    <2>1. fs \in Seq(FileType) /\ Len(files) \in Nat /\ Len(fs) = Len(files) + 1
      BY <1>1, NewFileAdded
    <2>2. names' \in [Paths -> 0 .. Len(fs)]
      BY <1>4, <2>1 DEF IOInv, TypeOK
    <2>3. Len(fs) >= Len(files) /\ Len(files) + 1 \in 1 .. Len(fs)
      BY <2>1
    <2> HIDE DEF fs
    <2>4. QED
      BY <1>1, <1>4, <2>1, <2>2, <2>3, OpenHandleInv
  <1>5. QED
    BY <1>2, <1>3, <1>4, OpenCases
-----------------------------------------------------------------------------
(* close, exit, names *)

(* The handle behind a descriptor is closed and no other. *)
LEMMA ClosedHandle ==
  ASSUME IOInv, NEW k \in 1 .. Len(handles),
         handles' = [handles EXCEPT ![k].open = FALSE]
  PROVE  /\ handles' \in Seq(HandleType) /\ Len(handles') = Len(handles)
         /\ \A h \in 1 .. Len(handles) :
              /\ SameFile(h) /\ handles'[h].pos = handles[h].pos
              /\ handles'[h].open => handles[h].open /\ h # k
  <1> DEFINE r == [handles[k] EXCEPT !.open = FALSE]
  <1>1. handles[k] \in HandleType
    BY ElementOfSeq DEF IOInv, RecordTypes
  <1>2. /\ r \in HandleType /\ r.pos = handles[k].pos /\ r.file = handles[k].file
        /\ r.read = handles[k].read /\ r.write = handles[k].write
        /\ r.open = FALSE /\ r.returned = handles[k].returned
    BY <1>1 DEF HandleType
  <1>3. handles' = [handles EXCEPT ![k] = r]
    OBVIOUS
  <1> HIDE DEF r
  <1>4. /\ handles' \in Seq(HandleType) /\ Len(handles') = Len(handles)
        /\ \A h \in 1 .. Len(handles) : handles'[h] = IF h = k THEN r ELSE handles[h]
    <2>1. handles \in Seq(HandleType)
      BY DEF IOInv, RecordTypes
    <2>2. /\ [handles EXCEPT ![k] = r] \in Seq(HandleType)
          /\ Len([handles EXCEPT ![k] = r]) = Len(handles)
          /\ \A h \in 1 .. Len(handles) :
               [handles EXCEPT ![k] = r][h] = IF h = k THEN r ELSE handles[h]
      BY <1>2, <2>1, ExceptSeq
    <2>3. QED
      BY <1>3, <2>2
  <1>5. QED
    BY <1>2, <1>4 DEF SameFile

(* IO.close removes the descriptor and closes the handle behind it. *)
LEMMA CloseInv ==
  ASSUME IOInv, NEW fd, Close(fd)
  PROVE  IOInv'
  <1>1. /\ status = "running"
        /\ UNCHANGED <<numFileDescriptors, files, names, status, numOps>>
    BY DEF Close
  <1>2. CASE Bad(fd)
    <2>1. UNCHANGED <<handles, fileDescriptors>>
      BY <1>2 DEF Close
    <2>2. QED
      BY <1>1, <2>1
      DEF IOInv, RecordTypes, TypeOK, OpenHandlesReachable, ExitClosesAll
  <1>3. CASE ~Bad(fd)
    <2> DEFINE k == fileDescriptors[fd]
    <2>1. /\ handles' = [handles EXCEPT ![k].open = FALSE]
          /\ \/ fileDescriptors' = [fileDescriptors EXCEPT ![fd] = None]
             \/ UNCHANGED fileDescriptors
      BY <1>3 DEF Close
    <2>2. fd \in Descriptors /\ k \in 1 .. Len(handles)
      BY <1>3, GoodDescriptor
    <2> HIDE DEF k
    <2>3. /\ handles' \in Seq(HandleType) /\ Len(handles') = Len(handles)
          /\ \A h \in 1 .. Len(handles) :
               /\ SameFile(h) /\ handles'[h].pos = handles[h].pos
               /\ handles'[h].open => handles[h].open /\ h # k
      BY <2>1, <2>2, ClosedHandle
    <2>4. /\ fileDescriptors' \in [Descriptors -> 0 .. Len(handles)]
          /\ \A d \in Descriptors \ {fd} : fileDescriptors'[d] = fileDescriptors[d]
          /\ fileDescriptors'[fd] \in {k, None}
      <3>1. 0 \in 0 .. Len(handles)
        BY <2>2
      <3>2. QED
        BY <2>1, <2>2, <3>1 DEF IOInv, TypeOK, None, k
    <2>5. RecordTypes'
      BY <1>1, <2>3 DEF IOInv, RecordTypes
    <2>6. TypeOK'
      BY <1>1, <2>2, <2>3, <2>4 DEF IOInv, TypeOK, SameFile, k
    <2>7. OpenHandlesReachable'
      <3>1. ASSUME NEW c \in Descriptors, NEW d \in Descriptors,
                   c # d, fileDescriptors'[c] # None
            PROVE  fileDescriptors'[c] # fileDescriptors'[d]
        <4>1. fileDescriptors'[c] = fileDescriptors[c]
          BY <2>4, <3>1 DEF k
        <4>2. fileDescriptors'[d] \in {fileDescriptors[d], None}
          BY <2>4 DEF k
        <4>3. QED
          BY <3>1, <4>1, <4>2 DEF IOInv, OpenHandlesReachable
      <3>2. ASSUME NEW h \in 1 .. Len(handles'), handles'[h].open,
                   handles'[h].returned, numFileDescriptors < OPEN_MAX
            PROVE  \E d \in Descriptors : fileDescriptors'[d] = h
        <4>1. /\ handles[h].open /\ handles[h].returned
              /\ h # k /\ h \in 1 .. Len(handles)
          BY <2>3, <3>2 DEF SameFile
        <4>2. PICK d \in Descriptors : fileDescriptors[d] = h
          BY <1>1, <3>2, <4>1 DEF IOInv, OpenHandlesReachable
        <4>3. d # fd
          BY <4>1, <4>2 DEF k
        <4>4. QED
          BY <2>4, <4>2, <4>3
      <3>3. QED
        BY <1>1, <3>1, <3>2 DEF OpenHandlesReachable
    <2>8. ExitClosesAll'
      BY <1>1 DEF ExitClosesAll
    <2>9. QED
      BY <2>5, <2>6, <2>7, <2>8 DEF IOInv
  <1>4. QED
    BY <1>2, <1>3

(* The descriptors of the table, all of them below numFileDescriptors, are *)
(* closed.                                                                 *)
LEMMA ExitInv ==
  ASSUME IOInv, Exit
  PROVE  IOInv'
  <1> DEFINE open == {fd \in ExitRange : fileDescriptors[fd] # None}
             Behind(h) == \E fd \in open : fileDescriptors[fd] = h
             H(h) == IF Behind(h) THEN [handles[h] EXCEPT !.open = FALSE]
                                  ELSE handles[h]
  <1>1. /\ status = "running" /\ status' = "exited"
        /\ UNCHANGED <<numFileDescriptors, files, names, errno, numOps>>
        /\ handles' = [h \in 1 .. Len(handles) |-> H(h)]
    BY DEF Exit
  <1>2. PICK failed \in SUBSET open :
          fileDescriptors' = [fd \in Descriptors |->
            IF fd \in open \ failed THEN None ELSE fileDescriptors[fd]]
    BY DEF Exit
  <1>3. Len(handles) \in Nat
    BY LenProperties DEF IOInv, RecordTypes
  <1>4. \A h \in 1 .. Len(handles) :
          /\ H(h) \in HandleType /\ H(h).file = handles[h].file
          /\ H(h).pos = handles[h].pos /\ H(h).returned = handles[h].returned
          /\ H(h).open => handles[h].open /\ ~Behind(h)
    <2> SUFFICES ASSUME NEW h \in 1 .. Len(handles)
                 PROVE  /\ H(h) \in HandleType /\ H(h).file = handles[h].file
                        /\ H(h).pos = handles[h].pos /\ H(h).returned = handles[h].returned
                        /\ H(h).open => handles[h].open /\ ~Behind(h)
      OBVIOUS
    <2>1. handles[h] \in HandleType
      BY ElementOfSeq DEF IOInv, RecordTypes
    <2> HIDE DEF Behind
    <2>2. QED
      BY <2>1 DEF HandleType
  <1>5. /\ handles' \in Seq(HandleType) /\ Len(handles') = Len(handles)
        /\ \A h \in 1 .. Len(handles) : handles'[h] = H(h)
    <2> HIDE DEF H
    <2>1. handles' \in [1 .. Len(handles) -> HandleType]
      BY <1>1, <1>4
    <2>2. QED
      BY <1>1, <1>3, <2>1
  <1> HIDE DEF H
  <1>6. fileDescriptors' \in [Descriptors -> 0 .. Len(handles)]
        /\ \A d \in Descriptors : fileDescriptors'[d] \in {fileDescriptors[d], None}
    BY <1>2, <1>3 DEF IOInv, TypeOK, None
  <1>7. RecordTypes'
    BY <1>1, <1>5 DEF IOInv, RecordTypes
  <1>8. TypeOK'
    BY <1>1, <1>4, <1>5, <1>6 DEF IOInv, TypeOK
  <1>9. OpenHandlesReachable'
    <2>1. \A c, d \in Descriptors :
            c # d /\ fileDescriptors'[c] # None => fileDescriptors'[c] # fileDescriptors'[d]
      BY <1>6 DEF IOInv, OpenHandlesReachable
    <2>2. QED
      BY <1>1, <2>1 DEF OpenHandlesReachable
  <1>10. ExitClosesAll'
    <2> SUFFICES ASSUME NEW h \in 1 .. Len(handles), handles'[h].open,
                        handles'[h].returned, numFileDescriptors # OPEN_MAX
                 PROVE  FALSE
      BY <1>1, <1>5 DEF ExitClosesAll
    <2>1. handles[h].open /\ handles[h].returned /\ ~Behind(h)
      BY <1>4, <1>5
    <2>2. numFileDescriptors < OPEN_MAX
      BY LimitAssumption DEF IOInv, TypeOK
    <2>3. PICK fd \in Descriptors : fileDescriptors[fd] = h
      BY <1>1, <2>1, <2>2 DEF IOInv, OpenHandlesReachable
    <2>4. fileDescriptors[fd] # None
      BY <2>3 DEF None
    <2>5. fd < numFileDescriptors /\ fd \in Nat /\ numFileDescriptors \in Nat
      BY <2>4, LimitAssumption DEF IOInv, TypeOK, Descriptors
    <2>6. fd \in ExitRange
      BY <2>5 DEF ExitRange
    <2>7. QED
      BY <2>1, <2>3, <2>4, <2>6
  <1>11. QED
    BY <1>7, <1>8, <1>9, <1>10 DEF IOInv

(* IO.rename changes names only. *)
LEMMA RenameInv ==
  ASSUME IOInv, NEW oldpath \in Paths, NEW newpath \in Paths,
         Rename(oldpath, newpath)
  PROVE  IOInv'
  <1>1. UNCHANGED <<fileDescriptors, numFileDescriptors, handles, files, status,
                    numOps>>
    BY DEF Rename
  <1>2. names' \in [Paths -> 0 .. Len(files)]
    <2>1. names \in [Paths -> 0 .. Len(files)] /\ 0 \in 0 .. Len(files)
      BY LenProperties DEF IOInv, TypeOK, RecordTypes
    <2>2. QED
      BY <2>1 DEF Rename, None
  <1>3. QED
    BY <1>1, <1>2 DEF IOInv, RecordTypes, TypeOK, OpenHandlesReachable, ExitClosesAll

-----------------------------------------------------------------------------
(* All steps *)

(* The calls of read, write and lseek through a descriptor. *)
TransferCall(fd) ==
  \/ \E count \in Counts :
       \/ ReadFile(fd, count) \/ WriteFile(fd, count)
       \/ RefuseRead(fd, count) \/ RefuseWrite(fd, count)
  \/ ReadStdin(fd) \/ WriteStdout(fd) \/ RefuseSeek(fd)
  \/ \E offset \in Offsets, whence \in {"SEEK_SET", "SEEK_CUR", "SEEK_END"} :
       Seek(fd, offset, whence)

(* Each is a transfer step. *)
LEMMA TransferCases ==
  ASSUME IOInv, NEW fd \in UsedDescriptors,
         TransferCall(fd)
  PROVE  TransferStep
  <1>1. ASSUME NEW count \in Counts, ReadFile(fd, count) PROVE TransferStep
    BY <1>1, ReadTransfer
  <1>2. ASSUME NEW count \in Counts, WriteFile(fd, count) PROVE TransferStep
    BY <1>2, WriteTransfer
  <1>3. ASSUME NEW offset \in Offsets,
               NEW whence \in {"SEEK_SET", "SEEK_CUR", "SEEK_END"},
               Seek(fd, offset, whence)
        PROVE  TransferStep
    BY <1>3, SeekTransfer
  <1>4. CASE \/ ReadStdin(fd) \/ WriteStdout(fd) \/ RefuseSeek(fd)
             \/ \E count \in Counts : RefuseRead(fd, count) \/ RefuseWrite(fd, count)
    <2>1. Transfer /\ UNCHANGED <<handles, files>>
      BY <1>4 DEF ReadStdin, WriteStdout, RefuseRead, RefuseWrite, RefuseSeek,
                  Refused, NothingDone
    <2>2. QED
      BY <2>1, UnchangedTransfer
  <1>5. QED
    BY <1>1, <1>2, <1>3, <1>4 DEF TransferCall

(* Every step keeps the invariant. *)
LEMMA StepInv == IOInv /\ [Next]_vars => IOInv'
  <1> SUFFICES ASSUME IOInv, [Next]_vars PROVE IOInv'
    OBVIOUS
  <1>1. ASSUME NEW path \in Paths, NEW flags \in Flags, NEW mode \in Modes,
               Open(path, flags, mode)
        PROVE  IOInv'
    BY <1>1, OpenInv
  <1>2. ASSUME NEW fd \in UsedDescriptors, Escape(fd) PROVE IOInv'
    BY <1>2 DEF Escape, IOInv, RecordTypes, TypeOK, OpenHandlesReachable, ExitClosesAll
  <1>3. ASSUME NEW fd \in UsedDescriptors,
               TransferCall(fd)
        PROVE  IOInv'
    BY <1>3, TransferCases, TransferInv
  <1>4. ASSUME NEW fd \in UsedDescriptors, Close(fd) PROVE IOInv'
    BY <1>4, CloseInv
  <1>5. CASE Exit
    BY <1>5, ExitInv
  <1>6. ASSUME NEW oldpath \in Paths, NEW newpath \in Paths, Rename(oldpath, newpath)
        PROVE  IOInv'
    BY <1>6, RenameInv
  <1>7. CASE Unsupported
    BY <1>7
    DEF Unsupported, IOInv, RecordTypes, TypeOK, OpenHandlesReachable, ExitClosesAll
  <1>8. CASE UNCHANGED vars
    BY <1>8 DEF vars, IOInv, RecordTypes, TypeOK, OpenHandlesReachable, ExitClosesAll
  <1>9. QED
    BY <1>1, <1>2, <1>3, <1>4, <1>5, <1>6, <1>7, <1>8 DEF Next, TransferCall
(* The invariant holds in every state of every run. *)
THEOREM IOInvariant == Spec => []IOInv
  <1>1. QED
    BY InitInv, StepInv, PTL DEF Spec

-----------------------------------------------------------------------------
(* Theorems: invariants *)

(* The table, its counter, the handles and the names stay consistent; no   *)
(* descriptor at or above numFileDescriptors is in use.                    *)
THEOREM TypeCorrect == Spec => []TypeOK
  <1>1. IOInv => TypeOK
    BY DEF IOInv
  <1>2. QED
    BY <1>1, IOInvariant, PTL

(* No two descriptors share a handle, and no open handle is out of reach,  *)
(* unless the table is full or truncate(0) threw in open: putFileHandle,   *)
(* close and _exit together.                                               *)
THEOREM HandlesStayReachable == Spec => []OpenHandlesReachable
  <1>1. IOInv => OpenHandlesReachable
    BY DEF IOInv
  <1>2. QED
    BY <1>1, IOInvariant, PTL

(* IO.close() at _exit leaves no handle open, unless the table was full or *)
(* truncate(0) threw when it was opened.                                   *)
THEOREM ExitLeavesNothingOpen == Spec => []ExitClosesAll
  <1>1. IOInv => ExitClosesAll
    BY DEF IOInv
  <1>2. QED
    BY <1>1, IOInvariant, PTL

-----------------------------------------------------------------------------
(* Theorems: steps *)

(* The table after open: a free place of it, or none, names the handle.    *)
LEMMA OpenTable ==
  ASSUME IOInv, NEW fs, NEW f, NEW flags, OpenHandle(fs, f, flags)
  PROVE  \/ UNCHANGED <<fileDescriptors, numFileDescriptors>>
         \/ /\ numFileDescriptors' = numFileDescriptors + 1
            /\ \A fd \in Descriptors \ {numFileDescriptors} :
                 fileDescriptors'[fd] = fileDescriptors[fd]
  BY DEF OpenHandle, MakeHandle, TruncateThrows, OpenThrows, PutFileHandle, IOInv,
         TypeOK

(* A stale descriptor never reaches a file opened later: putFileHandle     *)
(* takes descriptors in order and close gives none back.                   *)
THEOREM StaleDescriptorStaysStale == Spec => DescriptorNeverReused
  <1> DEFINE Keeps ==
        /\ numFileDescriptors' >= numFileDescriptors
        /\ \A fd \in Descriptors :
             fd < numFileDescriptors \/ fileDescriptors[fd] # None =>
               fileDescriptors'[fd] \in {fileDescriptors[fd], None}
  <1>1. IOInv /\ [Next]_vars => [Keeps]_vars
    <2> SUFFICES ASSUME IOInv, Next PROVE Keeps
      BY DEF vars
    <2>1. /\ numFileDescriptors \in Nat
          /\ \A fd \in Descriptors : fileDescriptors[fd] # None => fd < numFileDescriptors
      BY LimitAssumption DEF IOInv, TypeOK, Descriptors
    <2>2. CASE UNCHANGED <<fileDescriptors, numFileDescriptors>>
      BY <2>1, <2>2
    <2>3. ASSUME NEW path \in Paths, NEW flags \in Flags, NEW mode \in Modes,
                 Open(path, flags, mode)
          PROVE  Keeps
      <3>1. \/ UNCHANGED <<fileDescriptors, numFileDescriptors>>
            \/ /\ numFileDescriptors' = numFileDescriptors + 1
               /\ \A fd \in Descriptors \ {numFileDescriptors} :
                    fileDescriptors'[fd] = fileDescriptors[fd]
        BY <2>3, OpenCases, OpenTable
      <3>2. QED
        BY <2>1, <3>1, <2>2
    <2>4. ASSUME NEW fd \in UsedDescriptors, Close(fd) PROVE Keeps
      <3>1. /\ numFileDescriptors' = numFileDescriptors
            /\ \/ UNCHANGED fileDescriptors
               \/ fileDescriptors' = [fileDescriptors EXCEPT ![fd] = None]
        BY <2>4 DEF Close
      <3>2. fileDescriptors \in [Descriptors -> 0 .. Len(handles)]
        BY DEF IOInv, TypeOK
      <3>3. QED
        BY <2>1, <3>1, <3>2
    <2>5. CASE Exit
      BY <2>1, <2>5 DEF Exit
    <2>6. ASSUME NEW fd \in UsedDescriptors,
                 TransferCall(fd)
          PROVE  Keeps
      BY <2>2, <2>6, TransferCases DEF TransferStep, Transfer
    <2>7. QED
      BY <2>2, <2>3, <2>4, <2>5, <2>6 DEF Next, TransferCall, Escape, Rename, Unsupported
  <1>2. QED
    BY <1>1, IOInvariant, PTL DEF Spec, DescriptorNeverReused

(* An open that got no descriptor from a table with room: of the files it  *)
(* was given, it has at most emptied the one it was to truncate.           *)
LEMMA FailedOpenHandle ==
  ASSUME IOInv, NEW fs \in Seq(FileType), NEW f \in 1 .. Len(fs), NEW flags,
         OpenHandle(fs, f, flags), numFileDescriptors' = numFileDescriptors,
         numFileDescriptors < OPEN_MAX
  PROVE  /\ Len(files') = Len(fs)
         /\ \A g \in 1 .. Len(fs) : files'[g] # fs[g] =>
              /\ g = f /\ Truncates(flags)
              /\ files'[g] = [fs[g] EXCEPT !.data = <<>>]
         /\ files' = fs \/ Truncates(flags)
         /\ ~Permitted(fs[f].perm, flags) \/ "O_CREAT" \in flags \/ Truncates(flags)
  <1>1. ~PutFileHandle(Len(handles'))
    BY LimitAssumption DEF PutFileHandle, IOInv, TypeOK
  <1>2. CASE OpenThrows(fs, f, flags)
    BY <1>2 DEF OpenThrows
  <1>3. CASE TruncateThrows(fs, f, flags)
    <2>1. Truncates(flags) /\ files' \in {fs, Truncated(fs, f, flags)}
      BY <1>3 DEF TruncateThrows
    <2>2. CASE files' = fs
      BY <2>1, <2>2
    <2>3. CASE files' = Truncated(fs, f, flags)
      <3>1. /\ Len(files') = Len(fs)
            /\ \A g \in 1 .. Len(fs) \ {f} : files'[g] = fs[g]
        BY <2>3, TruncatedFiles
      <3>2. files'[f] = fs[f] \/ files'[f] = [fs[f] EXCEPT !.data = <<>>]
        <4>1. Truncated(fs, f, flags)[f] \in {fs[f], [fs[f] EXCEPT !.data = <<>>]}
          BY TruncatedRecord
        <4>2. QED
          BY <2>3, <4>1
      <3>3. ASSUME NEW g \in 1 .. Len(fs), files'[g] # fs[g]
            PROVE  g = f /\ files'[g] = [fs[g] EXCEPT !.data = <<>>]
        <4>1. g = f
          BY <3>1, <3>3
        <4>2. QED
          BY <3>2, <3>3, <4>1
      <3>4. QED
        BY <2>1, <3>1, <3>3
    <2>4. QED
      BY <2>1, <2>2, <2>3
  <1>4. QED
    BY <1>1, <1>2, <1>3 DEF OpenHandle, MakeHandle

(* A failed open leaves the files as they are, but for the truncation it   *)
(* was asked for and the new, empty file of O_CREAT or of a truncation     *)
(* that threw.                                                             *)
THEOREM FailedOpenIsClean == Spec => FailedOpenLeavesFiles
  <1> DEFINE Fails(path, flags, mode) ==
        /\ Open(path, flags, mode)
        /\ numFileDescriptors' = numFileDescriptors /\ numFileDescriptors < OPEN_MAX
      Clean(path, flags) ==
        /\ \A f \in 1 .. Len(files) : files'[f] # files[f] =>
             /\ f = names[path] /\ Truncates(flags)
             /\ files'[f] = [files[f] EXCEPT !.data = <<>>]
        /\ Len(files') > Len(files) =>
             /\ names'[path] = Len(files') /\ files'[Len(files')].data = <<>>
             /\ "O_CREAT" \in flags \/ Truncates(flags)
      AllClean == \A path \in Paths, flags \in Flags, mode \in Modes :
                    Fails(path, flags, mode) => Clean(path, flags)
  <1>1. IOInv /\ [Next]_vars => [AllClean]_vars
    <2> SUFFICES ASSUME IOInv, NEW path \in Paths, NEW flags \in Flags,
                        NEW mode \in Modes, Fails(path, flags, mode)
                 PROVE  Clean(path, flags)
      OBVIOUS
    <2>1. files \in Seq(FileType) /\ Len(files) \in Nat
      BY LenProperties DEF IOInv, RecordTypes
    <2>2. CASE UNCHANGED files
      BY <2>1, <2>2
    <2>3. CASE /\ names[path] \in 1 .. Len(files)
               /\ OpenHandle(files, names[path], flags)
      BY <2>1, <2>3, FailedOpenHandle
    <2>4. CASE /\ names' = [names EXCEPT ![path] = Len(files) + 1]
               /\ OpenHandle(NewFile(NewPerm(flags, mode)), Len(files) + 1, flags)
      <3> DEFINE n == Len(files) + 1
                 perm == NewPerm(flags, mode)
                 fs == NewFile(perm)
      <3>1. perm \in SUBSET {"r", "w"}
        BY OpenCases
      <3>2. /\ fs \in Seq(FileType) /\ Len(fs) = n
            /\ \A g \in 1 .. Len(files) : fs[g] = files[g]
            /\ fs[n].perm = perm /\ fs[n].data = <<>>
        BY <3>1, NewFileAdded
      <3>3. n \in 1 .. Len(fs) /\ ~(n \in 1 .. Len(files))
            /\ \A g \in 1 .. Len(files) : g \in 1 .. Len(fs)
        BY <2>1, <3>2
      <3>4. OpenHandle(fs, n, flags)
        BY <2>4
      <3>5. "O_CREAT" \in flags \/ Permitted(perm, flags)
        BY DEF NewPerm, Permitted
      <3>6. names'[path] = n
        BY <2>4 DEF IOInv, TypeOK
      <3> HIDE DEF fs, n, perm
      <3>7. /\ Len(files') = Len(fs)
            /\ \A g \in 1 .. Len(fs) : files'[g] # fs[g] =>
                 /\ g = n /\ Truncates(flags)
                 /\ files'[g] = [fs[g] EXCEPT !.data = <<>>]
            /\ \/ ~Permitted(fs[n].perm, flags) \/ "O_CREAT" \in flags
               \/ Truncates(flags)
        BY <3>2, <3>3, <3>4, FailedOpenHandle
      <3>8. files'[n].data = <<>>
        <4>1. fs[n] \in FileType
          BY <3>2, <3>3, ElementOfSeq
        <4>2. [fs[n] EXCEPT !.data = <<>>].data = <<>>
          BY <4>1 DEF FileType
        <4>3. QED
          BY <3>2, <3>3, <3>7, <4>2
      <3>9. \A g \in 1 .. Len(files) : files'[g] = files[g]
        BY <3>2, <3>3, <3>7
      <3>10. QED
        BY <3>2, <3>5, <3>6, <3>7, <3>8, <3>9
    <2>5. QED
      BY <2>2, <2>3, <2>4, OpenCases
  <1>2. QED
    BY <1>1, IOInvariant, PTL DEF Spec, FailedOpenLeavesFiles

(* The handle under whose offset the bytes of file f change in a step.     *)
ChangesUnder(f, h) ==
  /\ handles'[h].file = f /\ handles'[h].write /\ handles'[h].open
  /\ \/ /\ h > Len(handles) /\ handles'[h].trunc
        /\ files'[f].data = <<>>
     \/ /\ h <= Len(handles)
        /\ Len(files'[f].data) >= Len(files[f].data)
        /\ \A i \in 1 .. Len(files[f].data) :
             files'[f].data[i] # files[f].data[i] =>
               handles[h].pos < i /\ i <= handles'[h].pos

(* The file that open empties, if any, is that of the new handle. *)
LEMMA OpenChanges ==
  ASSUME IOInv, NEW fs \in Seq(FileType), Len(fs) >= Len(files),
         \A g \in 1 .. Len(files) : fs[g] = files[g],
         NEW k \in 1 .. Len(fs), NEW flags, OpenHandle(fs, k, flags),
         NEW f \in 1 .. Len(files), files'[f].data # files[f].data
  PROVE  \E h \in 1 .. Len(handles') : ChangesUnder(f, h)
  <1>1. Len(files) \in Nat /\ Len(fs) \in Nat /\ f \in 1 .. Len(fs) /\ k \in Nat
    BY LenProperties DEF IOInv, RecordTypes
  <1>2. files' # fs
    OBVIOUS
  <1>3. PICK returned \in BOOLEAN :
          /\ handles' = Append(handles, FileHandle(k, flags, returned))
          /\ files' = Truncated(fs, k, flags)
    BY <1>2 DEF OpenHandle, MakeHandle, TruncateThrows, OpenThrows
  <1>4. f = k /\ Truncates(flags) /\ files'[f].data = <<>>
    <2>1. /\ \A g \in 1 .. Len(fs) \ {k} : files'[g] = fs[g]
          /\ files'[k] = fs[k] \/ (Truncates(flags) /\ files'[k].data = <<>>)
      BY <1>3, TruncatedFiles
    <2>2. files'[f].data # fs[f].data
      OBVIOUS
    <2>3. QED
      BY <1>1, <2>1, <2>2
  <1> DEFINE m == Len(handles) + 1
  <1>5. /\ Len(handles) \in Nat /\ Len(handles') = m
        /\ handles'[m].file = k /\ handles'[m].write = Writes(flags)
        /\ handles'[m].open /\ handles'[m].trunc = ("O_TRUNC" \in flags)
    BY <1>1, <1>3, NewHandle
  <1>6. m \in 1 .. Len(handles') /\ m > Len(handles)
    BY <1>5
  <1>7. ChangesUnder(f, m)
    BY <1>4, <1>5, <1>6 DEF ChangesUnder, Truncates
  <1>8. QED
    BY <1>6, <1>7

(* The file that a write changes is that of its handle. *)
LEMMA WriteChanges ==
  ASSUME IOInv, NEW fd, NEW count \in Counts, WriteFile(fd, count),
         NEW f \in 1 .. Len(files), files'[f].data # files[f].data
  PROVE  \E h \in 1 .. Len(handles') : ChangesUnder(f, h)
  <1> DEFINE k == fileDescriptors[fd]
             pos == Handle(fd).pos
  <1>1. IsFile(fd) /\ ~Bad(fd) /\ Handle(fd).write /\ Handle(fd).open
    BY WriteDone DEF IsFile
  <1>2. PICK done \in Nat : WriteBytes(fd, done)
    BY WriteDone
  <1>3. LET g == Handle(fd).file IN
        /\ g \in 1 .. Len(files) /\ pos \in Nat
        /\ MoveTo(fd, pos + done)
        /\ \A e \in 1 .. Len(files) \ {g} : files'[e] = files[e]
        /\ Len(files'[g].data) >= Len(files[g].data)
        /\ \A i \in 1 .. Len(files[g].data) :
             files'[g].data[i] # files[g].data[i] => pos < i /\ i <= pos + done
    BY <1>1, <1>2, WriteBytesEffect
  <1>4. f = Handle(fd).file
    BY <1>3
  <1>5. k \in 1 .. Len(handles) /\ Len(handles) \in Nat
    BY <1>1, GoodDescriptor, LenProperties DEF IOInv, RecordTypes
  <1>6. pos + done \in Nat
    BY <1>3
  <1>7. /\ Len(handles') = Len(handles)
        /\ SameFile(k) /\ handles'[k].open = handles[k].open
        /\ handles'[k].pos = pos + done
    BY <1>1, <1>3, <1>5, <1>6, MoveOffset
  <1>8. handles'[k].file = f /\ handles'[k].write /\ handles'[k].open
    BY <1>1, <1>4, <1>7 DEF Handle, SameFile
  <1>9. /\ Len(files'[f].data) >= Len(files[f].data)
        /\ \A i \in 1 .. Len(files[f].data) :
             files'[f].data[i] # files[f].data[i] =>
               handles[k].pos < i /\ i <= handles'[k].pos
    BY <1>3, <1>4, <1>7 DEF Handle
  <1>10. ChangesUnder(f, k)
    BY <1>5, <1>8, <1>9 DEF ChangesUnder
  <1>11. QED
    BY <1>5, <1>7, <1>10

(* Bytes change only under the offset of a handle opened for writing their *)
(* file, or when such a handle is opened with O_TRUNC.                     *)
THEOREM WritesStayUnderOffset == Spec => BytesChangeUnderOffset
  <1> DEFINE Under == \A f \in 1 .. Len(files) : files'[f].data # files[f].data =>
                        \E h \in 1 .. Len(handles') : ChangesUnder(f, h)
  <1>1. IOInv /\ [Next]_vars => [Under]_vars
    <2> SUFFICES ASSUME IOInv, Next,
                        NEW f \in 1 .. Len(files), files'[f].data # files[f].data
                 PROVE  \E h \in 1 .. Len(handles') : ChangesUnder(f, h)
      BY DEF vars
    <2>1. ~ UNCHANGED files
      OBVIOUS
    <2>2. ASSUME NEW path \in Paths, NEW flags \in Flags, NEW mode \in Modes,
                 Open(path, flags, mode)
          PROVE  \E h \in 1 .. Len(handles') : ChangesUnder(f, h)
      <3> DEFINE fs == NewFile(NewPerm(flags, mode))
      <3>1. CASE /\ names[path] \in 1 .. Len(files)
                 /\ OpenHandle(files, names[path], flags)
        <4>1. files \in Seq(FileType) /\ Len(files) >= Len(files)
          BY LenProperties DEF IOInv, RecordTypes
        <4>2. QED
          BY <3>1, <4>1, OpenChanges
      <3>2. CASE OpenHandle(fs, Len(files) + 1, flags)
        <4>1. /\ fs \in Seq(FileType) /\ Len(files) \in Nat
              /\ Len(fs) = Len(files) + 1
              /\ \A g \in 1 .. Len(files) : fs[g] = files[g]
          BY <2>2, OpenCases, NewFileAdded
        <4>2. Len(fs) >= Len(files) /\ Len(files) + 1 \in 1 .. Len(fs)
          BY <4>1
        <4> HIDE DEF fs
        <4>3. QED
          BY <3>2, <4>1, <4>2, OpenChanges
      <3>3. QED
        BY <2>1, <2>2, <3>1, <3>2, OpenCases
    <2>3. ASSUME NEW fd \in UsedDescriptors, NEW count \in Counts, WriteFile(fd, count)
          PROVE  \E h \in 1 .. Len(handles') : ChangesUnder(f, h)
      BY <2>3, WriteChanges
    <2>4. QED
      BY <2>1, <2>2, <2>3
      DEF Next, Escape, ReadFile, ReadStdin, WriteStdout, RefuseRead, RefuseWrite,
          RefuseSeek, Refused, NothingDone, Seek, Close, Exit, Rename, Unsupported
  <1>2. [Under]_vars <=> [\A f \in 1 .. Len(files) : files'[f].data # files[f].data =>
       \E h \in 1 .. Len(handles') :
         /\ handles'[h].file = f /\ handles'[h].write /\ handles'[h].open
         /\ \/ /\ h > Len(handles) /\ handles'[h].trunc
               /\ files'[f].data = <<>>
            \/ /\ h <= Len(handles)
               /\ Len(files'[f].data) >= Len(files[f].data)
               /\ \A i \in 1 .. Len(files[f].data) :
                    files'[f].data[i] # files[f].data[i] =>
                      handles[h].pos < i /\ i <= handles'[h].pos]_vars
    BY DEF ChangesUnder
  <1>3. QED
    BY <1>1, <1>2, IOInvariant, PTL DEF Spec, BytesChangeUnderOffset
=============================================================================
