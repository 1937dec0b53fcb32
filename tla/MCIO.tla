-------------------------------- MODULE MCIO --------------------------------
(***************************************************************************)
(* Small instances of IO: a table with two entries beside the standard     *)
(* streams.  The table instance opens and closes, with failures and after  *)
(* the table is full; the transfer instance reads, writes and seeks        *)
(* through two handles of the same or of different files, renames them,    *)
(* and reaches offsets beyond the largest int.                             *)
(***************************************************************************)
EXTENDS IO, TLC

CreateNew == {"O_RDWR", "O_CREAT", "O_EXCL"}
CreateTruncate == {"O_WRONLY", "O_CREAT", "O_TRUNC"}
AppendOnly == {"O_WRONLY", "O_APPEND", "O_SYNC"}

TableFlags == {{"O_RDWR"}, CreateTruncate, CreateNew}
TableModes == {{"r", "w"}, {"r"}}
TableDescriptors == {-1, 0, 3, 4}

TransferFlags == {{}, {"O_RDWR"}, CreateTruncate, AppendOnly}
TransferModes == {{"r", "w"}}
TransferDescriptors == {0, 1, 3, 4}
TransferOffsets == {-1, 2}

(* Nothing tells two paths apart. *)
PathSymmetry == Permutations(Paths)
=============================================================================
