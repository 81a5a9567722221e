------------------------------ MODULE FileDisk ------------------------------
(***************************************************************************)
(* The file-backed disk of src/palacios/src/devices/filedisk.c: disk_init *)
(* opens the image with the mode its configuration allows and connects    *)
(* the blk_ops to a frontend, which then reads and writes bytes of the    *)
(* image through read_all and write_all.                                  *)
(*                                                                         *)
(* Both loops take the 64-bit offset and length as C int (IntBits wide)   *)
(* and hand offset + bytes_done back to the host's V3_FileRead and        *)
(* V3_FileWrite, whose offset parameter is 64-bit: a negative int is      *)
(* sign-extended to an offset past any image. The host file (outside     *)
(* src/) transfers any number of bytes from one up to the end of the      *)
(* image, or fails; it refuses an access its open mode does not allow.    *)
(* The frontend (outside src/) asks only for bytes below get_capacity.     *)
(*                                                                         *)
(* Names are prefixed (DiskTypeOK, FileDiskInit, DiskNext, DiskSpec) so   *)
(* that Devices can extend this module beside Generic.                    *)
(***************************************************************************)
LOCAL INSTANCE Integers
LOCAL INSTANCE Sequences

CONSTANTS
  IntBits,    \* width of the C int the loops use (32 in the build)
  ImageSize,  \* V3_FileSize of the image, in bytes
  MaxReq,     \* the largest transfer a frontend asks for, in bytes
  DiskCfgs    \* configurations: [path : BOOLEAN, writable, readable : {"1", "0", "absent"}]

ASSUME IntBits \in Nat \ {0} /\ ImageSize \in Nat /\ MaxReq \in Nat \ {0}

NoXfer == [op |-> "none", off |-> 0, len |-> 0, ret |-> 0, pos |-> <<>>]

VARIABLES
  diskState,  \* "none", "failed", "attached", "connected", "freed"
  fdMode,     \* the modes the image was opened with: a subset of {"read", "write"}
  capacity,   \* disk->capacity
  lastXfer    \* the frontend's last transfer: its request, what read_all or
              \* write_all returned, and the file offsets of the bytes moved

diskVars == <<diskState, fdMode, capacity, lastXfer>>

DiskTypeOK ==
  /\ diskState \in {"none", "failed", "attached", "connected", "freed"}
  /\ fdMode \subseteq {"read", "write"}
  /\ capacity \in {0, ImageSize}
  /\ lastXfer.op \in {"none", "read", "write"}
  /\ lastXfer.ret \in {0, -1}
  /\ lastXfer.pos \in Seq(Int)

FileDiskInit ==
  /\ diskState = "none"
  /\ fdMode = {}
  /\ capacity = 0
  /\ lastXfer = NoXfer

-----------------------------------------------------------------------------
(* disk_init                                                               *)

\* The open mode of "writable" and "readable": allowWrite needs a "1",
\* allowRead holds unless "readable" is given and is not "1".
OpenMode(c) ==
  {m \in {"read", "write"} : \/ m = "read" /\ c.readable \in {"1", "absent"}
                             \/ m = "write" /\ c.writable = "1"}

\* A missing path or no mode returns -1 before the open (disk_state leaked);
\* after the open, v3_attach_device or v3_dev_connect_blk may fail, and a
\* failed attach leaves the image open. An attached device is freed later
\* by the device manager whatever disk_init returned.
DiskInit(c) ==
  /\ diskState = "none"
  /\ \/ /\ ~c.path \/ OpenMode(c) = {}
        /\ diskState' = "failed"
        /\ UNCHANGED <<fdMode, capacity>>
     \/ /\ c.path /\ OpenMode(c) /= {}
        /\ fdMode' = OpenMode(c)
        /\ capacity' = ImageSize
        /\ diskState' \in {"failed", "attached", "connected"}
  /\ UNCHANGED lastXfer

-----------------------------------------------------------------------------
(* read, write, read_all, write_all                                        *)

\* (int) of a 64-bit value: its low IntBits bits, read as two's complement.
ToInt(x) == LET m == x % (2 ^ IntBits)
            IN  IF m >= 2 ^ (IntBits - 1) THEN m - 2 ^ IntBits ELSE m

ChunkStartNoAdvance(o, done) == o            \* a defect: bytes_done not added
\* "offset + bytes_read" (and bytes_written): int arithmetic, which wraps.
ChunkStart(o, done) == ToInt(o + done)

\* The bytes the host can move from file offset s: none past the image's
\* end, and none at a sign-extended (negative) offset.
Avail(s) == IF s < 0 \/ s >= capacity THEN 0 ELSE capacity - s

LoopDoneCount(done, pos) == [ret |-> done, pos |-> pos]   \* a defect: returns bytes_done
\* "return 0" after the loop has moved all length bytes.
LoopDone(done, pos) == [ret |-> 0, pos |-> pos]

\* The outcomes of the "while (bytes_done < length)" loop from bytes_done =
\* done, with pos the file offsets of the bytes moved so far: each call
\* moves k > 0 bytes, or returns <= 0 and the loop returns -1.
RECURSIVE XferAll(_, _, _, _, _)
XferAll(op, o, len, done, pos) ==
  IF done >= len THEN {LoopDone(done, pos)}
  ELSE LET s == ChunkStart(o, done)
           most == IF op \in fdMode THEN IF Avail(s) < len - done THEN Avail(s) ELSE len - done
                   ELSE 0
       IN  {[ret |-> -1, pos |-> pos]}
             \cup UNION {XferAll(op, o, len, done + k, pos \o [i \in 1..k |-> s + i - 1]) :
                           k \in 1..most}

\* The frontend's requests: byte offset and length inside get_capacity.
Requests == {r \in [off : 0..capacity, len : 1..MaxReq] : r.off + r.len <= capacity}

\* read and write: the blk_ops entry called with a request, its uint64_t
\* offset and length passed to read_all or write_all as int.
Transfer(op, r) ==
  /\ diskState = "connected"
  /\ \E x \in XferAll(op, ToInt(r.off), ToInt(r.len), 0, <<>>) :
       lastXfer' = [op |-> op, off |-> r.off, len |-> r.len, ret |-> x.ret, pos |-> x.pos]
  /\ UNCHANGED <<diskState, fdMode, capacity>>

-----------------------------------------------------------------------------
(* disk_free: returns 0; neither the image nor disk_state is released.    *)

DiskFree ==
  /\ diskState \in {"attached", "connected"}
  /\ diskState' = "freed"
  /\ UNCHANGED <<fdMode, capacity, lastXfer>>

DiskNext ==
  \/ \E c \in DiskCfgs : DiskInit(c)
  \/ \E op \in {"read", "write"}, r \in Requests : Transfer(op, r)
  \/ DiskFree

DiskSpec == FileDiskInit /\ [][DiskNext]_diskVars

-----------------------------------------------------------------------------
(* Properties                                                              *)

=============================================================================
