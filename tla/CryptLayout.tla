---------------------------- MODULE CryptLayout ----------------------------
(***************************************************************************)
(* The on-disk layout of an encrypted file and the arithmetic that finds a *)
(* logical byte in it.  A file is a header followed by blocks of one       *)
(* physical sector each; a block holds LogicalSector plaintext bytes and   *)
(* an authentication tag.  The layout is computed twice in the code, in 64 *)
(* bits when seeking and in 32 bits when reading and writing blocks.       *)
(***************************************************************************)
EXTENDS Integers

CONSTANTS
  HeaderSize,   (* bytes of the file header, 41 in the code                *)
  SectorSize,   (* bytes of a physical sector, 512                         *)
  TagSize,      (* bytes of the authentication tag of a block, 16          *)
  UIntRange     (* number of values of a DWORD, 2^32                       *)

ASSUME LayoutAssumption ==
  /\ HeaderSize \in Nat \ {0} /\ SectorSize \in Nat \ {0}
  /\ TagSize \in Nat /\ UIntRange \in Nat
  /\ HeaderSize < SectorSize
  /\ TagSize < SectorSize
  /\ UIntRange >= 2 * SectorSize
  /\ UIntRange % SectorSize = 0

LogicalSector == SectorSize - TagSize

\* The block that holds logical byte off, and the byte's place in it.
BlockIdx(off) == off \div LogicalSector

OffsetInSector(off) == off % LogicalSector

\* The blocks a request of len > 0 bytes at off touches, in increasing order.
Blocks(off, len) == BlockIdx(off) .. BlockIdx(off + len - 1)

\* Where f_crypt_lseek positions the file: FSIZE_t (64 bit) arithmetic.
SeekPos(off) == HeaderSize + BlockIdx(off) * SectorSize

\* Where f_crypt_read and f_crypt_write look for block k: DWORD arithmetic.
BlockStart(k) == (HeaderSize + k * SectorSize) % UIntRange

\* The physical places BlockStart can name, numbered from the header.
Slots == 0 .. (UIntRange \div SectorSize) - 1

Slot(k) == k % (UIntRange \div SectorSize)

SlotEnd(s) == HeaderSize + (s + 1) * SectorSize

\* FAT file sizes are 32 bit: f_lseek and f_write clip at UIntRange - 1.
MaxFileSize == UIntRange - 1

MinOf(a, b) == IF a <= b THEN a ELSE b

MaxOf(a, b) == IF a >= b THEN a ELSE b
=============================================================================
