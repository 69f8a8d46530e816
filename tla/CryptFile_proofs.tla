-------------------------- MODULE CryptFile_proofs -------------------------
(***************************************************************************)
(* Invariants of one encrypted file under every sequence of requests, for  *)
(* every layout, every set of offsets, lengths, sizes and capacities and   *)
(* every bound.  The lemmas follow the steps of the handlers: what seeking *)
(* past the end, writing a header, the write loop and truncation do to a   *)
(* file image; the theorems combine them.                                  *)
(***************************************************************************)
EXTENDS CryptFile, CryptLayout_proofs

-----------------------------------------------------------------------------
(* Positions and sizes.                                                    *)

\* The growth limit of f_lseek and f_write is a file size.
LEMMA LimitType ==
  ASSUME NEW cap \in Nat
  PROVE  Limit(cap) \in 0 .. MaxFileSize /\ Limit(cap) <= cap
BY LayoutTypes DEF Limit, MinOf

\* A seek ends inside the largest file, and beyond the old end only as far as
\* the clusters reach.
LEMMA SeekType ==
  ASSUME NEW p \in Image, NEW pos \in Nat, NEW writing \in BOOLEAN,
         NEW cap \in Nat
  PROVE  /\ LseekTo(p, pos, writing, cap) \in 0 .. MaxFileSize
         /\ p.size <= cap => LseekTo(p, pos, writing, cap) <= cap
<1>1. p.size \in 0 .. MaxFileSize
  BY DEF Image
<1>2. MaxFileSize \in Nat
  BY LayoutTypes
<1>3. MinOf(pos, Limit(cap)) \in 0 .. MaxFileSize /\ MinOf(pos, Limit(cap)) <= cap
  BY <1>2, LimitType DEF MinOf
<1> DEFINE c == p.size
           d == MinOf(pos, Limit(cap))
<1>4. LseekTo(p, pos, writing, cap) =
        IF pos <= c THEN pos ELSE IF writing THEN MaxOf(c, d) ELSE c
  BY DEF LseekTo
<1>5. c \in 0 .. MaxFileSize /\ d \in 0 .. MaxFileSize /\ d <= cap
  BY <1>1, <1>3
<1> HIDE DEF c, d
<1>6. /\ LseekTo(p, pos, writing, cap) \in 0 .. MaxFileSize
      /\ c <= cap => LseekTo(p, pos, writing, cap) <= cap
  BY <1>2, <1>4, <1>5 DEF MaxOf
<1> QED BY <1>6 DEF c

\* What a block read from a slot of an image is made of.
LEMMA BlockTyping ==
  /\ ZeroBlock \in Plaintext
  /\ JunkBlock \in Block
  /\ JunkHeader \in Header
  /\ \A n \in 0 .. MaxFileSize : JunkImage(n) \in Image
<1>1. ZeroBlock \in Plaintext
  BY DEF ZeroBlock, Plaintext, Byte
<1>2. JunkBlock \in Block
  BY <1>1 DEF JunkBlock, Block
<1>3. JunkHeader \in Header
  BY DEF JunkHeader, Header
<1> QED BY <1>1, <1>2, <1>3 DEF JunkImage, Image

\* A file that holds no header and no block is sound under any nonce.
LEMMA JunkSound ==
  ASSUME NEW n \in Nat, NEW m
  PROVE  SoundUnder(JunkImage(m), n)
BY DEF SoundUnder, JunkImage, JunkBlock, JunkHeader

\* The file f_open creates is an image.
LEMMA EmptyType == EmptyFile \in Image
BY LayoutTypes, BlockTyping DEF EmptyFile

\* Drawing another nonce keeps what is sound.
LEMMA SoundMonotone ==
  ASSUME NEW p \in Image, NEW n \in Nat, SoundUnder(p, n)
  PROVE  SoundUnder(p, n + 1)
<1>1. p.hdr.nonce \in Nat /\ \A s \in Slots : p.blk[s].nonce \in Nat
  BY DEF Image, Header, Block
<1> QED BY <1>1 DEF SoundUnder
-----------------------------------------------------------------------------
(* Growth.                                                                 *)

\* Extending a file with clusters of sound contents gives a sound file.
LEMMA GrowSound ==
  ASSUME NEW p \in Image, NEW dirt \in Image, NEW n \in 0 .. MaxFileSize,
         NEW m \in Nat, SoundUnder(p, m), SoundUnder(dirt, m)
  PROVE  /\ Grow(p, n, dirt) \in Image
         /\ SoundUnder(Grow(p, n, dirt), m)
         /\ Grow(p, n, dirt).size = MaxOf(p.size, n)
<1> DEFINE q == Grow(p, n, dirt)
<1>1. CASE n <= p.size
  BY <1>1 DEF Grow, MaxOf, Image
<1>2. CASE ~(n <= p.size)
  <2>1. /\ q.size = n
        /\ q.hdr = IF p.size = 0 /\ n >= HeaderSize THEN dirt.hdr ELSE p.hdr
        /\ q.blk = [s \in Slots |->
                      IF ~Whole(s, p.size) /\ Whole(s, n) THEN dirt.blk[s] ELSE p.blk[s]]
        /\ q = [size |-> q.size, hdr |-> q.hdr, blk |-> q.blk]
    BY <1>2 DEF Grow
  <2> HIDE DEF q
  <2>2. q \in Image
    BY <2>1 DEF Image
  <2>3. q.size < HeaderSize => q.hdr.nonce = 0
    BY <2>1, <1>2, LayoutAssumption DEF Image, SoundUnder, LayoutAssumption
  <2>4. \A s \in Slots : Whole(s, p.size) => Whole(s, n)
    <3>1. \A s \in Slots : SlotEnd(s) \in Nat
      BY SlotEndOrder, LayoutTypes DEF Slots
    <3> QED BY <1>2, <3>1, LayoutTypes DEF Whole, Image
  <2>5. \A s \in Slots : ~Whole(s, q.size) => q.blk[s].nonce = 0
    BY <2>1, <2>4 DEF SoundUnder
  <2>6. q.hdr.nonce <= m /\ \A s \in Slots : q.blk[s].nonce <= m
    BY <2>1 DEF SoundUnder
  <2>7. q.size = MaxOf(p.size, n)
    BY <1>2, <2>1 DEF MaxOf, Image
  <2> QED BY <2>2, <2>3, <2>5, <2>6, <2>7 DEF SoundUnder, q
<1> QED BY <1>1, <1>2

\* Blocks that are ciphertext are under the header's nonce.
Matched(p) == \A s \in Slots : p.blk[s].nonce # 0 => p.blk[s].nonce = p.hdr.nonce

\* A file that is no longer than its header holds no block.
LEMMA ShortHoldsNothing ==
  ASSUME NEW p \in Image, NEW m \in Nat, SoundUnder(p, m), p.size <= HeaderSize
  PROVE  \A s \in Slots : p.blk[s].nonce = 0
<1>1. \A s \in Slots : SlotEnd(s) > HeaderSize
  <2> SUFFICES ASSUME NEW s \in Slots PROVE SlotEnd(s) > HeaderSize
    OBVIOUS
  <2>1. s \in Nat
    BY LayoutTypes DEF Slots
  <2>2. (s + 1) * SectorSize >= SectorSize
    BY <2>1, LayoutAssumption DEF LayoutAssumption
  <2> QED BY <2>1, <2>2, LayoutAssumption DEF SlotEnd, LayoutAssumption
<1>2. \A s \in Slots : SlotEnd(s) \in Nat
  BY SlotEndOrder, LayoutTypes DEF Slots
<1>3. \A s \in Slots : ~Whole(s, p.size)
  BY <1>1, <1>2, LayoutAssumption DEF Whole, Image, LayoutAssumption
<1> QED BY <1>3 DEF SoundUnder

\* Extending a file with clean clusters orphans no block.
LEMMA GrowMatched ==
  ASSUME NEW p \in Image, NEW n \in 0 .. MaxFileSize, NEW m \in Nat,
         SoundUnder(p, m), Matched(p)
  PROVE  Matched(Grow(p, n, EmptyFile))
<1>1. CASE p.size = 0
  <2>1. \A s \in Slots : p.blk[s].nonce = 0
    BY <1>1, ShortHoldsNothing, LayoutAssumption DEF LayoutAssumption
  <2> QED BY <2>1 DEF Matched, Grow, EmptyFile, JunkImage, JunkBlock
<1>2. CASE p.size # 0
  BY <1>2 DEF Matched, Grow, EmptyFile, JunkImage, JunkBlock
<1> QED BY <1>1, <1>2

\* Growing never touches a header that is there.
LEMMA GrowKeepsHeader ==
  ASSUME NEW p \in Image, NEW dirt \in Image, NEW n \in 0 .. MaxFileSize,
         p.size >= HeaderSize
  PROVE  Grow(p, n, dirt).hdr = p.hdr
BY LayoutAssumption DEF Grow, Image, LayoutAssumption

\* What freshly allocated clusters hold is sound when the released files were.
LEMMA DirtSound ==
  ASSUME released \subseteq Image, NEW m \in Nat,
         \A a \in released : SoundUnder(a, m), NEW dirt \in Dirt
  PROVE  dirt \in Image /\ SoundUnder(dirt, m)
<1>1. CASE dirt = EmptyFile
  BY <1>1, EmptyType, JunkSound DEF EmptyFile
<1>2. CASE dirt # EmptyFile
  <2>1. PICK a \in released, keep \in SUBSET Slots : dirt = Remains(a, keep)
    BY <1>2 DEF Dirt
  <2>2. dirt.size = a.size /\ dirt.hdr = a.hdr
        /\ dirt.blk = [s \in Slots |-> IF s \in keep THEN a.blk[s] ELSE JunkBlock]
    BY <2>1 DEF Remains, Image
  <2>3. dirt \in Image
    BY <2>1, <2>2, BlockTyping DEF Remains, Image
  <2>4. SoundUnder(dirt, m)
    BY <2>2 DEF SoundUnder, JunkBlock
  <2> QED BY <2>3, <2>4
<1> QED BY <1>1, <1>2

\* Without reuse, new clusters hold nothing the file system wrote.
LEMMA CleanDirt ==
  ASSUME released = {}
  PROVE  Dirt = {EmptyFile}
BY DEF Dirt
-----------------------------------------------------------------------------
(* The header.                                                             *)

\* A new header under a newly drawn nonce.
LEMMA NewHeaderSound ==
  ASSUME NEW p \in Image, NEW m \in Nat, SoundUnder(p, m)
  PROVE  /\ WithNewHeader(p, m + 1) \in Image
         /\ SoundUnder(WithNewHeader(p, m + 1), m + 1)
         /\ WithNewHeader(p, m + 1).size = MaxOf(p.size, HeaderSize)
         /\ WithNewHeader(p, m + 1).hdr.nonce = m + 1
         /\ WithNewHeader(p, m + 1).blk = p.blk
<1> DEFINE q == WithNewHeader(p, m + 1)
<1>1. /\ q.size = MaxOf(p.size, HeaderSize)
      /\ q.hdr = [nonce |-> m + 1, lsize |-> 0]
      /\ q.blk = p.blk
      /\ q = [size |-> q.size, hdr |-> q.hdr, blk |-> q.blk]
  BY DEF WithNewHeader
<1> HIDE DEF q
<1>2. q.size \in 0 .. MaxFileSize /\ q.size >= HeaderSize /\ q.size >= p.size
  BY <1>1, LayoutTypes, LayoutAssumption DEF MaxOf, Image, LayoutAssumption
<1>3. q \in Image
  BY <1>1, <1>2 DEF Image, Header
<1>4. \A s \in Slots : ~Whole(s, q.size) => p.blk[s].nonce = 0
  <2>1. \A s \in Slots : SlotEnd(s) \in Nat
    BY SlotEndOrder, LayoutTypes DEF Slots
  <2> QED BY <1>2, <2>1, LayoutTypes DEF Whole, Image, SoundUnder
<1>5. \A s \in Slots : p.blk[s].nonce <= m + 1
  BY DEF SoundUnder, Image, Block
<1>6. SoundUnder(q, m + 1)
  BY <1>1, <1>2, <1>4, <1>5, LayoutAssumption DEF SoundUnder, LayoutAssumption
<1> QED BY <1>1, <1>3, <1>6 DEF q

\* Where no header was found there is no block either, so the new header
\* orphans nothing.
LEMMA NewHeaderMatched ==
  ASSUME NEW p \in Image, NEW m \in Nat, SoundUnder(p, m),
         Parse(p, TRUE) = "FR_NO_HEADER"
  PROVE  Matched(WithNewHeader(p, m + 1))
<1>1. p.size <= HeaderSize
  BY LayoutAssumption DEF Parse, Image, LayoutAssumption
<1>2. \A s \in Slots : p.blk[s].nonce = 0
  BY <1>1, ShortHoldsNothing
<1> QED BY <1>2, NewHeaderSound DEF Matched

\* update_fatcrypt_header_lsize changes neither nonce nor blocks.
LEMMA LsizeSound ==
  ASSUME NEW p \in Image, NEW m \in Nat, NEW n \in Nat, SoundUnder(p, m)
  PROVE  /\ WithLsize(p, n) \in Image
         /\ SoundUnder(WithLsize(p, n), m)
         /\ WithLsize(p, n).hdr.nonce = p.hdr.nonce
         /\ WithLsize(p, n).blk = p.blk
<1> DEFINE q == WithLsize(p, n)
<1>1. /\ q.size = p.size /\ q.blk = p.blk
      /\ q.hdr = [nonce |-> p.hdr.nonce, lsize |-> n]
      /\ q = [size |-> q.size, hdr |-> q.hdr, blk |-> q.blk]
  BY DEF WithLsize, Image, Header
<1> HIDE DEF q
<1>2. q \in Image
  BY <1>1 DEF Image, Header
<1>3. SoundUnder(q, m)
  BY <1>1 DEF SoundUnder
<1> QED BY <1>1, <1>2, <1>3 DEF q

\* Truncation leaves the new header and nothing else.
LEMMA TruncateSound ==
  ASSUME NEW p \in Image, NEW m \in Nat, NEW size \in Nat, SoundUnder(p, m)
  PROVE  /\ TruncateImage(p, size, m + 1) \in Image
         /\ SoundUnder(TruncateImage(p, size, m + 1), m + 1)
         /\ Matched(TruncateImage(p, size, m + 1))
<1> DEFINE h == WithNewHeader(p, m + 1)
           c == CutTo(h, HeaderSize)
<1>1. h \in Image /\ h.hdr.nonce = m + 1
  BY NewHeaderSound
<1> HIDE DEF h
<1>2. /\ c.size = HeaderSize /\ c.hdr = h.hdr
      /\ c.blk = [s \in Slots |-> JunkBlock]
      /\ c = [size |-> c.size, hdr |-> c.hdr, blk |-> c.blk]
  BY DEF CutTo
<1> HIDE DEF c
<1>3. c \in Image
  BY <1>1, <1>2, BlockTyping, LayoutTypes, LayoutAssumption DEF Image, LayoutAssumption
<1>4. SoundUnder(c, m + 1)
  BY <1>1, <1>2, LayoutAssumption DEF SoundUnder, JunkBlock, LayoutAssumption
<1>5. Matched(WithLsize(c, size))
  BY <1>2, <1>3, <1>4, LsizeSound DEF Matched, JunkBlock
<1>6. TruncateImage(p, size, m + 1) = WithLsize(c, size)
  BY DEF TruncateImage, c, h
<1> QED BY <1>3, <1>4, <1>5, <1>6, LsizeSound
-----------------------------------------------------------------------------
(* The write loop.                                                         *)

\* A block that fits the clusters and the 32-bit size lies whole below them.
LEMMA FitsWhole ==
  ASSUME NEW k \in Nat, NEW cap \in Nat, Fits(k, cap)
  PROVE  /\ Whole(Slot(k), Limit(cap))
         /\ Slot(k) # (UIntRange \div SectorSize) - 1
<1>1. SlotEnd(Slot(k)) <= Limit(cap)
  BY BlockOnSlot DEF Fits
<1>2. Limit(cap) \in 0 .. MaxFileSize
  BY LimitType
<1>3. Slot(k) \in Nat /\ SlotEnd(Slot(k)) \in Nat
  BY SlotTypes, SlotEndOrder, LayoutTypes DEF Slots
<1>4. Slot(k) # (UIntRange \div SectorSize) - 1
  BY <1>1, <1>2, <1>3, LastSlotTooLong, LayoutTypes
<1> QED BY <1>1, <1>4 DEF Whole

\* The blocks of a request.
LEMMA BlocksType ==
  ASSUME NEW off \in Nat, NEW len \in Nat \ {0}
  PROVE  /\ BlockIdx(off) \in Nat /\ BlockIdx(off + len - 1) \in Nat
         /\ BlockIdx(off) <= BlockIdx(off + len - 1)
         /\ Blocks(off, len) \subseteq Nat
         /\ BlockIdx(off + len - 1) \in Blocks(off, len)
<1>1. off + len - 1 \in Nat /\ off <= off + len - 1
  OBVIOUS
<1>2. BlockIdx(off) \in Nat /\ BlockIdx(off + len - 1) \in Nat
  BY <1>1, BlockTypes
<1>3. BlockIdx(off) <= BlockIdx(off + len - 1)
  <2> DEFINE d == LogicalSector
             e == off + len - 1
             a == BlockIdx(off)
             b == BlockIdx(e)
  <2>1. d \in Nat \ {0}
    BY LayoutTypes
  <2>2. off = d * a + (off % d) /\ off % d \in 0 .. d - 1
    BY <2>1, DivMod DEF BlockIdx
  <2>3. e = d * b + (e % d) /\ e % d \in 0 .. d - 1
    BY <1>1, <2>1, DivMod DEF BlockIdx
  <2>4. a \in Nat /\ b \in Nat /\ e \in Nat /\ off <= e
    BY <1>1, <1>2
  <2> HIDE DEF d, e, a, b
  <2>5. ASSUME b < a PROVE FALSE
    <3>1. d * a >= d * (b + 1) /\ d * (b + 1) = d * b + d
      BY <2>1, <2>4, <2>5
    <3>2. d * a \in Nat /\ d * b \in Nat
      BY <2>1, <2>4
    <3> QED BY <2>1, <2>2, <2>3, <2>4, <3>1, <3>2
  <2>6. a <= b
    BY <2>4, <2>5
  <2> QED BY <2>6 DEF a, b, e
<1> QED BY <1>2, <1>3 DEF Blocks

\* The end of the file after the loop.
TopAfter(p, off, len, cap) ==
  IF Succeeds(off, len, cap)
    THEN MaxOf(p.size, BlockStart(BlockIdx(off + len - 1)) + SectorSize)
    ELSE Limit(cap)

\* Every block the loop has written lies whole inside the file it leaves: the
\* 32-bit positions do not wrap around inside one request, because the last
\* slot never fits.
LEMMA WrittenInside ==
  ASSUME NEW p \in Image, NEW off \in Nat, NEW len \in Nat \ {0}, NEW cap \in Nat,
         p.size <= cap
  PROVE  /\ TopAfter(p, off, len, cap) \in 0 .. MaxFileSize
         /\ TopAfter(p, off, len, cap) >= p.size
         /\ \A k \in Done(off, len, cap) :
              k \in Nat /\ Whole(Slot(k), TopAfter(p, off, len, cap))
<1> DEFINE first == BlockIdx(off)
           last  == BlockIdx(off + len - 1)
           top   == TopAfter(p, off, len, cap)
<1>1. /\ first \in Nat /\ last \in Nat /\ first <= last
      /\ Blocks(off, len) = first .. last
  BY BlocksType DEF Blocks
<1>2. p.size \in 0 .. MaxFileSize /\ Limit(cap) \in 0 .. MaxFileSize
      /\ Limit(cap) >= p.size /\ MaxFileSize \in Nat
  BY LimitType, LayoutTypes DEF Image, Limit, MinOf
<1> HIDE DEF first, last, top
<1>3. \A k \in Done(off, len, cap) :
        k \in first .. last /\ \A j \in first .. k : Fits(j, cap)
  BY <1>1 DEF Done, first
<1>4. \A k \in Done(off, len, cap) : k \in Nat /\ Fits(k, cap)
  BY <1>1, <1>3
<1>5. CASE ~Succeeds(off, len, cap)
  <2>1. top = Limit(cap)
    BY <1>5 DEF top, TopAfter
  <2> QED BY <1>2, <1>4, <2>1, FitsWhole DEF top
<1>6. CASE Succeeds(off, len, cap)
  <2>1. last \in Done(off, len, cap)
    BY <1>1, <1>6 DEF Succeeds
  <2>2. \A j \in first .. last : j \in Nat /\ Fits(j, cap)
    BY <1>1, <1>3, <2>1
  <2>3. top = MaxOf(p.size, BlockStart(last) + SectorSize)
    BY <1>6 DEF top, last, TopAfter
  <2>4. BlockStart(last) + SectorSize = SlotEnd(Slot(last))
    BY <1>1, BlockOnSlot
  <2>5. SlotEnd(Slot(last)) \in Nat /\ SlotEnd(Slot(last)) <= Limit(cap)
    <3>1. Fits(last, cap)
      BY <1>1, <2>2
    <3>2. Whole(Slot(last), Limit(cap))
      BY <1>1, <3>1, FitsWhole
    <3>3. Slot(last) \in Nat
      BY <1>1, SlotTypes, LayoutTypes DEF Slots
    <3> QED BY <3>2, <3>3, SlotEndOrder DEF Whole
  <2>6. top \in 0 .. MaxFileSize /\ top >= p.size /\ top >= SlotEnd(Slot(last))
    BY <1>2, <2>3, <2>4, <2>5 DEF MaxOf
  <2>7. ASSUME NEW k \in Done(off, len, cap) PROVE Whole(Slot(k), top)
    <3>1. k \in Nat /\ k <= last /\ k \in first .. last
      BY <1>1, <1>3, <1>4
    <3>2. \A j \in k .. last : Slot(j) # (UIntRange \div SectorSize) - 1
      BY <1>1, <2>2, <3>1, FitsWhole
    <3>3. Slot(last) = Slot(k) + (last - k)
      BY <1>1, <3>1, <3>2, NoWrapInside
    <3>4. Slot(k) \in Nat /\ Slot(last) \in Nat
      BY <1>1, <3>1, SlotTypes, LayoutTypes DEF Slots
    <3>5. Slot(k) <= Slot(last)
      BY <1>1, <3>1, <3>3, <3>4
    <3>6. SlotEnd(Slot(k)) <= SlotEnd(Slot(last)) /\ SlotEnd(Slot(k)) \in Nat
      BY <3>4, <3>5, SlotEndOrder
    <3> QED BY <1>2, <2>5, <2>6, <3>6 DEF Whole
  <2> QED BY <1>4, <2>6, <2>7 DEF top
<1> QED BY <1>5, <1>6

\* A rewritten block is a block.
LEMMA RewrittenType ==
  ASSUME NEW p \in Image, NEW k \in Nat, NEW off \in Nat, NEW len \in Nat \ {0},
         NEW v \in Values
  PROVE  Rewritten(p, k, off, len, v) \in Block
<1>1. OldPlaintext(p, k) \in Plaintext
  BY SlotTypes, BlockTyping DEF OldPlaintext, Image, Block
<1> QED BY <1>1 DEF Rewritten, Block, Plaintext, Image, Header, Byte

\* The loop puts its blocks in place and leaves the others alone.
LEMMA PutBlocksType ==
  ASSUME NEW p \in Image, NEW off \in Nat, NEW len \in Nat \ {0}, NEW v \in Values,
         NEW ks \in SUBSET Nat
  PROVE  /\ PutBlocks(p, off, len, v, ks) \in Image
         /\ PutBlocks(p, off, len, v, ks).size = p.size
         /\ PutBlocks(p, off, len, v, ks).hdr = p.hdr
         /\ \A s \in Slots :
              \/ /\ \E k \in ks : Slot(k) = s
                 /\ PutBlocks(p, off, len, v, ks).blk[s].nonce = p.hdr.nonce
              \/ /\ ~\E k \in ks : Slot(k) = s
                 /\ PutBlocks(p, off, len, v, ks).blk[s] = p.blk[s]
<1> DEFINE q == PutBlocks(p, off, len, v, ks)
           f == [s \in Slots |->
                   IF \E k \in ks : Slot(k) = s
                     THEN Rewritten(p, CHOOSE k \in ks : Slot(k) = s, off, len, v)
                     ELSE p.blk[s]]
<1>1. q = [p EXCEPT !.blk = f]
  BY DEF PutBlocks
<1>2. ASSUME NEW s \in Slots PROVE f[s] \in Block
  <2>1. CASE \E k \in ks : Slot(k) = s
    <3> DEFINE c == CHOOSE k \in ks : Slot(k) = s
    <3>1. c \in Nat
      BY <2>1
    <3>2. f[s] = Rewritten(p, c, off, len, v)
      BY <2>1
    <3> HIDE DEF c
    <3> QED BY <3>1, <3>2, RewrittenType
  <2>2. CASE ~\E k \in ks : Slot(k) = s
    BY <2>2 DEF Image
  <2> QED BY <2>1, <2>2
<1>3. \A s \in Slots :
        \/ (\E k \in ks : Slot(k) = s) /\ f[s].nonce = p.hdr.nonce
        \/ (~\E k \in ks : Slot(k) = s) /\ f[s] = p.blk[s]
  BY DEF Rewritten
<1>4. f \in [Slots -> Block]
  BY <1>2
<1> HIDE DEF f, q
<1>5. q.size = p.size /\ q.hdr = p.hdr /\ q.blk = f /\ q \in Image
  BY <1>1, <1>4 DEF Image
<1> QED BY <1>3, <1>5 DEF q

\* f_crypt_write from the header on: the image stays sound, keeps its nonce and
\* orphans no block, whether the loop ends or stops at a full volume.
LEMMA WriteBlocksSound ==
  ASSUME NEW p \in Image, NEW m \in Nat, NEW off \in Nat, NEW len \in Nat \ {0},
         NEW v \in Values, NEW cap \in Nat,
         SoundUnder(p, m), p.size <= cap, p.size >= HeaderSize
  PROVE  /\ WriteBlocks(p, off, len, v, cap) \in Image
         /\ SoundUnder(WriteBlocks(p, off, len, v, cap), m)
         /\ WriteBlocks(p, off, len, v, cap).hdr.nonce = p.hdr.nonce
         /\ Matched(p) => Matched(WriteBlocks(p, off, len, v, cap))
<1> DEFINE top == TopAfter(p, off, len, cap)
           ks  == Done(off, len, cap)
           g   == Grow(p, top, EmptyFile)
           q   == PutBlocks(g, off, len, v, ks)
<1>1. /\ top \in 0 .. MaxFileSize /\ top >= p.size
      /\ \A k \in ks : k \in Nat /\ Whole(Slot(k), top)
  BY WrittenInside
<1> HIDE DEF top, ks
<1>2. EmptyFile \in Image /\ SoundUnder(EmptyFile, m)
  BY EmptyType, JunkSound DEF EmptyFile
<1>3. g \in Image /\ SoundUnder(g, m) /\ g.size = top
  <2>1. MaxOf(p.size, top) = top
    BY <1>1, LayoutTypes DEF MaxOf, Image
  <2> QED BY <1>1, <1>2, <2>1, GrowSound
<1>4. g.hdr = p.hdr
  BY <1>1, <1>2, GrowKeepsHeader
<1>5. Matched(p) => Matched(g)
  BY <1>1, GrowMatched
<1> HIDE DEF g
<1>6. /\ q \in Image /\ q.size = top /\ q.hdr = p.hdr
      /\ \A s \in Slots :
           \/ (\E k \in ks : Slot(k) = s) /\ q.blk[s].nonce = p.hdr.nonce
           \/ (~\E k \in ks : Slot(k) = s) /\ q.blk[s] = g.blk[s]
  BY <1>1, <1>3, <1>4, PutBlocksType
<1> HIDE DEF q
<1>7. SoundUnder(q, m)
  <2>1. q.size < HeaderSize => q.hdr.nonce = 0
    BY <1>3, <1>4, <1>6 DEF SoundUnder
  <2>2. \A s \in Slots : ~Whole(s, q.size) => q.blk[s].nonce = 0
    BY <1>1, <1>3, <1>6 DEF SoundUnder
  <2>3. q.hdr.nonce <= m /\ \A s \in Slots : q.blk[s].nonce <= m
    BY <1>3, <1>4, <1>6 DEF SoundUnder
  <2> QED BY <2>1, <2>2, <2>3 DEF SoundUnder
<1>8. Matched(p) => Matched(q)
  BY <1>4, <1>5, <1>6 DEF Matched
<1>9. WriteBlocks(p, off, len, v, cap) =
        IF Succeeds(off, len, cap) THEN WithLsize(q, off + len) ELSE q
  BY DEF WriteBlocks, q, g, ks, top, TopAfter
<1>10. off + len \in Nat
  OBVIOUS
<1>11. Matched(q) => Matched(WithLsize(q, off + len))
  BY <1>6, <1>7, <1>10, LsizeSound DEF Matched
<1>12. /\ WithLsize(q, off + len) \in Image
       /\ SoundUnder(WithLsize(q, off + len), m)
       /\ WithLsize(q, off + len).hdr.nonce = p.hdr.nonce
  BY <1>6, <1>7, <1>10, LsizeSound
<1>13. CASE Succeeds(off, len, cap)
  <2>1. WriteBlocks(p, off, len, v, cap) = WithLsize(q, off + len)
    BY <1>9, <1>13
  <2> QED BY <1>8, <1>11, <1>12, <2>1
<1>14. CASE ~Succeeds(off, len, cap)
  <2>1. WriteBlocks(p, off, len, v, cap) = q
    BY <1>9, <1>14
  <2> QED BY <1>6, <1>7, <1>8, <2>1
<1> QED BY <1>13, <1>14
-----------------------------------------------------------------------------
(* The bytes of a file.                                                    *)

\* A logical byte lies at its offset in the plaintext of its block.
LEMMA ByteOfBlock ==
  ASSUME NEW i \in Nat
  PROVE  /\ BlockIdx(i) \in Nat
         /\ OffsetInSector(i) \in 0 .. LogicalSector - 1
         /\ BlockIdx(i) * LogicalSector + OffsetInSector(i) = i
<1>1. LogicalSector \in Nat \ {0}
  BY LayoutTypes
<1> DEFINE d == LogicalSector
           a == i \div d
           b == i % d
<1>2. i = d * a + b /\ a \in Nat /\ b \in 0 .. d - 1
  BY <1>1, DivMod
<1>3. BlockIdx(i) = a /\ OffsetInSector(i) = b
  BY DEF BlockIdx, OffsetInSector
<1> HIDE DEF a, b
<1>4. d \in Nat
  BY <1>1
<1> HIDE DEF d
<1>5. d * a = a * d
  BY <1>2, <1>4
<1>6. a * d + b = i
  BY <1>2, <1>5
<1> QED BY <1>2, <1>3, <1>6 DEF d

\* The blocks of a request are those of its bytes.
LEMMA BlocksOfBytes ==
  ASSUME NEW off \in Nat, NEW len \in Nat \ {0}, NEW i \in off .. off + len - 1
  PROVE  BlockIdx(i) \in Blocks(off, len)
<1> DEFINE n1 == i - off + 1
           n2 == off + len - i
<1>1. n1 \in Nat \ {0} /\ n2 \in Nat \ {0} /\ i \in Nat
  OBVIOUS
<1>2. off + n1 - 1 = i /\ i + n2 - 1 = off + len - 1
  OBVIOUS
<1> HIDE DEF n1, n2
<1>3. BlockIdx(off) <= BlockIdx(off + n1 - 1)
  BY <1>1, BlocksType
<1>4. BlockIdx(i) <= BlockIdx(i + n2 - 1)
  BY <1>1, BlocksType
<1>5. BlockIdx(off) <= BlockIdx(i)
  BY <1>2, <1>3
<1>6. BlockIdx(i) <= BlockIdx(off + len - 1)
  BY <1>2, <1>4
<1>7. BlockIdx(i) \in Nat /\ BlockIdx(off) \in Nat /\ BlockIdx(off + len - 1) \in Nat
  BY <1>1, BlocksType, BlockTypes
<1> QED BY <1>5, <1>6, <1>7 DEF Blocks

\* The blocks one request has written lie in places of their own: the last slot
\* never fits, so the 32-bit positions of one request do not wrap around.
LEMMA DoneApart ==
  ASSUME NEW off \in Nat, NEW len \in Nat \ {0}, NEW cap \in Nat,
         NEW k1 \in Done(off, len, cap), NEW k2 \in Done(off, len, cap),
         Slot(k1) = Slot(k2)
  PROVE  k1 = k2
<1> DEFINE first == BlockIdx(off)
           last  == BlockIdx(off + len - 1)
<1>1. first \in Nat /\ last \in Nat /\ Blocks(off, len) = first .. last
  BY BlocksType DEF Blocks
<1>2. \A k \in Done(off, len, cap) :
        k \in first .. last /\ \A j \in first .. k : Fits(j, cap)
  BY <1>1 DEF Done
<1> HIDE DEF first, last
<1>3. ASSUME NEW a \in Done(off, len, cap), NEW b \in Done(off, len, cap),
             Slot(a) = Slot(b), a <= b
      PROVE  a = b
  <2>1. a \in Nat /\ b \in Nat /\ first <= a
    BY <1>1, <1>2
  <2>2. \A j \in a .. b : j \in Nat /\ Fits(j, cap)
    BY <1>1, <1>2, <2>1
  <2>3. \A j \in a .. b : Slot(j) # (UIntRange \div SectorSize) - 1
    BY <2>2, FitsWhole
  <2>4. Slot(b) = Slot(a) + (b - a)
    BY <1>3, <2>1, <2>3, NoWrapInside
  <2>5. Slot(a) \in Nat
    BY <2>1, SlotTypes, LayoutTypes DEF Slots
  <2> QED BY <1>3, <2>1, <2>4, <2>5
<1>4. k1 \in Nat /\ k2 \in Nat
  BY <1>1, <1>2
<1> QED BY <1>3, <1>4

\* Each block of the loop is put into its own place.
LEMMA PutBlocksAt ==
  ASSUME NEW p \in Image, NEW off \in Nat, NEW len \in Nat \ {0}, NEW v \in Values,
         NEW ks \in SUBSET Nat,
         \A k1, k2 \in ks : Slot(k1) = Slot(k2) => k1 = k2,
         NEW k \in ks
  PROVE  PutBlocks(p, off, len, v, ks).blk[Slot(k)] = Rewritten(p, k, off, len, v)
<1> DEFINE c == CHOOSE j \in ks : Slot(j) = Slot(k)
<1>1. c \in ks /\ Slot(c) = Slot(k)
  OBVIOUS
<1>2. c = k
  BY <1>1
<1>3. Slot(k) \in Slots
  BY SlotTypes
<1>4. PutBlocks(p, off, len, v, ks).blk[Slot(k)] = Rewritten(p, c, off, len, v)
  BY <1>3 DEF PutBlocks, Image
<1> HIDE DEF c
<1> QED BY <1>2, <1>4

\* A block that opens still opens after the file has grown; one that opens only
\* then was left in the clusters under this file's nonce.
LEMMA GrowOpens ==
  ASSUME NEW p \in Image, NEW dirt \in Image, NEW n \in 0 .. MaxFileSize,
         p.size >= HeaderSize, NEW k \in Nat
  PROVE  LET g == Grow(p, n, dirt) IN
         /\ Opens(p, k) => Opens(g, k) /\ g.blk[Slot(k)] = p.blk[Slot(k)]
         /\ Opens(g, k) => \/ Opens(p, k)
                           \/ dirt.blk[Slot(k)].nonce = p.hdr.nonce /\ p.hdr.nonce # 0
<1> DEFINE g == Grow(p, n, dirt)
           s == Slot(k)
<1>1. s \in Slots /\ s \in Nat
  BY SlotTypes, LayoutTypes DEF Slots
<1>2. CASE n <= p.size
  BY <1>2 DEF Grow
<1>3. CASE ~(n <= p.size)
  <2>1. /\ g.size = n
        /\ g.blk = [t \in Slots |->
                      IF ~Whole(t, p.size) /\ Whole(t, n) THEN dirt.blk[t] ELSE p.blk[t]]
    BY <1>3 DEF Grow
  <2>2. g.hdr = p.hdr
    BY GrowKeepsHeader
  <2> HIDE DEF g, s
  <2>3. g.blk[s] = IF ~Whole(s, p.size) /\ Whole(s, n) THEN dirt.blk[s] ELSE p.blk[s]
    BY <1>1, <2>1
  <2>4. Whole(s, p.size) => Whole(s, n)
    <3>1. SlotEnd(s) \in Nat
      BY <1>1, SlotEndOrder
    <3> QED BY <1>3, <3>1, LayoutTypes DEF Whole, Image
  <2>5. Opens(p, k) => Opens(g, k) /\ g.blk[s] = p.blk[s]
    BY <2>1, <2>2, <2>3, <2>4 DEF Opens, s
  <2>6. Opens(g, k) => Opens(p, k) \/ (dirt.blk[s].nonce = p.hdr.nonce /\ p.hdr.nonce # 0)
    BY <2>1, <2>2, <2>3, <2>4 DEF Opens, s
  <2> QED BY <2>5, <2>6 DEF g, s
<1> QED BY <1>2, <1>3

\* Growing into clean clusters makes no block readable.
LEMMA GrowCleanOpens ==
  ASSUME NEW p \in Image, NEW n \in 0 .. MaxFileSize, p.size >= HeaderSize, NEW k \in Nat
  PROVE  LET g == Grow(p, n, EmptyFile) IN
         /\ Opens(p, k) <=> Opens(g, k)
         /\ Opens(p, k) => g.blk[Slot(k)] = p.blk[Slot(k)]
<1>1. EmptyFile.blk[Slot(k)].nonce = 0
  BY SlotTypes DEF EmptyFile, JunkImage, JunkBlock
<1> QED BY <1>1, EmptyType, GrowOpens

\* What a read of a byte can deliver.
LEMMA ContentIs ==
  ASSUME NEW p \in Image, NEW i \in Nat
  PROVE  /\ Content(p, i) # Lost <=> HasHeader(p) /\ Opens(p, BlockIdx(i))
         /\ Content(p, i) # Lost => /\ Content(p, i) \in Byte
                                    /\ Content(p, i) = ByteAt(p, i)
<1>1. Slot(BlockIdx(i)) \in Slots /\ OffsetInSector(i) \in 0 .. LogicalSector - 1
  BY BlockTypes, SlotTypes
<1>2. p.blk[Slot(BlockIdx(i))].data \in Plaintext
  BY <1>1 DEF Image, Block
<1>3. ByteAt(p, i) \in Byte
  BY <1>1, <1>2 DEF ByteAt, Plaintext
<1>4. ByteAt(p, i) # Lost
  BY <1>3, FileAssumption DEF Lost, Byte, Zero, FileAssumption
<1> QED BY <1>3, <1>4 DEF Content

\* An image with a nonce and room for its header has one that parses.
LEMMA HeaderParses ==
  ASSUME NEW p \in Image
  PROVE  HasHeader(p) <=> p.size >= HeaderSize /\ p.hdr.nonce # 0
BY LayoutTypes, LayoutAssumption DEF HasHeader, Parse, Image, LayoutAssumption

\* The plaintext of a block after the read-modify-write.
NewPlaintext(p, k, off, len, v) ==
  [i \in 0 .. LogicalSector - 1 |->
     IF k * LogicalSector + i \in off .. off + len - 1 THEN v ELSE OldPlaintext(p, k)[i]]

\* What f_crypt_write leaves of every block: the ones it has written open and
\* hold the new bytes over the old plaintext, the others are as they were.
WrittenFrom(p, w, off, len, v, ks) ==
  /\ \A k \in ks : /\ Opens(w, k)
                   /\ w.blk[Slot(k)].data = NewPlaintext(p, k, off, len, v)
  /\ \A k \in Nat :
       (\A j \in ks : Slot(j) # Slot(k)) =>
         /\ Opens(w, k) <=> Opens(p, k)
         /\ Opens(p, k) => w.blk[Slot(k)] = p.blk[Slot(k)]
  /\ \A k \in Nat \ ks : (\E j \in ks : Slot(j) = Slot(k)) => ~Opens(w, k)

\* The write loop does that to the blocks it gets through, and the header gets
\* the end of a write that succeeds.
LEMMA WriteBlocksDo ==
  ASSUME NEW p \in Image, NEW m \in Nat, SoundUnder(p, m),
         NEW off \in Nat, NEW len \in Nat \ {0}, NEW v \in Values, NEW cap \in Nat,
         p.size <= cap, HasHeader(p)
  PROVE  LET w == WriteBlocks(p, off, len, v, cap) IN
         /\ w \in Image /\ HasHeader(w)
         /\ Succeeds(off, len, cap) => w.hdr.lsize = off + len
         /\ ~Succeeds(off, len, cap) => w.hdr = p.hdr
         /\ Done(off, len, cap) \subseteq Nat
         /\ WrittenFrom(p, w, off, len, v, Done(off, len, cap))
<1> DEFINE top == TopAfter(p, off, len, cap)
           ks  == Done(off, len, cap)
           g   == Grow(p, top, EmptyFile)
           q   == PutBlocks(g, off, len, v, ks)
           w   == WriteBlocks(p, off, len, v, cap)
<1>1. p.size >= HeaderSize /\ p.hdr.nonce # 0
  BY HeaderParses
<1>2. w \in Image /\ w.hdr.nonce = p.hdr.nonce
  <2> HIDE DEF top, ks, g, q
  <2>1. /\ w \in Image
        /\ SoundUnder(w, m)
        /\ w.hdr.nonce = p.hdr.nonce
        /\ Matched(p) => Matched(w)
    BY <1>1, WriteBlocksSound
  <2> QED BY <2>1
<1>3. /\ top \in 0 .. MaxFileSize /\ top >= p.size
      /\ \A k \in ks : k \in Nat /\ Whole(Slot(k), top)
  BY WrittenInside
<1>4. \A k1, k2 \in ks : Slot(k1) = Slot(k2) => k1 = k2
  BY DoneApart
<1>5. w = IF Succeeds(off, len, cap) THEN WithLsize(q, off + len) ELSE q
  BY DEF WriteBlocks, TopAfter
<1> HIDE DEF top, ks
<1>6. EmptyFile \in Image /\ SoundUnder(EmptyFile, m)
  BY EmptyType, JunkSound DEF EmptyFile
<1>7. g \in Image /\ g.size = top /\ g.hdr = p.hdr
  <2>1. MaxOf(p.size, top) = top
    BY <1>3, LayoutTypes DEF MaxOf, Image
  <2>2. g \in Image /\ g.size = top
    BY <1>3, <1>6, <2>1, GrowSound
  <2> QED BY <1>1, <1>3, <1>6, <2>2, GrowKeepsHeader
<1>8. \A k \in Nat : /\ Opens(p, k) <=> Opens(g, k)
                     /\ Opens(p, k) => g.blk[Slot(k)] = p.blk[Slot(k)]
  BY <1>1, <1>3, GrowCleanOpens
<1> HIDE DEF g
<1>9. /\ q \in Image /\ q.size = top /\ q.hdr = p.hdr
      /\ \A s \in Slots : (~\E k \in ks : Slot(k) = s) => q.blk[s] = g.blk[s]
      /\ \A k \in ks : q.blk[Slot(k)] = Rewritten(g, k, off, len, v)
  BY <1>3, <1>4, <1>7, PutBlocksType, PutBlocksAt
<1> HIDE DEF q, w
<1>10. w.size = top /\ w.blk = q.blk
       /\ w.hdr = IF Succeeds(off, len, cap)
                    THEN [nonce |-> p.hdr.nonce, lsize |-> off + len] ELSE p.hdr
  BY <1>5, <1>9 DEF WithLsize, Image, Header
<1>11. HasHeader(w)
  BY <1>1, <1>2, <1>3, <1>10, HeaderParses, LayoutAssumption DEF Image, LayoutAssumption
<1>12. ASSUME NEW k \in ks
       PROVE  /\ Opens(w, k)
              /\ w.blk[Slot(k)].data = NewPlaintext(p, k, off, len, v)
  <2>1. k \in Nat /\ Whole(Slot(k), w.size)
    BY <1>3, <1>10
  <2>2. w.blk[Slot(k)] = Rewritten(g, k, off, len, v)
    BY <1>9, <1>10
  <2>3. Opens(w, k)
    BY <1>1, <1>2, <1>7, <2>1, <2>2 DEF Opens, Rewritten
  <2>4. OldPlaintext(g, k) = OldPlaintext(p, k)
    BY <1>8, <2>1 DEF OldPlaintext
  <2>5. w.blk[Slot(k)].data = NewPlaintext(p, k, off, len, v)
    BY <2>2, <2>4 DEF Rewritten, NewPlaintext
  <2> QED BY <2>1, <2>3, <2>5
<1>13. ASSUME NEW k \in Nat, \A j \in ks : Slot(j) # Slot(k)
       PROVE  /\ Opens(w, k) <=> Opens(p, k)
              /\ Opens(p, k) => w.blk[Slot(k)] = p.blk[Slot(k)]
  <2>1. Slot(k) \in Slots
    BY SlotTypes
  <2>2. w.blk[Slot(k)] = g.blk[Slot(k)]
    BY <1>9, <1>10, <1>13, <2>1
  <2>3. Opens(w, k) <=> Opens(g, k)
    BY <1>2, <1>7, <1>10, <2>2 DEF Opens
  <2> QED BY <1>8, <2>2, <2>3
<1>14. ASSUME NEW k \in Nat \ ks, NEW j \in ks, Slot(j) = Slot(k) PROVE ~Opens(w, k)
  <2>1. w.blk[Slot(k)] = Rewritten(g, j, off, len, v)
    BY <1>9, <1>10, <1>14
  <2>2. w.blk[Slot(k)].idx = j
    BY <2>1 DEF Rewritten
  <2> QED BY <1>14, <2>2 DEF Opens
<1>15. WrittenFrom(p, w, off, len, v, ks)
  BY <1>12, <1>13, <1>14 DEF WrittenFrom
<1> QED BY <1>2, <1>3, <1>10, <1>11, <1>15 DEF w, ks

\* The same for every byte: it was written, it stays what it was (a byte that
\* could not be read becomes zero when its block is written), or a block of the
\* request took its place, which only happens when the positions wrap around.
LEMMA ContentAfterWrite ==
  ASSUME NEW p \in Image, NEW m \in Nat, SoundUnder(p, m),
         NEW off \in Nat, NEW len \in Nat \ {0}, NEW v \in Values, NEW cap \in Nat,
         p.size <= cap, HasHeader(p), NEW i \in Nat
  PROVE  LET w == WriteBlocks(p, off, len, v, cap)
             k == BlockIdx(i)
         IN
         \/ /\ k \in Done(off, len, cap) /\ i \in off .. off + len - 1
            /\ Content(w, i) = v
         \/ /\ k \in Done(off, len, cap) /\ i \notin off .. off + len - 1
            /\ Content(w, i) = IF Content(p, i) = Lost THEN Zero ELSE Content(p, i)
         \/ /\ k \notin Done(off, len, cap)
            /\ Content(w, i) = Content(p, i)
         \/ /\ k \notin Done(off, len, cap)
            /\ \E j \in Done(off, len, cap) : Slot(j) = Slot(k)
            /\ Content(w, i) = Lost
<1> DEFINE ks == Done(off, len, cap)
           w  == WriteBlocks(p, off, len, v, cap)
           k  == BlockIdx(i)
           o  == OffsetInSector(i)
           b  == IF i \in off .. off + len - 1 THEN v ELSE OldPlaintext(p, k)[o]
<1>1. k \in Nat /\ o \in 0 .. LogicalSector - 1 /\ k * LogicalSector + o = i
  BY ByteOfBlock
<1>2. /\ w \in Image /\ HasHeader(w)
      /\ WrittenFrom(p, w, off, len, v, ks)
  BY WriteBlocksDo
<1> HIDE DEF ks, w, k, o
<1>3. k \in ks => Opens(w, k) /\ w.blk[Slot(k)].data[o] = b
  <2>1. NewPlaintext(p, k, off, len, v)[o] = b
    BY <1>1 DEF NewPlaintext
  <2> QED BY <1>2, <2>1 DEF WrittenFrom
<1>4. (\A j \in ks : Slot(j) # Slot(k)) =>
        /\ Opens(w, k) <=> Opens(p, k)
        /\ Opens(p, k) => w.blk[Slot(k)] = p.blk[Slot(k)]
  BY <1>1, <1>2 DEF WrittenFrom
<1>5. k \notin ks /\ (\E j \in ks : Slot(j) = Slot(k)) => ~Opens(w, k)
  BY <1>1, <1>2 DEF WrittenFrom
<1>6. Content(w, i) = IF Opens(w, k) THEN w.blk[Slot(k)].data[o] ELSE Lost
  BY <1>2 DEF Content, ByteAt, k, o
<1>7. Content(p, i) = IF Opens(p, k) THEN p.blk[Slot(k)].data[o] ELSE Lost
  BY DEF Content, ByteAt, k, o
<1>8. OldPlaintext(p, k)[o] = IF Content(p, i) = Lost THEN Zero ELSE Content(p, i)
  <2>1. Content(p, i) # Lost <=> Opens(p, k)
    BY ContentIs DEF k
  <2>2. ZeroBlock[o] = Zero
    BY <1>1 DEF ZeroBlock
  <2> QED BY <1>7, <2>1, <2>2 DEF OldPlaintext
<1>9. CASE k \in ks
  <2>1. Content(w, i) = b
    BY <1>3, <1>6, <1>9
  <2> QED BY <1>8, <1>9, <2>1 DEF ks, w, k
<1>10. CASE k \notin ks /\ \E j \in ks : Slot(j) = Slot(k)
  <2>1. Content(w, i) = Lost
    BY <1>5, <1>6, <1>10
  <2> QED BY <1>10, <2>1 DEF ks, w, k
<1>11. CASE k \notin ks /\ \A j \in ks : Slot(j) # Slot(k)
  <2>1. Content(w, i) = Content(p, i)
    BY <1>4, <1>6, <1>7, <1>11
  <2> QED BY <1>11, <2>1 DEF ks, w, k
<1> QED BY <1>9, <1>10, <1>11

\* Requests whose bytes all have a place of their own in the layout.
InLayout(off, len) == off + len <= LogicalSector * (UIntRange \div SectorSize)

\* Blocks whose bytes are in the layout are in the slot of their own number.
LEMMA OwnSlot ==
  ASSUME NEW i \in Nat, i < LogicalSector * (UIntRange \div SectorSize)
  PROVE  Slot(BlockIdx(i)) = BlockIdx(i)
<1> DEFINE N == UIntRange \div SectorSize
           d == LogicalSector
           k == BlockIdx(i)
           o == OffsetInSector(i)
<1>1. N \in Nat \ {0} /\ d \in Nat \ {0}
  BY LayoutTypes
<1>2. k \in Nat /\ o \in 0 .. d - 1 /\ k * d + o = i
  BY ByteOfBlock
<1>3. Slot(k) = k % N
  BY DEF Slot
<1>4. i < d * N
  OBVIOUS
<1> HIDE DEF N, d, k, o
<1>5. ASSUME k >= N PROVE FALSE
  <2>1. k * d >= N * d /\ N * d = d * N
    BY <1>1, <1>2, <1>5
  <2> QED BY <1>1, <1>2, <1>4, <2>1
<1>6. k \in 0 .. N - 1 /\ k = N * 0 + k
  BY <1>1, <1>2, <1>5
<1>7. k % N = k
  BY <1>1, <1>2, <1>6, ModUnique
<1> QED BY <1>3, <1>7 DEF k

\* A write inside the layout never takes the place of another block.
LEMMA NoOtherBlock ==
  ASSUME NEW off \in Nat, NEW len \in Nat \ {0}, NEW cap \in Nat, InLayout(off, len),
         NEW i \in Positions, NEW j \in Done(off, len, cap),
         Slot(j) = Slot(BlockIdx(i))
  PROVE  j = BlockIdx(i)
<1> DEFINE N == UIntRange \div SectorSize
           d == LogicalSector
           e == off + len - 1
<1>1. N \in Nat \ {0} /\ d \in Nat \ {0}
  BY LayoutTypes
<1>2. d * N \in Nat
  BY <1>1
<1>3. i \in Nat /\ i < d * N /\ e \in Nat /\ e < d * N
  BY <1>2 DEF Positions, InLayout
<1>4. Slot(BlockIdx(i)) = BlockIdx(i) /\ Slot(BlockIdx(e)) = BlockIdx(e)
  BY <1>3, OwnSlot
<1>5. j \in Nat /\ j <= BlockIdx(e) /\ BlockIdx(e) \in Nat
  BY BlocksType DEF Done, Blocks
<1>6. BlockIdx(e) < N
  BY <1>1, <1>4, <1>5 DEF Slot
<1>7. j \in 0 .. N - 1 /\ j = N * 0 + j
  BY <1>1, <1>5, <1>6
<1>8. j % N = j
  BY <1>1, <1>5, <1>7, ModUnique
<1> QED BY <1>4, <1>8 DEF Slot
-----------------------------------------------------------------------------
(* The invariant.                                                          *)

Inv ==
  /\ TypeOK
  /\ ImagesSound
  /\ BlocksMatchHeader
  /\ ~exists => img = EmptyFile
  /\ ~ReuseDirty => released = {}

\* What the handlers start from, and what they need of it.
LEMMA CurrentFacts ==
  ASSUME Inv
  PROVE  /\ Current \in Image /\ SoundUnder(Current, nonce)
         /\ ~ReuseDirty => Matched(Current) /\ Dirt = {EmptyFile}
         /\ \A dirt \in Dirt : dirt \in Image /\ SoundUnder(dirt, nonce)
         /\ nonce \in Nat
         /\ HasHeader(img) => Current = img
<1>1. nonce \in Nat
  BY FileAssumption DEF Inv, TypeOK, FileAssumption
<1>2. Current \in Image /\ SoundUnder(Current, nonce)
  BY <1>1, EmptyType, JunkSound DEF Inv, TypeOK, ImagesSound, Current, EmptyFile
<1>3. ~ReuseDirty => Matched(Current) /\ Dirt = {EmptyFile}
  <2>1. Matched(EmptyFile)
    BY DEF Matched, EmptyFile, JunkImage, JunkBlock
  <2>2. ~ReuseDirty => Matched(img)
    BY DEF Inv, BlocksMatchHeader, Matched
  <2> QED BY <2>1, <2>2, CleanDirt DEF Inv, Current
<1>4. ASSUME NEW dirt \in Dirt PROVE dirt \in Image /\ SoundUnder(dirt, nonce)
  BY <1>1, DirtSound DEF Inv, TypeOK, ImagesSound
<1>5. HasHeader(img) => Current = img
  BY LayoutAssumption
  DEF Inv, HasHeader, Parse, Current, EmptyFile, JunkImage, LayoutAssumption
<1> QED BY <1>1, <1>2, <1>3, <1>4, <1>5

\* Requests and answers are well formed.
LEMMA ReplyType ==
  ASSUME NEW op \in Operations, NEW off \in Nat, NEW len \in Nat, NEW val \in Byte,
         NEW ret \in {"OK", "EIO", "ENOENT", "EACCES", "EEXIST"}, NEW n \in Nat,
         NEW data \in Seq(Byte)
  PROVE  Answer(Request(op, off, len, val), ret, n, data) \in Reply
BY DEF Answer, Request, Reply

\* The answer of a failed request is well formed.
LEMMA NoData ==
  /\ <<>> \in Seq(Byte)
  /\ 0 \in Byte
  /\ Values \subseteq Byte
  /\ "none" \in Operations /\ "open" \in Operations /\ "create" \in Operations
  /\ "read" \in Operations /\ "write" \in Operations /\ "truncate" \in Operations
  /\ "getattr" \in Operations /\ "unlink" \in Operations
<1>1. <<>> \in Seq(Byte)
  OBVIOUS
<1> QED BY <1>1 DEF Byte, Zero, Operations

\* The bytes a read delivers are bytes.
LEMMA ReadDataType ==
  ASSUME NEW p \in Image, NEW off \in Nat, NEW n \in Nat
  PROVE  [i \in 1 .. n |-> ByteAt(p, off + i - 1)] \in Seq(Byte)
<1>1. ASSUME NEW i \in 1 .. n PROVE ByteAt(p, off + i - 1) \in Byte
  <2> DEFINE j == off + i - 1
  <2>1. j \in Nat
    OBVIOUS
  <2> HIDE DEF j
  <2>2. Slot(BlockIdx(j)) \in Slots /\ OffsetInSector(j) \in 0 .. LogicalSector - 1
    BY <2>1, BlockTypes, SlotTypes
  <2>3. p.blk[Slot(BlockIdx(j))].data \in Plaintext
    BY <2>2 DEF Image, Block
  <2>4. ByteAt(p, j) \in Byte
    BY <2>2, <2>3 DEF ByteAt, Plaintext
  <2> QED BY <2>4 DEF j
<1> QED BY <1>1

\* The byte count f_crypt_read delivers is a natural number.
LEMMA DeliverableType ==
  ASSUME NEW p \in Image, NEW off \in Nat, NEW len \in Nat
  PROVE  Deliverable(p, off, len) \in Nat
BY DEF Deliverable, MinOf, Image, Header

\* The invariant holds of an absent file and of a foreign one.
LEMMA InitInv == Init => Inv
<1> SUFFICES ASSUME Init PROVE Inv
  OBVIOUS
<1>1. img = EmptyFile \/ \E n \in ForeignSizes : img = JunkImage(n)
  BY DEF Init
<1>2. PICK n \in 0 .. MaxFileSize : img = JunkImage(n)
  BY <1>1, FileAssumption, LayoutTypes DEF FileAssumption, EmptyFile
<1>3. img \in Image /\ SoundUnder(img, 0) /\ Matched(img)
  BY <1>2, BlockTyping, JunkSound DEF Matched, JunkImage, JunkBlock
<1>4. reply \in Reply
  <2>1. Answer(Request("none", 0, 0, 0), "OK", 0, <<>>) \in Reply
    BY NoData, ReplyType
  <2> QED BY <2>1 DEF Init
<1>5. exists \in BOOLEAN /\ nonce = 0 /\ released = {}
  BY DEF Init
<1>6. TypeOK
  BY <1>3, <1>4, <1>5, FileAssumption DEF TypeOK, FileAssumption
<1>7. ImagesSound /\ BlocksMatchHeader
  BY <1>3, <1>5 DEF ImagesSound, BlocksMatchHeader, Matched
<1>8. ~exists => img = EmptyFile
  BY DEF Init
<1> QED BY <1>5, <1>6, <1>7, <1>8 DEF Inv

\* To keep the invariant a step has to leave a sound image, and one without
\* orphans on clean clusters, and to remember only sound images.
LEMMA StepInv ==
  ASSUME Inv, exists' \in BOOLEAN, nonce' \in nonce .. MaxNonce, reply' \in Reply,
         img' \in Image, SoundUnder(img', nonce'), ~ReuseDirty => Matched(img'),
         ~exists' => img' = EmptyFile,
         released' \subseteq Image,
         ~ReuseDirty => released' = released,
         \A a \in released' \ released : SoundUnder(a, nonce')
  PROVE  Inv'
<1>1. nonce \in 0 .. MaxNonce /\ MaxNonce \in Nat /\ nonce' \in 0 .. MaxNonce
  BY FileAssumption DEF Inv, TypeOK, FileAssumption
<1>2. TypeOK'
  BY <1>1 DEF TypeOK
<1>3. \A a \in released : SoundUnder(a, nonce')
  <2> SUFFICES ASSUME NEW a \in released PROVE SoundUnder(a, nonce')
    OBVIOUS
  <2>1. a \in Image /\ SoundUnder(a, nonce)
    BY DEF Inv, TypeOK, ImagesSound
  <2>2. a.hdr.nonce \in Nat /\ \A s \in Slots : a.blk[s].nonce \in Nat
    BY <2>1 DEF Image, Header, Block
  <2> QED BY <1>1, <2>1, <2>2 DEF SoundUnder
<1>4. ImagesSound'
  BY <1>3 DEF ImagesSound, SoundUnder, Whole
<1>5. BlocksMatchHeader'
  BY DEF BlocksMatchHeader, Matched
<1> QED BY <1>2, <1>4, <1>5 DEF Inv

\* A request that changes nothing but its answer.
LEMMA AnswerOnlyInv ==
  ASSUME Inv, UNCHANGED <<exists, img, nonce, released>>, reply' \in Reply
  PROVE  Inv'
<1>1. nonce \in 0 .. MaxNonce /\ MaxNonce \in Nat
  BY FileAssumption DEF Inv, TypeOK, FileAssumption
<1> QED BY <1>1 DEF Inv, TypeOK, ImagesSound, SoundUnder, Whole, BlocksMatchHeader

\* A handler that finds no file keeps the invariant.
LEMMA NotFoundInv ==
  ASSUME Inv, NEW op \in Operations, NEW off \in Nat, NEW len \in Nat, NEW val \in Byte,
         \/ NotFound(Request(op, off, len, val))
         \/ OpenFails(Request(op, off, len, val))
  PROVE  Inv' /\ img' = img /\ reply'.req.op = op
<1>1. PICK ret \in {"ENOENT", "EACCES"} :
        reply' = Answer(Request(op, off, len, val), ret, 0, <<>>)
  BY DEF NotFound, OpenFails, Failed
<1>2. reply' \in Reply
  BY <1>1, NoData, ReplyType
<1>3. UNCHANGED <<exists, img, nonce, released>>
  BY DEF NotFound, OpenFails
<1>4. reply'.req.op = op
  BY <1>1 DEF Answer, Request
<1> QED BY <1>2, <1>3, <1>4, AnswerOnlyInv

\* fff_open, which may create the file, keeps the invariant.
LEMMA OpenInv ==
  ASSUME Inv, fff_open
  PROVE  Inv' /\ (HasHeader(img) => img' = img)
<1>1. CASE OpenFails(Request("open", 0, 0, 0))
  BY <1>1, NoData, NotFoundInv
<1>2. CASE ~OpenFails(Request("open", 0, 0, 0))
  <2>1. /\ exists' = TRUE /\ img' = Current /\ UNCHANGED <<nonce, released>>
        /\ reply' = Answer(Request("open", 0, 0, 0), "OK", 0, <<>>)
    BY <1>2 DEF fff_open
  <2>2. reply' \in Reply
    BY <2>1, NoData, ReplyType
  <2>3. nonce' \in nonce .. MaxNonce /\ released' \subseteq Image
    BY <2>1, FileAssumption DEF Inv, TypeOK, FileAssumption
  <2>4. Inv'
    BY <2>1, <2>2, <2>3, CurrentFacts, StepInv
  <2> QED BY <2>1, <2>4, CurrentFacts
<1> QED BY <1>1, <1>2

\* What a released image adds to the clusters' remains.
LEMMA RememberFacts ==
  ASSUME Inv, NEW p \in Image, NEW m \in Nat, SoundUnder(p, m)
  PROVE  /\ Remember(p) \subseteq Image
         /\ ~ReuseDirty => Remember(p) = released
         /\ \A a \in Remember(p) \ released : SoundUnder(a, m)
BY DEF Inv, TypeOK, Remember

\* fff_create keeps the invariant, also when it empties the file.
LEMMA CreateInv ==
  ASSUME Inv, NEW excl \in BOOLEAN, NEW trunc \in BOOLEAN, fff_create(excl, trunc)
  PROVE  Inv' /\ reply'.req.op = "create"
<1>1. PICK ret \in {"OK", "EEXIST", "EACCES"} :
        reply' = Answer(Request("create", 0, 0, 0), ret, 0, <<>>)
  BY DEF fff_create, Failed
<1>2. reply' \in Reply
  BY <1>1, NoData, ReplyType
<1>3. reply'.req.op = "create"
  BY <1>1 DEF Answer, Request
<1>4. CASE UNCHANGED <<exists, img, nonce, released>>
  BY <1>2, <1>3, <1>4, AnswerOnlyInv
<1>5. CASE ~UNCHANGED <<exists, img, nonce, released>>
  <2>1. /\ exists' = TRUE /\ nonce' = nonce
        /\ \/ UNCHANGED <<img, released>> /\ exists
           \/ img' = EmptyFile /\ released' = IF exists THEN Remember(img) ELSE released
    BY <1>5 DEF fff_create
  <2>2. nonce \in Nat /\ nonce' \in nonce .. MaxNonce
    BY <2>1, FileAssumption DEF Inv, TypeOK, FileAssumption
  <2>3. img \in Image /\ SoundUnder(img, nonce) /\ released \subseteq Image
    BY DEF Inv, TypeOK, ImagesSound
  <2>4. CASE UNCHANGED <<img, released>> /\ exists
    BY <1>2, <1>3, <2>1, <2>2, <2>3, <2>4, StepInv DEF Inv, BlocksMatchHeader, Matched
  <2>5. CASE img' = EmptyFile /\ released' = IF exists THEN Remember(img) ELSE released
    <3>1. img' \in Image /\ SoundUnder(img', nonce') /\ Matched(img')
      BY <2>1, <2>2, <2>5, EmptyType, JunkSound
      DEF EmptyFile, Matched, JunkImage, JunkBlock
    <3>2. /\ released' \subseteq Image
          /\ ~ReuseDirty => released' = released
          /\ \A a \in released' \ released : SoundUnder(a, nonce')
      BY <2>1, <2>2, <2>3, <2>5, RememberFacts
    <3> QED BY <1>2, <1>3, <2>1, <2>2, <3>1, <3>2, StepInv
  <2> QED BY <2>1, <2>4, <2>5
<1> QED BY <1>4, <1>5

\* fff_getattr keeps the invariant.
LEMMA GetAttrInv ==
  ASSUME Inv, fff_getattr
  PROVE  Inv' /\ img' = img
<1>1. CASE NotFound(Request("getattr", 0, 0, 0))
  BY <1>1, NoData, NotFoundInv
<1>2. CASE ~NotFound(Request("getattr", 0, 0, 0))
  <2>1. /\ UNCHANGED <<exists, img, nonce, released>>
        /\ reply' = Answer(Request("getattr", 0, 0, 0), "OK", StatSize(img), <<>>)
    BY <1>2 DEF fff_getattr
  <2>2. StatSize(img) \in Nat
    BY LayoutTypes DEF Inv, TypeOK, StatSize, Image, Header
  <2>3. reply' \in Reply
    BY <2>1, <2>2, NoData, ReplyType
  <2> QED BY <2>1, <2>3, AnswerOnlyInv
<1> QED BY <1>1, <1>2

\* fff_unlink keeps the invariant and remembers a sound image.
LEMMA UnlinkInv ==
  ASSUME Inv, fff_unlink
  PROVE  Inv' /\ reply'.req.op = "unlink"
<1>1. CASE NotFound(Request("unlink", 0, 0, 0))
  BY <1>1, NoData, NotFoundInv
<1>2. CASE ~NotFound(Request("unlink", 0, 0, 0))
  <2>1. /\ exists' = FALSE /\ img' = EmptyFile /\ nonce' = nonce
        /\ released' = Remember(img)
        /\ reply' = Answer(Request("unlink", 0, 0, 0), "OK", 0, <<>>)
    BY <1>2 DEF fff_unlink
  <2>2. reply' \in Reply /\ reply'.req.op = "unlink"
    BY <2>1, NoData, ReplyType DEF Answer, Request
  <2>3. nonce \in Nat /\ nonce' \in nonce .. MaxNonce
    BY <2>1, FileAssumption DEF Inv, TypeOK, FileAssumption
  <2>4. img \in Image /\ SoundUnder(img, nonce)
    BY DEF Inv, TypeOK, ImagesSound
  <2>5. img' \in Image /\ SoundUnder(img', nonce') /\ Matched(img')
    BY <2>1, <2>3, EmptyType, JunkSound DEF EmptyFile, Matched, JunkImage, JunkBlock
  <2> QED BY <2>1, <2>2, <2>3, <2>4, <2>5, RememberFacts, StepInv
<1> QED BY <1>1, <1>2

\* The image a handler has after f_crypt_lseek and before it reads the header.
LEMMA SeekFacts ==
  ASSUME Inv, NEW end \in 0 .. MaxFileSize, NEW dirt \in Dirt
  PROVE  /\ Grow(Current, end, dirt) \in Image
         /\ SoundUnder(Grow(Current, end, dirt), nonce)
         /\ Grow(Current, end, dirt).size = MaxOf(Current.size, end)
         /\ ~ReuseDirty => Matched(Grow(Current, end, dirt))
         /\ HasHeader(img) => /\ HasHeader(Grow(Current, end, dirt))
                              /\ Grow(Current, end, dirt).hdr = img.hdr
<1> DEFINE q == Grow(Current, end, dirt)
<1>1. /\ Current \in Image /\ SoundUnder(Current, nonce) /\ nonce \in Nat
      /\ dirt \in Image /\ SoundUnder(dirt, nonce)
  BY CurrentFacts
<1>2. q \in Image /\ SoundUnder(q, nonce) /\ q.size = MaxOf(Current.size, end)
  BY <1>1, GrowSound
<1>3. ~ReuseDirty => Matched(q)
  <2> SUFFICES ASSUME ~ReuseDirty PROVE Matched(q)
    OBVIOUS
  <2>1. dirt = EmptyFile /\ Matched(Current)
    BY CurrentFacts
  <2> QED BY <1>1, <2>1, GrowMatched
<1>4. ASSUME HasHeader(img) PROVE HasHeader(q) /\ q.hdr = img.hdr
  <2>1. Current = img /\ img.size >= HeaderSize /\ img.hdr.nonce # 0
    BY <1>4, CurrentFacts, LayoutAssumption
    DEF HasHeader, Parse, Inv, TypeOK, Image, LayoutAssumption
  <2>2. q.hdr = img.hdr
    BY <1>1, <2>1, GrowKeepsHeader
  <2>3. q.size >= HeaderSize
    BY <1>1, <1>2, <2>1, LayoutTypes, LayoutAssumption
    DEF MaxOf, Image, LayoutAssumption
  <2>4. ~(q.size < HeaderSize)
    BY <1>2, <2>3, LayoutTypes, LayoutAssumption DEF Image, LayoutAssumption
  <2> QED BY <2>1, <2>2, <2>4 DEF HasHeader, Parse
<1> QED BY <1>2, <1>3, <1>4

\* fff_read keeps the invariant although its seek may extend the file.
LEMMA ReadInv ==
  ASSUME Inv, NEW off \in Offsets, NEW len \in Lengths, NEW writing \in BOOLEAN,
         fff_read(off, len, writing)
  PROVE  Inv' /\ (HasHeader(img) => img'.hdr = img.hdr)
<1> DEFINE req == Request("read", off, len, 0)
<1>1. off \in Nat /\ len \in Nat
  BY FileAssumption DEF FileAssumption
<1>2. CASE OpenFails(req)
  BY <1>1, <1>2, NoData, NotFoundInv
<1>3. CASE ~OpenFails(req)
  <2>1. PICK end \in EndsAfterSeek(Current, SeekPos(off), writing), dirt \in Dirt :
          LET q == Grow(Current, end, dirt)
              n == Deliverable(q, off, len)
          IN  /\ exists' = TRUE /\ img' = q /\ UNCHANGED <<nonce, released>>
              /\ \/ Failed(req, "EIO")
                 \/ reply' = Answer(req, "OK", 0, <<>>)
                 \/ reply' = Answer(req, "OK", n, [i \in 1 .. n |-> ByteAt(q, off + i - 1)])
    BY <1>3 DEF fff_read
  <2>2. end \in 0 .. MaxFileSize
    <3>1. PICK cap \in Capacities :
            end = MaxOf(Current.size, LseekTo(Current, SeekPos(off), writing, cap))
      BY DEF EndsAfterSeek
    <3>2. LseekTo(Current, SeekPos(off), writing, cap) \in 0 .. MaxFileSize
      BY <1>1, CurrentFacts, SeekType, BlockTypes, FileAssumption DEF FileAssumption
    <3>3. Current.size \in 0 .. MaxFileSize
      BY CurrentFacts DEF Image
    <3> QED BY <3>1, <3>2, <3>3 DEF MaxOf
  <2> DEFINE q == Grow(Current, end, dirt)
             n == Deliverable(q, off, len)
             d == [i \in 1 .. n |-> ByteAt(q, off + i - 1)]
  <2>3. /\ q \in Image /\ SoundUnder(q, nonce)
        /\ ~ReuseDirty => Matched(q)
        /\ HasHeader(img) => q.hdr = img.hdr
    BY <2>2, SeekFacts
  <2>4. n \in Nat /\ d \in Seq(Byte)
    BY <1>1, <2>3, DeliverableType, ReadDataType
  <2>5. exists' = TRUE /\ img' = q /\ nonce' = nonce /\ released' = released
    BY <2>1
  <2>6. \/ reply' = Answer(req, "EIO", 0, <<>>)
        \/ reply' = Answer(req, "OK", 0, <<>>)
        \/ reply' = Answer(req, "OK", n, d)
    BY <2>1 DEF Failed
  <2> HIDE DEF q, n, d
  <2>7. reply' \in Reply
    <3>1. Answer(req, "EIO", 0, <<>>) \in Reply /\ Answer(req, "OK", 0, <<>>) \in Reply
      BY <1>1, NoData, ReplyType
    <3>2. Answer(req, "OK", n, d) \in Reply
      BY <1>1, <2>4, NoData, ReplyType
    <3> QED BY <2>6, <3>1, <3>2
  <2>8. nonce' \in nonce .. MaxNonce /\ released' \subseteq Image
    BY <2>5, FileAssumption DEF Inv, TypeOK, FileAssumption
  <2>9. Inv'
    BY <2>3, <2>5, <2>7, <2>8, StepInv
  <2> QED BY <2>3, <2>5, <2>9
<1> QED BY <1>2, <1>3

\* fff_truncate keeps the invariant: the new header replaces all.
LEMMA TruncateInv ==
  ASSUME Inv, NEW size \in Sizes, fff_truncate(size)
  PROVE  Inv' /\ reply'.req.op = "truncate"
<1> DEFINE req == Request("truncate", size, 0, 0)
<1>1. size \in Nat
  BY FileAssumption DEF FileAssumption
<1>2. CASE NotFound(req)
  BY <1>1, <1>2, NoData, NotFoundInv
<1>3. CASE UNCHANGED <<exists, img, nonce, released>> /\ Failed(req, "EIO")
  <2>1. reply' \in Reply
    BY <1>1, <1>3, NoData, ReplyType DEF Failed
  <2>2. reply'.req.op = "truncate"
    BY <1>3 DEF Failed, Answer, Request
  <2> QED BY <1>3, <2>1, <2>2, AnswerOnlyInv
<1>4. CASE /\ exists /\ nonce < MaxNonce /\ exists' = exists
           /\ nonce' = nonce + 1
           /\ img' = TruncateImage(img, size, nonce + 1)
           /\ released' = Remember([img EXCEPT !.hdr = JunkHeader])
           /\ reply' = Answer(req, "OK", 0, <<>>)
  <2>1. img \in Image /\ SoundUnder(img, nonce) /\ nonce \in Nat
        /\ nonce' \in nonce .. MaxNonce
    BY <1>4, FileAssumption DEF Inv, TypeOK, ImagesSound, FileAssumption
  <2>2. reply' \in Reply
    BY <1>1, <1>4, NoData, ReplyType
  <2>3. reply'.req.op = "truncate"
    BY <1>4 DEF Answer, Request
  <2>4. img' \in Image /\ SoundUnder(img', nonce') /\ Matched(img')
    BY <1>1, <1>4, <2>1, TruncateSound
  <2> DEFINE old == [img EXCEPT !.hdr = JunkHeader]
  <2>5. old \in Image /\ old.size = img.size /\ old.hdr = JunkHeader /\ old.blk = img.blk
    BY <2>1, BlockTyping DEF Image
  <2> HIDE DEF old
  <2>6. SoundUnder(old, nonce)
    BY <2>1, <2>5 DEF SoundUnder, JunkHeader
  <2>7. SoundUnder(old, nonce')
    BY <1>4, <2>1, <2>5, <2>6, SoundMonotone
  <2>8. nonce' \in Nat /\ exists' = TRUE /\ released' = Remember(old)
    BY <1>4, <2>1 DEF Inv, TypeOK, old
  <2>9. /\ released' \subseteq Image
        /\ ~ReuseDirty => released' = released
        /\ \A a \in released' \ released : SoundUnder(a, nonce')
    BY <2>5, <2>7, <2>8, RememberFacts
  <2> QED BY <2>1, <2>2, <2>3, <2>4, <2>8, <2>9, StepInv
<1> QED BY <1>2, <1>3, <1>4 DEF fff_truncate

\* fff_write keeps the invariant on each of its ways out.
LEMMA WriteInv ==
  ASSUME Inv, NEW off \in Offsets, NEW len \in Lengths, NEW v \in Values,
         fff_write(off, len, v)
  PROVE  Inv' /\ (HasHeader(img) => img'.hdr.nonce = img.hdr.nonce)
<1> DEFINE req == Request("write", off, len, v)
<1>1. off \in Nat /\ len \in Nat \ {0} /\ v \in Byte
  BY FileAssumption, NoData DEF FileAssumption
<1>2. CASE OpenFails(req)
  BY <1>1, <1>2, NotFoundInv, NoData
<1>3. CASE ~OpenFails(req)
  <2>1. PICK cap \in Capacities, dirt \in Dirt :
          LET q == Grow(Current, LseekTo(Current, SeekPos(off), TRUE, cap), dirt)
          IN  /\ exists' = TRUE /\ Current.size <= cap /\ released' = released
              /\ \/ Failed(req, "EIO")
                 \/ reply' = Answer(req, "OK", len, <<>>)
              /\ \/ /\ Parse(q, TRUE) \in {"FR_BAD_HEADER", "FR_NO_HEADER"}
                    /\ img' = q /\ nonce' = nonce
                 \/ /\ Parse(q, TRUE) = "FR_NO_HEADER"
                    /\ cap > 0 /\ nonce < MaxNonce /\ nonce' = nonce + 1
                    /\ img' = WriteBlocks(WithNewHeader(q, nonce + 1), off, len, v, cap)
                 \/ /\ Parse(q, TRUE) = "FR_OK" /\ nonce' = nonce
                    /\ img' = WriteBlocks(q, off, len, v, cap)
    BY <1>3 DEF fff_write, WriteModeReads
  <2> DEFINE end == LseekTo(Current, SeekPos(off), TRUE, cap)
             q   == Grow(Current, end, dirt)
  <2>2. /\ cap \in Nat /\ (cap > 0 => cap >= SectorSize)
        /\ Current \in Image /\ Current.size \in 0 .. MaxFileSize
        /\ SeekPos(off) \in Nat /\ nonce \in Nat /\ MaxNonce \in Nat
    BY <1>1, CurrentFacts, BlockTypes, FileAssumption, LayoutAssumption
    DEF FileAssumption, LayoutAssumption, Image
  <2>3. end \in 0 .. MaxFileSize /\ end <= cap
    BY <2>1, <2>2, SeekType
  <2>4. MaxOf(Current.size, end) <= cap
    BY <2>1, <2>3 DEF MaxOf
  <2>5. exists' = TRUE /\ released' = released /\ released' \subseteq Image
    BY <2>1 DEF Inv, TypeOK
  <2>6. reply' \in Reply
    <3>1. reply' = Answer(req, "EIO", 0, <<>>) \/ reply' = Answer(req, "OK", len, <<>>)
      BY <2>1 DEF Failed
    <3>2. Answer(req, "EIO", 0, <<>>) \in Reply
      BY <1>1, NoData, ReplyType
    <3>3. Answer(req, "OK", len, <<>>) \in Reply
      BY <1>1, NoData, ReplyType
    <3> QED BY <3>1, <3>2, <3>3
  <2>7. \/ /\ Parse(q, TRUE) \in {"FR_BAD_HEADER", "FR_NO_HEADER"}
           /\ img' = q /\ nonce' = nonce
        \/ /\ Parse(q, TRUE) = "FR_NO_HEADER"
           /\ cap > 0 /\ nonce < MaxNonce /\ nonce' = nonce + 1
           /\ img' = WriteBlocks(WithNewHeader(q, nonce + 1), off, len, v, cap)
        \/ /\ Parse(q, TRUE) = "FR_OK" /\ nonce' = nonce
           /\ img' = WriteBlocks(q, off, len, v, cap)
    BY <2>1
  <2> HIDE DEF end
  <2>8. /\ q \in Image /\ SoundUnder(q, nonce) /\ q.size <= cap
        /\ ~ReuseDirty => Matched(q)
        /\ HasHeader(img) => Parse(q, TRUE) = "FR_OK" /\ q.hdr = img.hdr
    BY <2>3, <2>4, SeekFacts DEF HasHeader
  <2> HIDE DEF q
  <2>9. nonce \in nonce .. MaxNonce
    BY <2>2 DEF Inv, TypeOK
  <2>10. CASE /\ Parse(q, TRUE) \in {"FR_BAD_HEADER", "FR_NO_HEADER"}
              /\ img' = q /\ nonce' = nonce
    BY <2>5, <2>6, <2>8, <2>9, <2>10, StepInv
  <2>11. CASE /\ Parse(q, TRUE) = "FR_NO_HEADER"
              /\ cap > 0 /\ nonce < MaxNonce /\ nonce' = nonce + 1
              /\ img' = WriteBlocks(WithNewHeader(q, nonce + 1), off, len, v, cap)
    <3> DEFINE h == WithNewHeader(q, nonce + 1)
    <3>1. /\ h \in Image /\ SoundUnder(h, nonce + 1) /\ Matched(h)
          /\ h.size = MaxOf(q.size, HeaderSize)
      BY <2>2, <2>8, <2>11, NewHeaderSound, NewHeaderMatched
    <3> HIDE DEF h
    <3>2. h.size <= cap /\ h.size >= HeaderSize /\ nonce + 1 \in Nat
      BY <2>2, <2>8, <2>11, <3>1, LayoutAssumption DEF MaxOf, Image, LayoutAssumption
    <3>3. /\ WriteBlocks(h, off, len, v, cap) \in Image
          /\ SoundUnder(WriteBlocks(h, off, len, v, cap), nonce + 1)
          /\ Matched(WriteBlocks(h, off, len, v, cap))
      BY <1>1, <2>2, <3>1, <3>2, WriteBlocksSound
    <3>4. img' = WriteBlocks(h, off, len, v, cap) /\ nonce' = nonce + 1
      BY <2>11 DEF h
    <3>5. nonce' \in nonce .. MaxNonce
      BY <2>2, <2>11
    <3>6. Inv'
      BY <2>5, <2>6, <3>3, <3>4, <3>5, StepInv
    <3> QED BY <2>8, <2>11, <3>6
  <2>12. CASE /\ Parse(q, TRUE) = "FR_OK" /\ nonce' = nonce
              /\ img' = WriteBlocks(q, off, len, v, cap)
    <3>1. q.size >= HeaderSize
      BY <2>8, <2>12, LayoutAssumption DEF Parse, Image, LayoutAssumption
    <3>2. /\ WriteBlocks(q, off, len, v, cap) \in Image
          /\ SoundUnder(WriteBlocks(q, off, len, v, cap), nonce)
          /\ ~ReuseDirty => Matched(WriteBlocks(q, off, len, v, cap))
          /\ WriteBlocks(q, off, len, v, cap).hdr.nonce = q.hdr.nonce
      BY <1>1, <2>2, <2>8, <3>1, WriteBlocksSound
    <3>3. Inv'
      BY <2>5, <2>6, <2>9, <2>12, <3>2, StepInv
    <3> QED BY <2>8, <2>12, <3>2, <3>3
  <2> QED BY <2>7, <2>10, <2>11, <2>12
<1> QED BY <1>2, <1>3

\* Every handler keeps the invariant.
LEMMA NextInv == Inv /\ [Next]_vars => Inv'
<1> SUFFICES ASSUME Inv, [Next]_vars PROVE Inv'
  OBVIOUS
<1>1. CASE UNCHANGED vars
  <2>1. reply' \in Reply
    BY <1>1 DEF Inv, TypeOK, vars
  <2> QED BY <1>1, <2>1, AnswerOnlyInv DEF vars
<1>2. CASE Next
  BY <1>2, OpenInv, CreateInv, ReadInv, WriteInv, TruncateInv, GetAttrInv, UnlinkInv
  DEF Next
<1> QED BY <1>1, <1>2
-----------------------------------------------------------------------------
(* The theorems.                                                           *)

\* Every image, request and answer is well typed: in particular no sequence of
\* requests makes the file larger than the 32-bit size of its directory entry.
THEOREM TypeCorrect == Spec => []TypeOK
<1>1. Inv => TypeOK
  BY DEF Inv
<1> QED BY <1>1, InitInv, NextInv, PTL DEF Spec

\* No header and no block ever reaches past the end of its file or stands
\* under a nonce that was not drawn, in the file or in released clusters.
THEOREM ImagesAreSound == Spec => []ImagesSound
<1>1. Inv => ImagesSound
  BY DEF Inv
<1> QED BY <1>1, InitInv, NextInv, PTL DEF Spec

\* On clean clusters every block of the file is under the nonce of its header:
\* no handler replaces a header and leaves blocks that can no longer be read.
THEOREM NoOrphanedBlocks == Spec => []BlocksMatchHeader
<1>1. Inv => BlocksMatchHeader
  BY DEF Inv
<1> QED BY <1>1, InitInv, NextInv, PTL DEF Spec

\* Opening, reading, writing and stat never replace the base nonce of a file
\* that has a header, even on reused clusters.
THEOREM NonceIsKept == Spec => HeaderKept
<1> DEFINE Kept == HasHeader(img) /\ reply'.req.op \in {"open", "read", "write", "getattr"}
                     => img'.hdr.nonce = img.hdr.nonce
<1>1. ASSUME Inv, [Next]_vars PROVE [Kept]_vars
  <2>1. CASE UNCHANGED vars
    BY <2>1
  <2>2. CASE fff_open
    BY <1>1, <2>2, OpenInv
  <2>3. CASE \E excl, trunc \in BOOLEAN : fff_create(excl, trunc)
    BY <1>1, <2>3, CreateInv
  <2>4. CASE \E off \in Offsets, len \in Lengths, writing \in BOOLEAN :
               fff_read(off, len, writing)
    BY <1>1, <2>4, ReadInv
  <2>5. CASE \E off \in Offsets, len \in Lengths, v \in Values : fff_write(off, len, v)
    BY <1>1, <2>5, WriteInv
  <2>6. CASE \E size \in Sizes : fff_truncate(size)
    BY <1>1, <2>6, TruncateInv
  <2>7. CASE fff_getattr
    BY <1>1, <2>7, GetAttrInv
  <2>8. CASE fff_unlink
    BY <1>1, <2>8, UnlinkInv
  <2> QED BY <1>1, <2>1, <2>2, <2>3, <2>4, <2>5, <2>6, <2>7, <2>8 DEF Next
<1> QED BY <1>1, InitInv, NextInv, PTL DEF Spec, HeaderKept

-----------------------------------------------------------------------------
(* What a request makes of the bytes of the file.                          *)

\* An absent file has the image of an empty one.
LEMMA CurrentIsImg ==
  ASSUME Inv
  PROVE  Current = img
BY DEF Inv, Current

\* Everything that could be read of the file can be read of p.
Carries(p) ==
  /\ HasHeader(img) => p.hdr = img.hdr
  /\ \A i \in Nat : Content(img, i) # Lost => Content(p, i) = Content(img, i)

\* The ends a seek of f_crypt_read may reach are file sizes.
LEMMA EndType ==
  ASSUME Inv, NEW off \in Offsets, NEW writing \in BOOLEAN,
         NEW end \in EndsAfterSeek(Current, SeekPos(off), writing)
  PROVE  end \in 0 .. MaxFileSize
<1>1. PICK cap \in Capacities :
        end = MaxOf(Current.size, LseekTo(Current, SeekPos(off), writing, cap))
  BY DEF EndsAfterSeek
<1>2. LseekTo(Current, SeekPos(off), writing, cap) \in 0 .. MaxFileSize
  BY CurrentFacts, SeekType, BlockTypes, FileAssumption DEF FileAssumption
<1>3. Current.size \in 0 .. MaxFileSize
  BY CurrentFacts DEF Image
<1> QED BY <1>1, <1>2, <1>3 DEF MaxOf

\* Truncation leaves a header under the new nonce, the size asked for, and no
\* byte that can be read.
LEMMA TruncateNonce ==
  ASSUME NEW p \in Image, NEW m \in Nat, NEW size \in Nat, SoundUnder(p, m)
  PROVE  /\ TruncateImage(p, size, m + 1).hdr = [nonce |-> m + 1, lsize |-> size]
         /\ TruncateImage(p, size, m + 1).size = HeaderSize
         /\ \A s \in Slots : TruncateImage(p, size, m + 1).blk[s].nonce = 0
<1> DEFINE h == WithNewHeader(p, m + 1)
           c == CutTo(h, HeaderSize)
<1>1. h \in Image /\ h.hdr.nonce = m + 1
  BY NewHeaderSound
<1> HIDE DEF h
<1>2. c.size = HeaderSize /\ c.hdr = h.hdr /\ c.blk = [s \in Slots |-> JunkBlock]
      /\ c = [size |-> c.size, hdr |-> c.hdr, blk |-> c.blk]
  BY DEF CutTo
<1> HIDE DEF c
<1>3. WithLsize(c, size).hdr = [nonce |-> c.hdr.nonce, lsize |-> size]
      /\ WithLsize(c, size).size = c.size /\ WithLsize(c, size).blk = c.blk
  BY <1>1, <1>2 DEF WithLsize, Image, Header
<1>4. TruncateImage(p, size, m + 1) = WithLsize(c, size)
  BY DEF TruncateImage, c, h
<1> QED BY <1>1, <1>2, <1>3, <1>4 DEF JunkBlock

\* Seeking past the end loses nothing.
LEMMA SeekCarries ==
  ASSUME Inv, NEW end \in 0 .. MaxFileSize, NEW dirt \in Dirt
  PROVE  Carries(Grow(Current, end, dirt))
<1> DEFINE q == Grow(Current, end, dirt)
<1>1. /\ img \in Image /\ Current = img
      /\ dirt \in Image
  BY CurrentIsImg, CurrentFacts DEF Inv, TypeOK
<1>2. /\ q \in Image
      /\ HasHeader(img) => HasHeader(q) /\ q.hdr = img.hdr
  BY SeekFacts
<1>3. ASSUME NEW i \in Nat, Content(img, i) # Lost PROVE Content(q, i) = Content(img, i)
  <2> DEFINE k == BlockIdx(i)
  <2>1. HasHeader(img) /\ Opens(img, k) /\ k \in Nat
    BY <1>1, <1>3, ContentIs, BlockTypes
  <2>2. img.size >= HeaderSize
    BY <1>1, <2>1, HeaderParses
  <2>3. Opens(q, k) /\ q.blk[Slot(k)] = img.blk[Slot(k)]
    BY <1>1, <2>1, <2>2, GrowOpens
  <2> HIDE DEF q
  <2> QED BY <1>2, <2>1, <2>3 DEF Content, ByteAt
<1> HIDE DEF q
<1>4. Carries(q)
  BY <1>2, <1>3 DEF Carries
<1> QED BY <1>4 DEF q

\* Clusters that were given back hold no block of the file, unless the file's
\* header itself came out of them.
NoLeftovers ==
  (img.hdr.nonce # 0 /\ \A a \in released : a.hdr.nonce # img.hdr.nonce)
    => \A a \in released, s \in Slots : a.blk[s].nonce # img.hdr.nonce

\* Nothing can be read of p that could not be read of the file, unless the
\* header of p came out of released clusters.
Own(p) ==
  (\A a \in released : a.hdr.nonce # p.hdr.nonce)
    => \A i \in Nat : Content(p, i) \in {Content(img, i), Lost}

\* What is found in new clusters was in released ones.
LEMMA DirtIs ==
  ASSUME Inv, NEW dirt \in Dirt
  PROVE  /\ dirt.hdr.nonce # 0 => \E a \in released : a.hdr.nonce = dirt.hdr.nonce
         /\ \A s \in Slots : dirt.blk[s].nonce # 0 =>
              \E a \in released : a.blk[s].nonce = dirt.blk[s].nonce
<1>1. released \subseteq Image
  BY DEF Inv, TypeOK
<1>2. CASE dirt = EmptyFile
  BY <1>2 DEF EmptyFile, JunkImage, JunkHeader, JunkBlock
<1>3. CASE dirt # EmptyFile
  <2>1. PICK a \in released, keep \in SUBSET Slots : dirt = Remains(a, keep)
    BY <1>3 DEF Dirt
  <2>2. dirt.hdr = a.hdr
        /\ dirt.blk = [s \in Slots |-> IF s \in keep THEN a.blk[s] ELSE JunkBlock]
    BY <1>1, <2>1 DEF Remains, Image
  <2> QED BY <2>2 DEF JunkBlock
<1> QED BY <1>2, <1>3

\* Where the header of the file comes from after a seek.
LEMMA SeekHeader ==
  ASSUME Inv, NEW end \in 0 .. MaxFileSize, NEW dirt \in Dirt
  PROVE  \/ Grow(Current, end, dirt).hdr.nonce \in {0, img.hdr.nonce}
         \/ \E a \in released : a.hdr.nonce = Grow(Current, end, dirt).hdr.nonce
<1>1. Current = img
  BY CurrentIsImg
<1>2. Grow(Current, end, dirt).hdr \in {img.hdr, dirt.hdr}
  BY <1>1 DEF Grow
<1> QED BY <1>2, DirtIs

\* A seek makes no bad header of a file without one into a missing one, and on
\* clean clusters it makes no header appear.
LEMMA SeekParse ==
  ASSUME Inv, NEW end \in 0 .. MaxFileSize, NEW dirt \in Dirt
  PROVE  /\ Parse(img, TRUE) = "FR_BAD_HEADER" =>
              Parse(Grow(Current, end, dirt), TRUE) # "FR_NO_HEADER"
         /\ ~ReuseDirty /\ HasHeader(Grow(Current, end, dirt)) => HasHeader(img)
<1> DEFINE q == Grow(Current, end, dirt)
<1>1. /\ img \in Image /\ Current = img /\ SoundUnder(img, nonce)
      /\ q \in Image /\ q.size = MaxOf(img.size, end)
  BY CurrentIsImg, SeekFacts DEF Inv, TypeOK, ImagesSound
<1>2. ~ReuseDirty => q.hdr.nonce \in {0, img.hdr.nonce}
  <2>1. ~ReuseDirty => released = {}
    BY DEF Inv
  <2> QED BY <2>1, SeekHeader
<1> HIDE DEF q
<1>3. ASSUME Parse(img, TRUE) = "FR_BAD_HEADER" PROVE Parse(q, TRUE) # "FR_NO_HEADER"
  <2>1. img.size > HeaderSize /\ img.size \in Nat
    BY <1>1, <1>3, LayoutAssumption DEF Parse, Image, LayoutAssumption
  <2>2. q.size > HeaderSize /\ q.size \in Nat
    BY <1>1, <2>1, LayoutTypes, LayoutAssumption DEF MaxOf, Image, LayoutAssumption
  <2> QED BY <2>2, LayoutAssumption DEF Parse, LayoutAssumption
<1>4. ASSUME ~ReuseDirty, HasHeader(q) PROVE HasHeader(img)
  <2>1. img.hdr.nonce # 0
    BY <1>1, <1>2, <1>4, HeaderParses
  <2>2. img.size >= HeaderSize
    BY <1>1, <2>1, LayoutAssumption DEF SoundUnder, Image, LayoutAssumption
  <2> QED BY <1>1, <2>1, <2>2, HeaderParses
<1> QED BY <1>3, <1>4 DEF q

\* Seeking past the end makes nothing readable.
LEMMA SeekOwn ==
  ASSUME Inv, NoLeftovers, NEW end \in 0 .. MaxFileSize, NEW dirt \in Dirt
  PROVE  Own(Grow(Current, end, dirt))
<1> DEFINE q == Grow(Current, end, dirt)
<1>1. /\ img \in Image /\ Current = img /\ SoundUnder(img, nonce)
      /\ dirt \in Image
  BY CurrentIsImg, CurrentFacts DEF Inv, TypeOK, ImagesSound
<1>2. /\ q \in Image
      /\ HasHeader(img) => q.hdr = img.hdr
  BY SeekFacts
<1>3. \/ q.hdr.nonce \in {0, img.hdr.nonce}
      \/ \E a \in released : a.hdr.nonce = q.hdr.nonce
  BY SeekHeader
<1>4. img.size >= HeaderSize =>
        \A k \in Nat : Opens(q, k) =>
          \/ Opens(img, k) /\ q.blk[Slot(k)] = img.blk[Slot(k)]
          \/ dirt.blk[Slot(k)].nonce = img.hdr.nonce /\ img.hdr.nonce # 0
  BY <1>1, GrowOpens
<1> HIDE DEF q
<1>5. ASSUME \A a \in released : a.hdr.nonce # q.hdr.nonce, NEW i \in Nat,
             Content(q, i) # Lost
      PROVE  Content(q, i) = Content(img, i)
  <2> DEFINE k == BlockIdx(i)
  <2>1. HasHeader(q) /\ Opens(q, k) /\ k \in Nat /\ Slot(k) \in Slots
    BY <1>2, <1>5, ContentIs, BlockTypes, SlotTypes
  <2>2. q.hdr.nonce # 0 /\ q.hdr.nonce = img.hdr.nonce
    BY <1>2, <1>3, <1>5, <2>1, HeaderParses
  <2>3. img.size >= HeaderSize
    BY <1>1, <2>2, LayoutAssumption DEF SoundUnder, Image, LayoutAssumption
  <2>4. HasHeader(img)
    BY <1>1, <2>2, <2>3, HeaderParses
  <2>5. dirt.blk[Slot(k)].nonce # img.hdr.nonce
    BY <1>5, <2>1, <2>2, DirtIs DEF NoLeftovers
  <2>6. Opens(img, k) /\ q.blk[Slot(k)] = img.blk[Slot(k)]
    BY <1>4, <2>1, <2>3, <2>5
  <2> QED BY <2>1, <2>4, <2>6 DEF Content, ByteAt
<1>6. Own(q)
  BY <1>5 DEF Own
<1> QED BY <1>6 DEF q

\* Under a new header nothing can be read.
LEMMA NewHeaderOwn ==
  ASSUME NEW p \in Image, NEW m \in Nat, SoundUnder(p, m), NEW i \in Nat
  PROVE  Content(WithNewHeader(p, m + 1), i) = Lost
<1> DEFINE h == WithNewHeader(p, m + 1)
           k == BlockIdx(i)
<1>1. h \in Image /\ h.hdr.nonce = m + 1 /\ h.blk = p.blk
  BY NewHeaderSound
<1>2. Slot(k) \in Slots
  BY BlockTypes, SlotTypes
<1>3. p.blk[Slot(k)].nonce \in Nat /\ p.blk[Slot(k)].nonce <= m
  BY <1>2 DEF SoundUnder, Image, Block
<1> HIDE DEF h
<1>4. ~Opens(h, k)
  BY <1>1, <1>3 DEF Opens
<1>5. Content(h, i) = Lost
  BY <1>1, <1>4, ContentIs
<1> QED BY <1>5 DEF h
-----------------------------------------------------------------------------
(* Writes.                                                                 *)

\* The blocks of a write have gone into p, which the handler has made of the
\* file, and the answer says whether all of them did.
Wrote(p, m, off, len, v, cap) ==
  /\ p \in Image /\ SoundUnder(p, m) /\ p.size <= cap /\ HasHeader(p)
  /\ Carries(p)
  /\ NoLeftovers => Own(p)
  /\ \/ p.hdr.nonce \in {0, img.hdr.nonce, nonce + 1}
     \/ \E a \in released : a.hdr.nonce = p.hdr.nonce
  /\ img' = WriteBlocks(p, off, len, v, cap)
  /\ reply'.ret = IF Succeeds(off, len, cap) THEN "OK" ELSE "EIO"
  /\ reply'.n = IF Succeeds(off, len, cap) THEN len ELSE 0
  /\ reply'.data = <<>>
  /\ ~HasHeader(img) /\ ~ReuseDirty =>
       p.hdr.lsize = 0 /\ Parse(img, TRUE) = "FR_NO_HEADER"

\* The ways out of fff_write: no file, no header, or the write loop.
LEMMA WriteWays ==
  ASSUME Inv, NEW off \in Offsets, NEW len \in Lengths, NEW v \in Values,
         fff_write(off, len, v)
  PROVE  /\ reply'.req = Request("write", off, len, v)
         /\ released' = released
         /\ \/ /\ OpenFails(Request("write", off, len, v))
               /\ ~exists /\ reply'.ret \in {"ENOENT", "EACCES"} /\ img' = img
            \/ /\ exists' = TRUE
               /\ reply'.ret = "EIO" /\ reply'.n = 0 /\ reply'.data = <<>>
               /\ ~HasHeader(img) /\ ~HasHeader(img')
               /\ Parse(img, TRUE) = "FR_BAD_HEADER" => Parse(img', TRUE) = "FR_BAD_HEADER"
               /\ \/ img'.hdr.nonce \in {0, img.hdr.nonce}
                  \/ \E a \in released : a.hdr.nonce = img'.hdr.nonce
            \/ /\ exists' = TRUE
               /\ \E p \in Image, m \in Nat, cap \in Nat : Wrote(p, m, off, len, v, cap)
<1> DEFINE req == Request("write", off, len, v)
<1>1. off \in Nat /\ len \in Nat \ {0} /\ v \in Byte
  BY FileAssumption, NoData DEF FileAssumption
<1>2. CASE OpenFails(req)
  <2>1. PICK ret \in {"ENOENT", "EACCES"} : reply' = Answer(req, ret, 0, <<>>)
    BY <1>2 DEF OpenFails, Failed
  <2>2. ~exists /\ img' = img /\ released' = released
    BY <1>2 DEF OpenFails
  <2>3. reply'.req = req /\ reply'.ret = ret
    BY <2>1 DEF Answer
  <2> QED BY <1>2, <2>2, <2>3
<1>3. CASE ~OpenFails(req)
  <2> DEFINE ret(cap) == IF Succeeds(off, len, cap) THEN "OK" ELSE "EIO"
             Says(r, n) == /\ reply'.req = req /\ reply'.ret = r
                           /\ reply'.n = n /\ reply'.data = <<>>
             num(cap) == IF Succeeds(off, len, cap) THEN len ELSE 0
  <2>1. PICK cap \in Capacities, dirt \in Dirt :
          LET q == Grow(Current, LseekTo(Current, SeekPos(off), TRUE, cap), dirt)
          IN  /\ exists' = TRUE /\ Current.size <= cap /\ released' = released
              /\ \/ /\ Parse(q, TRUE) \in {"FR_BAD_HEADER", "FR_NO_HEADER"}
                    /\ img' = q /\ Failed(req, "EIO")
                 \/ /\ Parse(q, TRUE) = "FR_NO_HEADER"
                    /\ cap > 0
                    /\ img' = WriteBlocks(WithNewHeader(q, nonce + 1), off, len, v, cap)
                    /\ IF Succeeds(off, len, cap) THEN reply' = Answer(req, "OK", len, <<>>)
                                                  ELSE Failed(req, "EIO")
                 \/ /\ Parse(q, TRUE) = "FR_OK"
                    /\ img' = WriteBlocks(q, off, len, v, cap)
                    /\ IF Succeeds(off, len, cap) THEN reply' = Answer(req, "OK", len, <<>>)
                                                  ELSE Failed(req, "EIO")
    BY <1>3 DEF fff_write, WriteModeReads
  <2> HIDE DEF ret, num, Says
  <2> DEFINE end == LseekTo(Current, SeekPos(off), TRUE, cap)
             q   == Grow(Current, end, dirt)
  <2>2. /\ cap \in Nat /\ (cap > 0 => cap >= SectorSize)
        /\ Current \in Image /\ Current.size \in 0 .. MaxFileSize
        /\ SeekPos(off) \in Nat /\ nonce \in Nat
    BY <1>1, CurrentFacts, BlockTypes, FileAssumption, LayoutAssumption
    DEF FileAssumption, LayoutAssumption, Image
  <2>3. end \in 0 .. MaxFileSize /\ end <= cap
    BY <2>1, <2>2, SeekType
  <2>4. MaxOf(Current.size, end) <= cap
    BY <2>1, <2>3 DEF MaxOf
  <2>5. \/ /\ Parse(q, TRUE) \in {"FR_BAD_HEADER", "FR_NO_HEADER"}
           /\ img' = q /\ Says("EIO", 0)
        \/ /\ Parse(q, TRUE) = "FR_NO_HEADER"
           /\ cap > 0 /\ Says(ret(cap), num(cap))
           /\ img' = WriteBlocks(WithNewHeader(q, nonce + 1), off, len, v, cap)
        \/ /\ Parse(q, TRUE) = "FR_OK" /\ Says(ret(cap), num(cap))
           /\ img' = WriteBlocks(q, off, len, v, cap)
    <3>1. \/ /\ Parse(q, TRUE) \in {"FR_BAD_HEADER", "FR_NO_HEADER"}
             /\ img' = q /\ Failed(req, "EIO")
          \/ /\ Parse(q, TRUE) = "FR_NO_HEADER"
             /\ cap > 0
             /\ img' = WriteBlocks(WithNewHeader(q, nonce + 1), off, len, v, cap)
             /\ IF Succeeds(off, len, cap) THEN reply' = Answer(req, "OK", len, <<>>)
                                           ELSE Failed(req, "EIO")
          \/ /\ Parse(q, TRUE) = "FR_OK"
             /\ img' = WriteBlocks(q, off, len, v, cap)
             /\ IF Succeeds(off, len, cap) THEN reply' = Answer(req, "OK", len, <<>>)
                                           ELSE Failed(req, "EIO")
      BY <2>1
    <3> HIDE DEF q, end
    <3>2. Failed(req, "EIO") => Says("EIO", 0)
      BY DEF Failed, Answer, Says
    <3>3. reply' = Answer(req, "OK", len, <<>>) => Says("OK", len)
      BY DEF Answer, Says
    <3> HIDE DEF req
    <3>4. (IF Succeeds(off, len, cap) THEN reply' = Answer(req, "OK", len, <<>>)
                                     ELSE Failed(req, "EIO"))
            => Says(ret(cap), num(cap))
      BY <3>2, <3>3 DEF ret, num
    <3> QED BY <3>1, <3>2, <3>4
  <2> HIDE DEF end
  <2>6. /\ q \in Image /\ SoundUnder(q, nonce) /\ q.size <= cap
        /\ HasHeader(img) => HasHeader(q) /\ q.hdr = img.hdr
    BY <2>3, <2>4, SeekFacts
  <2>7. Carries(q) /\ (NoLeftovers => Own(q))
    BY <2>3, SeekCarries, SeekOwn
  <2>8. \/ q.hdr.nonce \in {0, img.hdr.nonce}
        \/ \E a \in released : a.hdr.nonce = q.hdr.nonce
    BY <2>3, SeekHeader
  <2>9. /\ Parse(img, TRUE) = "FR_BAD_HEADER" => Parse(q, TRUE) # "FR_NO_HEADER"
        /\ ~ReuseDirty /\ HasHeader(q) => HasHeader(img)
    BY <2>3, SeekParse
  <2> HIDE DEF q
  <2>10. CASE /\ Parse(q, TRUE) \in {"FR_BAD_HEADER", "FR_NO_HEADER"}
             /\ img' = q /\ Says("EIO", 0)
    <3>1. ~HasHeader(q)
      BY <2>10 DEF HasHeader
    <3>2. ~HasHeader(img) /\ ~HasHeader(img')
      BY <2>6, <2>10, <3>1 DEF HasHeader, Parse
    <3>3. Parse(img', TRUE) = Parse(q, TRUE)
      BY <2>10 DEF Parse
    <3> QED BY <2>1, <2>8, <2>9, <2>10, <3>2, <3>3 DEF Says
  <2>11. CASE /\ Parse(q, TRUE) = "FR_NO_HEADER"
              /\ cap > 0 /\ Says(ret(cap), num(cap))
              /\ img' = WriteBlocks(WithNewHeader(q, nonce + 1), off, len, v, cap)
    <3> DEFINE h == WithNewHeader(q, nonce + 1)
    <3>1. /\ h \in Image /\ SoundUnder(h, nonce + 1)
          /\ h.size = MaxOf(q.size, HeaderSize) /\ h.hdr.nonce = nonce + 1
      BY <2>2, <2>6, NewHeaderSound
    <3>2. \A i \in Nat : Content(h, i) = Lost
      BY <2>2, <2>6, NewHeaderOwn
    <3> HIDE DEF h
    <3>3. h.size <= cap /\ h.size >= HeaderSize /\ nonce + 1 \in Nat
      BY <2>2, <2>6, <2>11, <3>1, LayoutAssumption DEF MaxOf, Image, LayoutAssumption
    <3>4. HasHeader(h)
      BY <2>2, <3>1, <3>3, HeaderParses
    <3>5. ~HasHeader(q)
      BY <2>11 DEF HasHeader
    <3>6. ~HasHeader(img)
      BY <2>6, <3>5
    <3>7. Carries(h)
      BY <3>6 DEF Carries, Content
    <3>8. Own(h)
      BY <3>2 DEF Own
    <3>9. h.hdr.lsize = 0
      BY DEF h, WithNewHeader
    <3>10. Parse(img, TRUE) = "FR_NO_HEADER"
      BY <2>9, <2>11, <3>6 DEF Parse, HasHeader
    <3>11. img' = WriteBlocks(h, off, len, v, cap) /\ Says(ret(cap), num(cap))
      BY <2>11 DEF h
    <3>12. Wrote(h, nonce + 1, off, len, v, cap)
      BY <3>1, <3>3, <3>4, <3>7, <3>8, <3>9, <3>10, <3>11 DEF Wrote, Says, ret, num
    <3> QED BY <2>1, <2>2, <3>1, <3>3, <3>11, <3>12 DEF Says
  <2>12. CASE /\ Parse(q, TRUE) = "FR_OK" /\ Says(ret(cap), num(cap))
              /\ img' = WriteBlocks(q, off, len, v, cap)
    <3>1. HasHeader(q)
      BY <2>12 DEF HasHeader
    <3>2. Wrote(q, nonce, off, len, v, cap)
      BY <2>6, <2>7, <2>8, <2>9, <2>12, <3>1 DEF Wrote, Says, ret, num
    <3> QED BY <2>1, <2>2, <2>6, <2>12, <3>2 DEF Says
  <2> QED BY <2>5, <2>10, <2>11, <2>12
<1> QED BY <1>2, <1>3

\* Only fff_write answers a write.
LEMMA OnlyWrites ==
  ASSUME Next, reply'.req.op = "write"
  PROVE  \E off \in Offsets, len \in Lengths, v \in Values : fff_write(off, len, v)
<1>1. fff_open => reply'.req.op = "open"
  BY DEF fff_open, OpenFails, Failed, Answer, Request
<1>2. \A excl, trunc \in BOOLEAN : fff_create(excl, trunc) => reply'.req.op = "create"
  BY DEF fff_create, Failed, Answer, Request
<1>3. \A off \in Offsets, len \in Lengths, writing \in BOOLEAN :
        fff_read(off, len, writing) => reply'.req.op = "read"
  <2> SUFFICES ASSUME NEW off \in Offsets, NEW len \in Lengths, NEW writing \in BOOLEAN,
                      fff_read(off, len, writing)
               PROVE  reply'.req.op = "read"
    OBVIOUS
  <2> DEFINE req == Request("read", off, len, 0)
  <2>1. \/ \E ret \in {"ENOENT", "EACCES"} : Failed(req, ret)
        \/ Failed(req, "EIO")
        \/ \E n, data : reply' = Answer(req, "OK", n, data)
    BY DEF fff_read, OpenFails
  <2>2. reply'.req = req
    BY <2>1 DEF Failed, Answer
  <2> QED BY <2>2 DEF Request
<1>4. \A size \in Sizes : fff_truncate(size) => reply'.req.op = "truncate"
  <2> SUFFICES ASSUME NEW size \in Sizes, fff_truncate(size)
               PROVE  reply'.req.op = "truncate"
    OBVIOUS
  <2> DEFINE req == Request("truncate", size, 0, 0)
  <2>1. \E ret, n, data : reply' = Answer(req, ret, n, data)
    BY DEF fff_truncate, NotFound, Failed
  <2>2. reply'.req = req
    BY <2>1 DEF Answer
  <2> QED BY <2>2 DEF Request
<1>5. fff_getattr => reply'.req.op = "getattr"
  BY DEF fff_getattr, NotFound, Failed, Answer, Request
<1>6. fff_unlink => reply'.req.op = "unlink"
  BY DEF fff_unlink, NotFound, Failed, Answer, Request
<1> QED BY <1>1, <1>2, <1>3, <1>4, <1>5, <1>6 DEF Next

\* The write loop keeps the nonce of the header it began with.
LEMMA WroteNonce ==
  ASSUME NEW p \in Image, NEW m \in Nat, SoundUnder(p, m),
         NEW off \in Nat, NEW len \in Nat \ {0}, NEW v \in Values, NEW cap \in Nat,
         p.size <= cap, HasHeader(p)
  PROVE  WriteBlocks(p, off, len, v, cap).hdr.nonce = p.hdr.nonce
<1>1. p.size >= HeaderSize
  BY HeaderParses
<1> QED BY <1>1, WriteBlocksSound

\* A write whose blocks all fit reads back, and what could be read outside its
\* range still reads the same.
LEMMA WroteLands ==
  ASSUME NEW p \in Image, NEW m \in Nat, NEW off \in Nat, NEW len \in Nat \ {0},
         NEW v \in Values, NEW cap \in Nat, Wrote(p, m, off, len, v, cap),
         Succeeds(off, len, cap)
  PROVE  /\ \A i \in off .. off + len - 1 : Content(img', i) = v
         /\ InLayout(off, len) =>
              \A i \in Positions \ (off .. off + len - 1) :
                Content(img, i) # Lost => Content(img', i) = Content(img, i)
<1> DEFINE w == WriteBlocks(p, off, len, v, cap)
           ks == Done(off, len, cap)
<1>1. /\ img' = w
      /\ \A i \in Nat : Content(img, i) # Lost => Content(p, i) = Content(img, i)
      /\ SoundUnder(p, m) /\ p.size <= cap /\ HasHeader(p)
  BY DEF Wrote, Carries
<1>2. ASSUME NEW i \in Nat
      PROVE  \/ BlockIdx(i) \in ks /\ i \in off .. off + len - 1 /\ Content(w, i) = v
             \/ /\ BlockIdx(i) \in ks /\ i \notin off .. off + len - 1
                /\ Content(w, i) = IF Content(p, i) = Lost THEN Zero ELSE Content(p, i)
             \/ BlockIdx(i) \notin ks /\ Content(w, i) = Content(p, i)
             \/ /\ BlockIdx(i) \notin ks
                /\ \E j \in ks : Slot(j) = Slot(BlockIdx(i))
  BY <1>1, ContentAfterWrite
<1> HIDE DEF w
<1>3. ASSUME NEW i \in off .. off + len - 1 PROVE Content(w, i) = v
  <2>1. i \in Nat /\ BlockIdx(i) \in Blocks(off, len)
    BY BlocksOfBytes
  <2>2. BlockIdx(i) \in ks
    BY <2>1 DEF Succeeds
  <2> HIDE DEF ks
  <2> QED BY <1>2, <2>1, <2>2
<1>4. ASSUME InLayout(off, len), NEW i \in Positions, i \notin off .. off + len - 1,
             Content(img, i) # Lost
      PROVE  Content(w, i) = Content(img, i)
  <2>1. i \in Nat
    BY LayoutTypes DEF Positions
  <2>2. \A j \in ks : Slot(j) = Slot(BlockIdx(i)) => j = BlockIdx(i)
    BY <1>4, NoOtherBlock
  <2>3. Content(p, i) = Content(img, i)
    BY <1>1, <1>4, <2>1
  <2> HIDE DEF ks
  <2> QED BY <1>2, <1>4, <2>1, <2>2, <2>3
<1> QED BY <1>1, <1>3, <1>4

\* A write that stops loses nothing outside its range, and inside it leaves the
\* old byte or the new one.
LEMMA WroteStopped ==
  ASSUME NEW p \in Image, NEW m \in Nat, NEW off \in Nat, NEW len \in Nat \ {0},
         NEW v \in Values, NEW cap \in Nat, Wrote(p, m, off, len, v, cap),
         ~Succeeds(off, len, cap), InLayout(off, len), HasHeader(img)
  PROVE  /\ HasHeader(img') /\ img'.hdr = img.hdr
         /\ \A i \in Positions :
              \/ Content(img, i) = Lost
              \/ Content(img', i) = Content(img, i)
              \/ i \in off .. off + len - 1 /\ Content(img', i) = v
<1> DEFINE w == WriteBlocks(p, off, len, v, cap)
           ks == Done(off, len, cap)
<1>1. /\ img' = w
      /\ \A i \in Nat : Content(img, i) # Lost => Content(p, i) = Content(img, i)
      /\ p.hdr = img.hdr
      /\ SoundUnder(p, m) /\ p.size <= cap /\ HasHeader(p)
  BY DEF Wrote, Carries
<1>2. HasHeader(w) /\ w.hdr = p.hdr
  <2>1. SoundUnder(p, m) /\ p.size <= cap /\ HasHeader(p)
    BY <1>1
  <2>2. /\ HasHeader(w)
        /\ ~Succeeds(off, len, cap) => w.hdr = p.hdr
        /\ WrittenFrom(p, w, off, len, v, ks)
    BY <2>1, WriteBlocksDo
  <2> QED BY <2>2
<1>3. ASSUME NEW i \in Nat
      PROVE  \/ i \in off .. off + len - 1 /\ Content(w, i) = v
             \/ Content(w, i) = IF Content(p, i) = Lost THEN Zero ELSE Content(p, i)
             \/ Content(w, i) = Content(p, i)
             \/ /\ BlockIdx(i) \notin ks
                /\ \E j \in ks : Slot(j) = Slot(BlockIdx(i))
  BY <1>1, ContentAfterWrite
<1> HIDE DEF w
<1>4. ASSUME NEW i \in Positions, Content(img, i) # Lost
      PROVE  \/ Content(w, i) = Content(img, i)
             \/ i \in off .. off + len - 1 /\ Content(w, i) = v
  <2>1. i \in Nat
    BY LayoutTypes DEF Positions
  <2>2. \A j \in ks : Slot(j) = Slot(BlockIdx(i)) => j = BlockIdx(i)
    BY NoOtherBlock
  <2>3. Content(p, i) = Content(img, i)
    BY <1>1, <1>4, <2>1
  <2> HIDE DEF ks
  <2> QED BY <1>3, <1>4, <2>1, <2>2, <2>3
<1> QED BY <1>1, <1>2, <1>4

\* Where the bytes after a write come from.
LEMMA WroteOwn ==
  ASSUME NEW p \in Image, NEW m \in Nat, NEW off \in Nat, NEW len \in Nat \ {0},
         NEW v \in Values, NEW cap \in Nat, Wrote(p, m, off, len, v, cap), NoLeftovers,
         \A a \in released : a.hdr.nonce # img'.hdr.nonce, NEW i \in Nat
  PROVE  Content(img', i) \in {Content(img, i), Lost, Zero, v}
<1> DEFINE w == WriteBlocks(p, off, len, v, cap)
<1>1. /\ img' = w /\ Own(p)
      /\ SoundUnder(p, m) /\ p.size <= cap /\ HasHeader(p)
  BY DEF Wrote
<1>2. w.hdr.nonce = p.hdr.nonce
  BY <1>1, WroteNonce
<1>3. Content(p, i) \in {Content(img, i), Lost}
  BY <1>1, <1>2 DEF Own
<1>4. \/ Content(w, i) = v
      \/ Content(w, i) = IF Content(p, i) = Lost THEN Zero ELSE Content(p, i)
      \/ Content(w, i) = Content(p, i)
      \/ Content(w, i) = Lost
  <2>1. \/ BlockIdx(i) \in Done(off, len, cap) /\ i \in off .. off + len - 1
           /\ Content(w, i) = v
        \/ /\ BlockIdx(i) \in Done(off, len, cap) /\ i \notin off .. off + len - 1
           /\ Content(w, i) = IF Content(p, i) = Lost THEN Zero ELSE Content(p, i)
        \/ BlockIdx(i) \notin Done(off, len, cap) /\ Content(w, i) = Content(p, i)
        \/ /\ BlockIdx(i) \notin Done(off, len, cap)
           /\ \E j \in Done(off, len, cap) : Slot(j) = Slot(BlockIdx(i))
           /\ Content(w, i) = Lost
    BY <1>1, ContentAfterWrite
  <2> HIDE DEF w
  <2> QED BY <2>1
<1> HIDE DEF w
<1> QED BY <1>1, <1>3, <1>4
-----------------------------------------------------------------------------
(* Leftovers.                                                              *)

\* To keep leftovers out a step keeps the header and what is released, draws a
\* new nonce, leaves no header, or takes one out of released clusters.
LEMMA LeftoverStep ==
  ASSUME Inv, NoLeftovers,
         \/ img'.hdr.nonce = 0
         \/ img'.hdr.nonce = img.hdr.nonce /\ released' = released
         \/ \E a \in released' : a.hdr.nonce = img'.hdr.nonce
         \/ /\ img'.hdr.nonce = nonce + 1
            /\ \A a \in released', s \in Slots :
                 a.blk[s].nonce \in Nat /\ a.blk[s].nonce <= nonce
  PROVE  NoLeftovers'
<1>1. nonce \in Nat
  BY CurrentFacts
<1> QED BY <1>1 DEF NoLeftovers

\* Released images hold no nonce that was not drawn.
LEMMA ReleasedBelow ==
  ASSUME Inv
  PROVE  \A a \in released, s \in Slots : a.blk[s].nonce \in Nat /\ a.blk[s].nonce <= nonce
BY DEF Inv, TypeOK, ImagesSound, SoundUnder, Image, Block

\* No step lets a block of the file's nonce lie in released clusters.
LEMMA NextNoLeftovers == Inv /\ NoLeftovers /\ [Next]_vars => NoLeftovers'
<1> SUFFICES ASSUME Inv, NoLeftovers, [Next]_vars PROVE NoLeftovers'
  OBVIOUS
<1>1. CASE img' = img /\ released' = released
  BY <1>1, LeftoverStep
<1>2. CASE fff_open
  <2>1. img' = img /\ released' = released
    BY <1>2, CurrentIsImg DEF fff_open, OpenFails
  <2> QED BY <1>1, <2>1
<1>3. ASSUME NEW excl \in BOOLEAN, NEW trunc \in BOOLEAN, fff_create(excl, trunc)
      PROVE  NoLeftovers'
  <2>1. \/ img' = img /\ released' = released
        \/ img'.hdr.nonce = 0
    BY <1>3 DEF fff_create, EmptyFile, JunkImage, JunkHeader
  <2> QED BY <2>1, LeftoverStep
<1>4. ASSUME NEW off \in Offsets, NEW len \in Lengths, NEW writing \in BOOLEAN,
             fff_read(off, len, writing)
      PROVE  NoLeftovers'
  <2>1. CASE OpenFails(Request("read", off, len, 0))
    BY <1>1, <2>1 DEF OpenFails
  <2>2. CASE ~OpenFails(Request("read", off, len, 0))
    <3>1. PICK end \in EndsAfterSeek(Current, SeekPos(off), writing), dirt \in Dirt :
            img' = Grow(Current, end, dirt) /\ released' = released
      BY <1>4, <2>2 DEF fff_read
    <3>2. end \in 0 .. MaxFileSize
      BY EndType
    <3> QED BY <3>1, <3>2, SeekHeader, LeftoverStep
  <2> QED BY <2>1, <2>2
<1>5. ASSUME NEW off \in Offsets, NEW len \in Lengths, NEW v \in Values,
             fff_write(off, len, v)
      PROVE  NoLeftovers'
  <2>1. off \in Nat /\ len \in Nat \ {0}
    BY FileAssumption DEF FileAssumption
  <2>2. ASSUME NEW p \in Image, NEW m \in Nat, NEW cap \in Nat,
               Wrote(p, m, off, len, v, cap)
        PROVE  \/ img'.hdr.nonce \in {0, img.hdr.nonce, nonce + 1}
               \/ \E a \in released : a.hdr.nonce = img'.hdr.nonce
    <3>1. /\ img' = WriteBlocks(p, off, len, v, cap)
          /\ \/ p.hdr.nonce \in {0, img.hdr.nonce, nonce + 1}
             \/ \E a \in released : a.hdr.nonce = p.hdr.nonce
      BY <2>2 DEF Wrote
    <3>2. SoundUnder(p, m) /\ p.size <= cap /\ HasHeader(p)
      BY <2>2 DEF Wrote
    <3>3. WriteBlocks(p, off, len, v, cap).hdr.nonce = p.hdr.nonce
      BY <2>1, <3>2, WroteNonce
    <3> QED BY <3>1, <3>3
  <2>3. /\ released' = released
        /\ \/ img'.hdr.nonce \in {0, img.hdr.nonce, nonce + 1}
           \/ \E a \in released : a.hdr.nonce = img'.hdr.nonce
    BY <1>5, <2>2, WriteWays
  <2> QED BY <2>3, ReleasedBelow, LeftoverStep
<1>6. ASSUME NEW size \in Sizes, fff_truncate(size) PROVE NoLeftovers'
  <2>1. CASE img' = img /\ released' = released
    BY <1>1, <2>1
  <2>2. CASE ~(img' = img /\ released' = released)
    <3> DEFINE old == [img EXCEPT !.hdr = JunkHeader]
    <3>1. /\ img' = TruncateImage(img, size, nonce + 1)
          /\ released' = Remember(old)
      BY <1>6, <2>2 DEF fff_truncate, NotFound
    <3>2. img \in Image /\ SoundUnder(img, nonce) /\ size \in Nat /\ nonce \in Nat
      BY CurrentFacts, FileAssumption DEF Inv, TypeOK, ImagesSound, FileAssumption
    <3>3. img'.hdr.nonce = nonce + 1
      <4>1. img'.hdr = [nonce |-> nonce + 1, lsize |-> size]
        BY <3>1, <3>2, TruncateNonce
      <4> QED BY <4>1
    <3>4. old.blk = img.blk
      BY <3>2 DEF Image
    <3> HIDE DEF old
    <3>5. \A a \in released', s \in Slots : a.blk[s].nonce \in Nat /\ a.blk[s].nonce <= nonce
      BY <3>1, <3>2, <3>4, ReleasedBelow DEF Remember, SoundUnder, Image, Block
    <3> QED BY <3>3, <3>5, LeftoverStep
  <2> QED BY <2>1, <2>2
<1>7. CASE fff_getattr
  BY <1>1, <1>7 DEF fff_getattr, NotFound
<1>8. CASE fff_unlink
  <2>1. \/ img' = img /\ released' = released
        \/ img'.hdr.nonce = 0
    BY <1>8 DEF fff_unlink, NotFound, EmptyFile, JunkImage, JunkHeader
  <2> QED BY <2>1, LeftoverStep
<1> QED BY <1>1, <1>2, <1>3, <1>4, <1>5, <1>6, <1>7, <1>8 DEF Next, vars

\* The invariant the properties about bytes rest on.
LEMMA BytesInv == Spec => [](Inv /\ NoLeftovers)
<1>1. Init => NoLeftovers
  BY DEF Init, NoLeftovers
<1> QED BY <1>1, InitInv, NextInv, NextNoLeftovers, PTL DEF Spec
-----------------------------------------------------------------------------
(* The properties about bytes.                                             *)

\* Every request ends inside the layout.  Blocks past it land on the first ones
\* (theorem BlockOnSlot), so without this a write can destroy a far away byte.
RequestsInLayout == \A off \in Offsets, len \in Lengths : InLayout(off, len)

\* What fff_write answers and leaves, when it is it that answers.
LEMMA AWrite ==
  ASSUME Inv, Next, reply'.req.op = "write", reply'.ret \in {"OK", "EIO"}
  PROVE  \E off \in Offsets, len \in Lengths, v \in Values :
           /\ off \in Nat /\ len \in Nat \ {0}
           /\ Chunk(reply'.req) = off .. off + len - 1 /\ reply'.req.val = v
           /\ released' = released
           /\ \/ ~HasHeader(img) /\ ~HasHeader(img') /\ reply'.ret = "EIO"
              \/ \E p \in Image, m \in Nat, cap \in Nat : Wrote(p, m, off, len, v, cap)
<1>1. PICK off \in Offsets, len \in Lengths, v \in Values : fff_write(off, len, v)
  BY OnlyWrites
<1>2. off \in Nat /\ len \in Nat \ {0}
  BY FileAssumption DEF FileAssumption
<1>3. /\ reply'.req = Request("write", off, len, v)
      /\ released' = released
      /\ \/ ~HasHeader(img) /\ ~HasHeader(img') /\ reply'.ret = "EIO"
         \/ \E p \in Image, m \in Nat, cap \in Nat : Wrote(p, m, off, len, v, cap)
  BY <1>1, WriteWays
<1>4. Chunk(reply'.req) = off .. off + len - 1 /\ reply'.req.val = v
  BY <1>3 DEF Request, Chunk
<1> QED BY <1>2, <1>3, <1>4

\* After a successful write its bytes read back and no other byte that could be
\* read has changed, for every layout and every set of requests inside it.
THEOREM WritesLand ==
  ASSUME RequestsInLayout
  PROVE  Spec => WriteLands
<1> DEFINE Lands ==
      WriteAnswered("OK") =>
        /\ \A i \in Chunk(reply'.req) : Content(img', i) = reply'.req.val
        /\ \A i \in Positions \ Chunk(reply'.req) :
             Content(img, i) # Lost => Content(img', i) = Content(img, i)
<1>1. ASSUME Inv, Next, WriteAnswered("OK") PROVE Lands
  <2>1. reply'.req.op = "write" /\ reply'.ret = "OK"
    BY <1>1 DEF WriteAnswered
  <2>2. PICK off \in Offsets, len \in Lengths, v \in Values :
          /\ off \in Nat /\ len \in Nat \ {0}
          /\ Chunk(reply'.req) = off .. off + len - 1 /\ reply'.req.val = v
          /\ \/ reply'.ret = "EIO"
             \/ \E p \in Image, m \in Nat, cap \in Nat : Wrote(p, m, off, len, v, cap)
    BY <1>1, <2>1, AWrite
  <2>3. PICK p \in Image, m \in Nat, cap \in Nat : Wrote(p, m, off, len, v, cap)
    BY <2>1, <2>2
  <2>4. Succeeds(off, len, cap)
    BY <2>1, <2>3 DEF Wrote
  <2>5. InLayout(off, len)
    BY DEF RequestsInLayout
  <2>6. /\ \A i \in off .. off + len - 1 : Content(img', i) = v
        /\ \A i \in Positions \ (off .. off + len - 1) :
             Content(img, i) # Lost => Content(img', i) = Content(img, i)
    BY <2>2, <2>3, <2>4, <2>5, WroteLands
  <2> QED BY <2>2, <2>6
<1>2. Inv /\ [Next]_vars => [Lands]_vars
  BY <1>1
<1> QED BY <1>2, InitInv, NextInv, PTL DEF Spec, WriteLands

\* A write that stops at a full volume or at the size limit keeps the header,
\* loses nothing outside its range and leaves old or new bytes inside it.
THEOREM FailedWritesHarmless ==
  ASSUME RequestsInLayout
  PROVE  Spec => FailedWriteHarmless
<1> DEFINE Harmless ==
      WriteAnswered("EIO") /\ HasHeader(img) =>
        /\ HasHeader(img') /\ img'.hdr = img.hdr
        /\ \A i \in Positions :
             \/ Content(img, i) = Lost
             \/ Content(img', i) = Content(img, i)
             \/ i \in Chunk(reply'.req) /\ Content(img', i) = reply'.req.val
<1>1. ASSUME Inv, Next, WriteAnswered("EIO"), HasHeader(img) PROVE Harmless
  <2>1. reply'.req.op = "write" /\ reply'.ret = "EIO"
    BY <1>1 DEF WriteAnswered
  <2>2. PICK off \in Offsets, len \in Lengths, v \in Values :
          /\ off \in Nat /\ len \in Nat \ {0}
          /\ Chunk(reply'.req) = off .. off + len - 1 /\ reply'.req.val = v
          /\ \/ ~HasHeader(img)
             \/ \E p \in Image, m \in Nat, cap \in Nat : Wrote(p, m, off, len, v, cap)
    BY <1>1, <2>1, AWrite
  <2>3. PICK p \in Image, m \in Nat, cap \in Nat : Wrote(p, m, off, len, v, cap)
    BY <1>1, <2>2
  <2>4. ~Succeeds(off, len, cap)
    BY <2>1, <2>3 DEF Wrote
  <2>5. InLayout(off, len)
    BY DEF RequestsInLayout
  <2>6. /\ HasHeader(img') /\ img'.hdr = img.hdr
        /\ \A i \in Positions :
             \/ Content(img, i) = Lost
             \/ Content(img', i) = Content(img, i)
             \/ i \in off .. off + len - 1 /\ Content(img', i) = v
    BY <1>1, <2>2, <2>3, <2>4, <2>5, WroteStopped
  <2> QED BY <2>2, <2>6
<1>2. Inv /\ [Next]_vars => [Harmless]_vars
  BY <1>1
<1> QED BY <1>2, InitInv, NextInv, PTL DEF Spec, FailedWriteHarmless

\* Even on reused clusters no step makes a byte readable that was not written
\* to the file, unless the file's header came out of those clusters: this needs
\* no bound on the requests.
THEOREM BytesAreOwn == Spec => OwnBytesOnly
<1> DEFINE Guard == /\ exists /\ exists' /\ HasHeader(img')
                    /\ \A a \in released : a.hdr.nonce # img'.hdr.nonce
           Mine  == \A i \in Positions :
                      Content(img', i) \in {Content(img, i), Lost, Zero, reply'.req.val}
<1>1. ASSUME Inv, NoLeftovers, Next, Guard PROVE Mine
  <2>1. Positions \subseteq Nat /\ Current = img
    BY <1>1, LayoutTypes, CurrentIsImg DEF Positions
  <2>2. CASE img' = img
    BY <2>2
  <2>3. CASE \E excl, trunc \in BOOLEAN : fff_create(excl, trunc)
    <3>1. img' = img \/ img' = EmptyFile
      BY <2>3 DEF fff_create
    <3>2. ~HasHeader(EmptyFile)
      BY LayoutAssumption DEF HasHeader, Parse, EmptyFile, JunkImage, LayoutAssumption
    <3> QED BY <1>1, <2>2, <3>1, <3>2
  <2>4. ASSUME NEW off \in Offsets, NEW len \in Lengths, NEW writing \in BOOLEAN,
               fff_read(off, len, writing)
        PROVE  Mine
    <3>1. CASE OpenFails(Request("read", off, len, 0))
      BY <2>2, <3>1 DEF OpenFails
    <3>2. CASE ~OpenFails(Request("read", off, len, 0))
      <4>1. PICK end \in EndsAfterSeek(Current, SeekPos(off), writing), dirt \in Dirt :
              img' = Grow(Current, end, dirt)
        BY <2>4, <3>2 DEF fff_read
      <4>2. end \in 0 .. MaxFileSize
        BY <1>1, EndType
      <4>3. Own(img')
        BY <1>1, <4>1, <4>2, SeekOwn
      <4> QED BY <1>1, <2>1, <4>3 DEF Own
    <3> QED BY <3>1, <3>2
  <2>5. ASSUME NEW off \in Offsets, NEW len \in Lengths, NEW v \in Values,
               fff_write(off, len, v)
        PROVE  Mine
    <3>1. off \in Nat /\ len \in Nat \ {0}
      BY FileAssumption DEF FileAssumption
    <3>2. /\ reply'.req.val = v
          /\ \/ img' = img
             \/ ~HasHeader(img')
             \/ \E p \in Image, m \in Nat, cap \in Nat : Wrote(p, m, off, len, v, cap)
      <4>1. /\ reply'.req = Request("write", off, len, v)
            /\ \/ img' = img
               \/ ~HasHeader(img')
               \/ \E p \in Image, m \in Nat, cap \in Nat : Wrote(p, m, off, len, v, cap)
        BY <1>1, <2>5, WriteWays
      <4> QED BY <4>1 DEF Request
    <3>3. ASSUME NEW p \in Image, NEW m \in Nat, NEW cap \in Nat,
                 Wrote(p, m, off, len, v, cap), NEW i \in Nat
          PROVE  Content(img', i) \in {Content(img, i), Lost, Zero, v}
      BY <1>1, <3>1, <3>3, WroteOwn
    <3> QED BY <1>1, <2>1, <2>2, <3>2, <3>3
  <2>6. ASSUME NEW size \in Sizes, fff_truncate(size) PROVE Mine
    <3>1. CASE ~(img' = img)
      <4>1. img' = TruncateImage(img, size, nonce + 1)
        BY <2>6, <3>1 DEF fff_truncate, NotFound
      <4>2. img \in Image /\ SoundUnder(img, nonce) /\ size \in Nat /\ nonce \in Nat
        BY <1>1, CurrentFacts, FileAssumption DEF Inv, TypeOK, ImagesSound, FileAssumption
      <4>3. \A s \in Slots : img'.blk[s].nonce = 0
        BY <4>1, <4>2, TruncateNonce
      <4>4. \A i \in Nat : Content(img', i) = Lost
        BY <4>3, BlockTypes, SlotTypes DEF Content, Opens
      <4> QED BY <2>1, <4>4
    <3> QED BY <2>2, <3>1
  <2>7. fff_open \/ fff_getattr => img' = img
    BY <2>1 DEF fff_open, fff_getattr, OpenFails, NotFound
  <2>8. fff_unlink => img' = img
    BY <1>1 DEF fff_unlink, NotFound
  <2> QED BY <1>1, <2>2, <2>3, <2>4, <2>5, <2>6, <2>7, <2>8 DEF Next
<1>2. Inv /\ NoLeftovers /\ [Next]_vars => [Guard => Mine]_vars
  BY <1>1
<1> QED BY <1>2, BytesInv, PTL DEF Spec, OwnBytesOnly
-----------------------------------------------------------------------------
(* The abstract file.                                                      *)

\* How the file looks to a client.
StatusOf(e, p) ==
  IF ~e THEN "absent"
  ELSE IF HasHeader(p) THEN "file"
  ELSE IF Parse(p, TRUE) = "FR_NO_HEADER" THEN "empty" ELSE "bad"

SizeOf(p) == IF HasHeader(p) THEN p.hdr.lsize ELSE 0

BytesOf(p) == [i \in Positions |-> Content(p, i)]

\* A file without a header has no content to show.
LEMMA NoContent ==
  ASSUME NEW p, ~HasHeader(p)
  PROVE  SizeOf(p) = 0 /\ BytesOf(p) = Stream!NoBytes
BY DEF SizeOf, BytesOf, Content, Stream!NoBytes, Lost, Stream!Lost

\* What the abstract file becomes.
LEMMA BecomesIs ==
  ASSUME NEW st, NEW n, NEW b, StatusOf(exists', img') = st, SizeOf(img') = n,
         BytesOf(img') = b
  PROVE  Stream!Becomes(st, n, b)
BY DEF Stream!Becomes, StatusOf, SizeOf, BytesOf

\* When the abstract file stays as it is.
LEMMA KeptIs ==
  ASSUME StatusOf(exists', img') = StatusOf(exists, img), SizeOf(img') = SizeOf(img),
         BytesOf(img') = BytesOf(img)
  PROVE  Stream!Kept
BY DEF Stream!Kept, StatusOf, SizeOf, BytesOf

\* A handler that finds no file does what the abstract file allows.
LEMMA AbsentIs ==
  ASSUME NEW req, NEW creating \in BOOLEAN,
         \/ NotFound(req)
         \/ creating /\ OpenFails(req)
  PROVE  reply'.req = req /\ Stream!Absent(creating)
<1>1. ~exists /\ exists' = exists /\ img' = img
  BY DEF NotFound, OpenFails
<1>2. Stream!Kept
  BY <1>1, KeptIs
<1>3. \E ret \in {"ENOENT", "EACCES"} :
        reply' = Answer(req, ret, 0, <<>>) /\ (ret = "EACCES" => creating)
  BY DEF NotFound, OpenFails, Failed
<1> QED BY <1>1, <1>2, <1>3 DEF Stream!Absent, Stream!Refused, Stream!Answered, Answer

\* The image of a file without content.
LEMMA EmptyView ==
  /\ ~HasHeader(EmptyFile) /\ Parse(EmptyFile, TRUE) = "FR_NO_HEADER"
  /\ EmptyFile.size = 0
BY LayoutAssumption DEF HasHeader, Parse, EmptyFile, JunkImage, LayoutAssumption

\* fff_open.
LEMMA OpenStream ==
  ASSUME Inv, fff_open
  PROVE  Stream!Open
<1> DEFINE req == Request("open", 0, 0, 0)
<1>1. CASE OpenFails(req)
  BY <1>1, AbsentIs DEF Stream!Open, Stream!Asked, Request
<1>2. CASE ~OpenFails(req)
  <2>1. exists' = TRUE /\ img' = img /\ reply' = Answer(req, "OK", 0, <<>>)
    BY <1>2, CurrentIsImg DEF fff_open
  <2>2. CASE exists
    <3>1. Stream!Kept
      BY <2>1, <2>2, KeptIs DEF StatusOf
    <3> QED BY <2>1, <2>2, <3>1 DEF Stream!Open, Stream!Asked, Stream!Answered, Request, Answer
  <2>3. CASE ~exists
    <3>1. img' = EmptyFile
      BY <2>1, <2>3 DEF Inv
    <3>2. Stream!Becomes("empty", 0, Stream!NoBytes)
      BY <2>1, <3>1, EmptyView, NoContent, BecomesIs DEF StatusOf
    <3> QED BY <2>1, <2>3, <3>2 DEF Stream!Open, Stream!Asked, Stream!Answered, Request, Answer
  <2> QED BY <2>2, <2>3
<1> QED BY <1>1, <1>2

\* fff_create.
LEMMA CreateStream ==
  ASSUME Inv, NEW excl \in BOOLEAN, NEW trunc \in BOOLEAN, fff_create(excl, trunc)
  PROVE  Stream!Create
<1> DEFINE req == Request("create", 0, 0, 0)
<1>1. reply'.req = req => Stream!Asked("create", 0, 0, 0)
  BY DEF Stream!Asked, Request
<1>2. CASE exists /\ Failed(req, "EEXIST") /\ UNCHANGED <<exists, img, nonce, released>>
  <2>1. Stream!Kept
    BY <1>2, KeptIs
  <2> QED BY <1>1, <1>2, <2>1
          DEF Failed, Answer, Stream!Create, Stream!Refused, Stream!Answered
<1>3. CASE ~exists /\ Failed(req, "EACCES") /\ UNCHANGED <<exists, img, nonce, released>>
  <2>1. reply'.req = req /\ Stream!Absent(TRUE)
    BY <1>3, AbsentIs DEF OpenFails
  <2> QED BY <1>1, <2>1 DEF Stream!Create
<1>4. CASE exists' = TRUE /\ reply' = Answer(req, "OK", 0, <<>>) /\ exists /\ img' = img
  <2>1. Stream!Kept
    BY <1>4, KeptIs DEF StatusOf
  <2> QED BY <1>1, <1>4, <2>1 DEF Answer, Stream!Create, Stream!Answered
<1>5. CASE exists' = TRUE /\ reply' = Answer(req, "OK", 0, <<>>) /\ img' = EmptyFile
  <2>1. Stream!Becomes("empty", 0, Stream!NoBytes)
    BY <1>5, EmptyView, NoContent, BecomesIs DEF StatusOf
  <2> QED BY <1>1, <1>5, <2>1 DEF Answer, Stream!Create, Stream!Answered
<1> QED BY <1>2, <1>3, <1>4, <1>5 DEF fff_create

\* fff_unlink.
LEMMA UnlinkStream ==
  ASSUME fff_unlink
  PROVE  Stream!Unlink
<1> DEFINE req == Request("unlink", 0, 0, 0)
<1>1. CASE NotFound(req)
  BY <1>1, AbsentIs DEF Stream!Unlink, Stream!Asked, Request
<1>2. CASE ~NotFound(req)
  <2>1. exists /\ exists' = FALSE /\ img' = EmptyFile /\ reply' = Answer(req, "OK", 0, <<>>)
    BY <1>2 DEF fff_unlink
  <2>2. Stream!Becomes("absent", 0, Stream!NoBytes)
    BY <2>1, EmptyView, NoContent, BecomesIs DEF StatusOf
  <2> QED BY <2>1, <2>2 DEF Stream!Unlink, Stream!Asked, Stream!Answered, Request, Answer
<1> QED BY <1>1, <1>2

\* fff_getattr: the size in the header of a file with content, and never more
\* than a header's size for a file without.
LEMMA GetAttrStream ==
  ASSUME Inv, fff_getattr
  PROVE  Stream!GetAttr
<1> DEFINE req == Request("getattr", 0, 0, 0)
<1>1. CASE NotFound(req)
  BY <1>1, AbsentIs DEF Stream!GetAttr, Stream!Asked, Request
<1>2. CASE ~NotFound(req)
  <2>1. exists /\ exists' = exists /\ img' = img
        /\ reply' = Answer(req, "OK", StatSize(img), <<>>)
    BY <1>2 DEF fff_getattr
  <2>2. Stream!Kept
    BY <2>1, KeptIs
  <2>3. reply'.ret = "OK" /\ reply'.n = StatSize(img) /\ reply'.data = <<>>
        /\ reply'.req = req
    BY <2>1 DEF Answer
  <2>4. HasHeader(img) => StatSize(img) = img.hdr.lsize
    BY DEF StatSize
  <2>5. ~HasHeader(img) /\ Parse(img, TRUE) = "FR_NO_HEADER" => StatSize(img) <= HeaderSize
    <3>1. img \in Image
      BY DEF Inv, TypeOK
    <3> QED BY <3>1, LayoutAssumption DEF StatSize, HasHeader, Parse, Image, LayoutAssumption
  <2> QED BY <2>1, <2>2, <2>3, <2>4, <2>5
          DEF Stream!GetAttr, Stream!Asked, Stream!Answered, Request
<1> QED BY <1>1, <1>2

\* fff_truncate: the size asked for, and every byte lost.
LEMMA TruncateStream ==
  ASSUME Inv, NEW size \in Sizes, fff_truncate(size)
  PROVE  Stream!Truncate(size)
<1> DEFINE req == Request("truncate", size, 0, 0)
<1>1. reply'.req = req => Stream!Asked("truncate", size, 0, 0)
  BY DEF Stream!Asked, Request
<1>2. CASE NotFound(req)
  <2>1. reply'.req = req /\ Stream!Absent(FALSE)
    BY <1>2, AbsentIs
  <2> QED BY <1>1, <2>1 DEF Stream!Truncate
<1>3. CASE exists /\ Failed(req, "EIO") /\ UNCHANGED <<exists, img, nonce, released>>
  <2>1. Stream!Kept
    BY <1>3, KeptIs
  <2> QED BY <1>1, <1>3, <2>1
          DEF Failed, Answer, Stream!Truncate, Stream!Refused, Stream!Answered
<1>4. CASE /\ exists /\ exists' = exists
           /\ img' = TruncateImage(img, size, nonce + 1)
           /\ reply' = Answer(req, "OK", 0, <<>>)
  <2>1. img \in Image /\ SoundUnder(img, nonce) /\ size \in Nat /\ nonce \in Nat
    BY CurrentFacts, FileAssumption DEF Inv, TypeOK, ImagesSound, FileAssumption
  <2>2. /\ img'.hdr = [nonce |-> nonce + 1, lsize |-> size]
        /\ img'.size = HeaderSize
        /\ \A s \in Slots : img'.blk[s].nonce = 0
    BY <1>4, <2>1, TruncateNonce
  <2>3. img'.hdr.nonce # 0 /\ img'.hdr.lsize = size
    BY <2>1, <2>2
  <2>4. HasHeader(img')
    BY <2>2, <2>3, LayoutAssumption DEF HasHeader, Parse, LayoutAssumption
  <2>5. \A i \in Positions : Content(img', i) = Lost
    BY <2>2, BlockTypes, SlotTypes, LayoutTypes DEF Positions, Content, Opens
  <2>6. BytesOf(img') = Stream!NoBytes
    BY <2>5 DEF BytesOf, Stream!NoBytes, Stream!Lost, Lost
  <2>7. Stream!Becomes("file", size, Stream!NoBytes)
    BY <1>4, <2>3, <2>4, <2>6, BecomesIs DEF StatusOf, SizeOf
  <2> QED BY <1>1, <1>4, <2>7 DEF Answer, Stream!Truncate, Stream!Answered
<1> QED BY <1>2, <1>3, <1>4 DEF fff_truncate

\* Every block of a request holds one of its bytes.
LEMMA BlockHasByte ==
  ASSUME NEW off \in Nat, NEW len \in Nat \ {0}, NEW k \in Blocks(off, len)
  PROVE  \E i \in off .. off + len - 1 : BlockIdx(i) = k
<1> DEFINE d == LogicalSector
           e == off + len - 1
           a == BlockIdx(off)
           b == BlockIdx(e)
<1>1. a \in Nat /\ b \in Nat /\ a <= b /\ k \in a .. b /\ e \in Nat /\ d \in Nat \ {0}
  BY BlocksType, LayoutTypes DEF Blocks
<1>2. /\ OffsetInSector(off) \in 0 .. d - 1 /\ a * d + OffsetInSector(off) = off
      /\ OffsetInSector(e) \in 0 .. d - 1 /\ b * d + OffsetInSector(e) = e
  BY <1>1, ByteOfBlock
<1>3. off \in off .. e /\ e = off + len - 1
  OBVIOUS
<1>4. \A i \in Nat : BlockIdx(i) = i \div d
  BY DEF BlockIdx
<1>5. BlockIdx(off) = a
  OBVIOUS
<1> HIDE DEF d, e, a, b
<1>6. CASE k = a
  BY <1>3, <1>5, <1>6
<1>7. CASE k # a
  <2> DEFINE i == k * d
  <2>1. k \in Nat /\ k >= a + 1 /\ k <= b
    BY <1>1, <1>7
  <2>2. i \in Nat /\ i >= (a + 1) * d /\ (a + 1) * d = a * d + d /\ i <= b * d
        /\ a * d \in Nat /\ b * d \in Nat
    BY <1>1, <2>1
  <2>3. i = d * k + 0 /\ 0 \in 0 .. d - 1
    BY <1>1, <2>1
  <2> HIDE DEF i
  <2>4. i \div d = k
    BY <1>1, <2>1, <2>2, <2>3, ModUnique
  <2>5. off <= i /\ i <= e
    BY <1>1, <1>2, <2>2
  <2> QED BY <1>3, <1>4, <2>2, <2>4, <2>5
<1> QED BY <1>6, <1>7

\* The bytes of a request inside the layout are positions of the file.
LEMMA InPositions ==
  ASSUME NEW off \in Nat, NEW len \in Nat \ {0}, InLayout(off, len),
         NEW i \in off .. off + len - 1
  PROVE  i \in Positions
<1>1. LogicalSector * (UIntRange \div SectorSize) \in Nat
  BY LayoutTypes
<1> QED BY <1>1 DEF InLayout, Positions

\* On clean clusters a seek past the end shows a client nothing.
LEMMA SeekView ==
  ASSUME Inv, ~ReuseDirty, NEW end \in 0 .. MaxFileSize, NEW dirt \in Dirt
  PROVE  LET q == Grow(Current, end, dirt) IN
         /\ q \in Image
         /\ HasHeader(q) <=> HasHeader(img)
         /\ HasHeader(img) => q.hdr = img.hdr
         /\ Parse(img, TRUE) = "FR_BAD_HEADER" => Parse(q, TRUE) = "FR_BAD_HEADER"
         /\ \A i \in Nat : Content(q, i) = Content(img, i)
<1> DEFINE q == Grow(Current, end, dirt)
<1>1. released = {} /\ NoLeftovers
  BY DEF Inv, NoLeftovers
<1>2. /\ q \in Image
      /\ HasHeader(img) => HasHeader(q) /\ q.hdr = img.hdr
      /\ HasHeader(q) => HasHeader(img)
      /\ Parse(img, TRUE) = "FR_BAD_HEADER" => Parse(q, TRUE) # "FR_NO_HEADER"
  BY SeekFacts, SeekParse
<1>3. Carries(q) /\ Own(q)
  BY <1>1, SeekCarries, SeekOwn
<1> HIDE DEF q
<1>4. Parse(img, TRUE) = "FR_BAD_HEADER" => Parse(q, TRUE) = "FR_BAD_HEADER"
  BY <1>2 DEF HasHeader, Parse
<1>5. \A i \in Nat : Content(q, i) = Content(img, i)
  BY <1>1, <1>3 DEF Carries, Own
<1> QED BY <1>2, <1>4, <1>5 DEF q

\* fff_read delivers the bytes of the abstract file, or fails when one of them
\* is lost.
LEMMA ReadStream ==
  ASSUME Inv, ~ReuseDirty, NEW off \in Offsets, NEW len \in Lengths,
         NEW writing \in BOOLEAN, InLayout(off, len), fff_read(off, len, writing)
  PROVE  Stream!Read(off, len)
<1> DEFINE req == Request("read", off, len, 0)
<1>1. reply'.req = req => Stream!Asked("read", off, len, 0)
  BY DEF Stream!Asked, Request
<1>2. off \in Nat /\ len \in Nat \ {0}
  BY FileAssumption DEF FileAssumption
<1>3. CASE OpenFails(req)
  <2>1. reply'.req = req /\ Stream!Absent(TRUE)
    BY <1>3, AbsentIs
  <2> QED BY <1>1, <2>1 DEF Stream!Read
<1>4. CASE ~OpenFails(req)
  <2>1. PICK end \in EndsAfterSeek(Current, SeekPos(off), writing), dirt \in Dirt :
          LET q == Grow(Current, end, dirt)
              n == Deliverable(q, off, len)
          IN  /\ exists' = TRUE /\ img' = q
              /\ \/ Parse(q, TRUE) = "FR_BAD_HEADER" /\ Failed(req, "EIO")
                 \/ /\ Parse(q, TRUE) = "FR_NO_HEADER" \/ (HasHeader(q) /\ n = 0)
                    /\ reply' = Answer(req, "OK", 0, <<>>)
                 \/ /\ HasHeader(q) /\ n > 0
                    /\ \E k \in Blocks(off, n) : ~Opens(q, k)
                    /\ Failed(req, "EIO")
                 \/ /\ HasHeader(q) /\ n > 0
                    /\ \A k \in Blocks(off, n) : Opens(q, k)
                    /\ reply' = Answer(req, "OK", n, [i \in 1 .. n |-> ByteAt(q, off + i - 1)])
    BY <1>4 DEF fff_read
  <2>2. end \in 0 .. MaxFileSize
    BY EndType
  <2> DEFINE q == Grow(Current, end, dirt)
             n == Deliverable(q, off, len)
             d == [i \in 1 .. n |-> ByteAt(q, off + i - 1)]
  <2>3. /\ q \in Image
        /\ HasHeader(q) <=> HasHeader(img)
        /\ HasHeader(img) => q.hdr = img.hdr
        /\ Parse(img, TRUE) = "FR_BAD_HEADER" => Parse(q, TRUE) = "FR_BAD_HEADER"
        /\ \A i \in Nat : Content(q, i) = Content(img, i)
    BY <2>2, SeekView
  <2>4. /\ exists' = TRUE /\ img' = q
        /\ \/ Parse(q, TRUE) = "FR_BAD_HEADER" /\ Failed(req, "EIO")
           \/ /\ Parse(q, TRUE) = "FR_NO_HEADER" \/ (HasHeader(q) /\ n = 0)
              /\ reply' = Answer(req, "OK", 0, <<>>)
           \/ /\ HasHeader(q) /\ n > 0
              /\ \E k \in Blocks(off, n) : ~Opens(q, k)
              /\ Failed(req, "EIO")
           \/ /\ HasHeader(q) /\ n > 0
              /\ \A k \in Blocks(off, n) : Opens(q, k)
              /\ reply' = Answer(req, "OK", n, d)
    BY <2>1
  <2>5. n = IF off <= q.hdr.lsize THEN MinOf(len, q.hdr.lsize - off) ELSE len
    BY DEF Deliverable
  <2>6. \A i \in 1 .. n : d[i] = ByteAt(q, off + i - 1)
    OBVIOUS
  <2>7. DOMAIN d = 1 .. n /\ d = [i \in 1 .. n |-> d[i]]
    OBVIOUS
  <2> HIDE DEF q, n, d
  <2>8. ~HasHeader(q) => Parse(q, TRUE) \in {"FR_NO_HEADER", "FR_BAD_HEADER"}
    BY DEF HasHeader, Parse
  <2>9. CASE ~HasHeader(img)
    <3>1. \/ Parse(q, TRUE) = "FR_BAD_HEADER" /\ Failed(req, "EIO")
          \/ Parse(q, TRUE) = "FR_NO_HEADER" /\ reply' = Answer(req, "OK", 0, <<>>)
      BY <2>3, <2>4, <2>9
    <3>2. SizeOf(img') = 0 /\ BytesOf(img') = Stream!NoBytes /\ ~HasHeader(img')
      BY <2>3, <2>4, <2>9, NoContent
    <3>3. SizeOf(img) = 0 /\ BytesOf(img) = Stream!NoBytes
      BY <2>9, NoContent
    <3>4. reply'.req = req
      <4>1. \E ret : reply' = Answer(req, ret, 0, <<>>)
        BY <3>1 DEF Failed
      <4> QED BY <4>1 DEF Answer
    <3>5. CASE exists /\ Parse(img, TRUE) # "FR_NO_HEADER"
      <4>1. Parse(img, TRUE) = "FR_BAD_HEADER"
        BY <2>9, <3>5 DEF HasHeader, Parse
      <4>2. Parse(q, TRUE) = "FR_BAD_HEADER" /\ Failed(req, "EIO")
        BY <2>3, <3>1, <4>1
      <4>3. StatusOf(exists, img) = "bad" /\ StatusOf(exists', img') = "bad"
        BY <2>4, <2>9, <3>2, <3>5, <4>2 DEF StatusOf
      <4>4. Stream!Kept
        BY <3>2, <3>3, <4>3, KeptIs
      <4> QED BY <1>1, <3>4, <3>5, <2>9, <4>2, <4>4
              DEF Failed, Answer, Stream!Read, Stream!Refused, Stream!Answered
    <3>6. CASE ~(exists /\ Parse(img, TRUE) # "FR_NO_HEADER")
      <4>1. CASE Parse(q, TRUE) = "FR_BAD_HEADER" /\ Failed(req, "EIO")
        <5>1. StatusOf(exists', img') = "bad"
          BY <2>4, <3>2, <4>1 DEF StatusOf
        <5>2. Stream!Becomes("bad", 0, Stream!NoBytes)
          BY <3>2, <5>1, BecomesIs
        <5> QED BY <1>1, <2>9, <3>4, <3>6, <4>1, <5>2
                DEF Failed, Answer, Stream!Read, Stream!Refused, Stream!Answered
      <4>2. CASE Parse(q, TRUE) = "FR_NO_HEADER" /\ reply' = Answer(req, "OK", 0, <<>>)
        <5>1. StatusOf(exists', img') = "empty"
          BY <2>4, <3>2, <4>2 DEF StatusOf
        <5>2. Stream!Becomes("empty", 0, Stream!NoBytes)
          BY <3>2, <5>1, BecomesIs
        <5> QED BY <1>1, <2>9, <3>4, <3>6, <4>2, <5>2
                DEF Answer, Stream!Read, Stream!Answered
      <4> QED BY <3>1, <4>1, <4>2
    <3> QED BY <3>5, <3>6
  <2>10. CASE HasHeader(img)
    <3> DEFINE c == img.hdr.lsize
    <3>1. HasHeader(q) /\ q.hdr = img.hdr /\ img \in Image /\ c \in Nat
      BY <2>3, <2>10 DEF Inv, TypeOK, Image, Header
    <3> HIDE DEF c
    <3>2. n = IF off + len <= c \/ off > c THEN len ELSE c - off
      BY <1>2, <2>5, <3>1 DEF MinOf, c
    <3>3. n \in 0 .. len
      BY <1>2, <3>1, <3>2
    <3>4. exists
      BY <2>10, EmptyView DEF Inv
    <3>5. Stream!Kept
      <4>1. BytesOf(img') = BytesOf(img)
        BY <2>3, <2>4, LayoutTypes DEF BytesOf, Positions
      <4> QED BY <2>3, <2>4, <2>10, <3>1, <3>4, <4>1, KeptIs DEF StatusOf, SizeOf
    <3>6. \A i \in off .. off + n - 1 : i \in Positions /\ i \in Nat
      BY <1>2, <3>3, InPositions
    <3> DEFINE lost == \E i \in off .. off + n - 1 : Content(img, i) = Lost
    <3>7. lost <=> \E i \in Stream!Chunk(off, n) : BytesOf(img)[i] = Stream!Lost
      BY <3>6 DEF BytesOf, Stream!Chunk, Stream!Lost, Lost
    <3>8. \/ lost /\ Failed(req, "EIO")
          \/ ~lost /\ reply' = Answer(req, "OK", n, [i \in 1 .. n |-> BytesOf(img)[off + i - 1]])
      <4>1. CASE n = 0
        <5>1. reply' = Answer(req, "OK", 0, <<>>)
          <6>1. ~(n > 0)
            BY <4>1
          <6>2. Parse(q, TRUE) = "FR_OK"
            BY <3>1 DEF HasHeader
          <6>3. Parse(q, TRUE) # "FR_BAD_HEADER"
            BY <6>2
          <6> QED BY <2>4, <6>1, <6>3
        <5>2. [i \in 1 .. n |-> BytesOf(img)[off + i - 1]] = <<>>
          BY <4>1
        <5>3. ~lost
          BY <1>2, <4>1
        <5> QED BY <4>1, <5>1, <5>2, <5>3
      <4>2. CASE n # 0
        <5>1. n \in Nat \ {0} /\ n > 0
          BY <3>3, <4>2
        <5>2. \/ (\E k \in Blocks(off, n) : ~Opens(q, k)) /\ Failed(req, "EIO")
              \/ (\A k \in Blocks(off, n) : Opens(q, k)) /\ reply' = Answer(req, "OK", n, d)
          BY <2>4, <3>1, <5>1 DEF HasHeader
        <5>3. \A i \in off .. off + n - 1 :
                Content(img, i) # Lost <=> Opens(q, BlockIdx(i))
          BY <2>3, <3>1, <3>6, ContentIs
        <5>4. ASSUME NEW k \in Blocks(off, n), ~Opens(q, k) PROVE lost
          <6>1. PICK i \in off .. off + n - 1 : BlockIdx(i) = k
            BY <1>2, <5>1, BlockHasByte
          <6> QED BY <5>3, <5>4, <6>1
        <5>5. ASSUME \A k \in Blocks(off, n) : Opens(q, k)
              PROVE  ~lost /\ d = [i \in 1 .. n |-> BytesOf(img)[off + i - 1]]
          <6>1. \A i \in off .. off + n - 1 : Content(img, i) # Lost
            BY <1>2, <5>1, <5>3, <5>5, BlocksOfBytes
          <6>2. \A i \in off .. off + n - 1 : BytesOf(img)[i] = ByteAt(q, i)
            BY <2>3, <3>6, <6>1, ContentIs DEF BytesOf
          <6>3. \A i \in 1 .. n : off + i - 1 \in off .. off + n - 1
            BY <1>2, <5>1
          <6>4. \A i \in 1 .. n : d[i] = BytesOf(img)[off + i - 1]
            BY <2>6, <6>2, <6>3
          <6>5. d = [i \in 1 .. n |-> BytesOf(img)[off + i - 1]]
            BY <2>7, <6>4
          <6> QED BY <6>1, <6>5
        <5> QED BY <5>2, <5>4, <5>5
      <4> QED BY <4>1, <4>2
    <3> HIDE DEF lost
    <3>9. CASE lost /\ Failed(req, "EIO")
      <4>1. reply'.req = req /\ Stream!Refused("EIO")
        BY <3>9 DEF Failed, Answer, Stream!Refused, Stream!Answered
      <4>2. \E i \in Stream!Chunk(off, n) : BytesOf(img)[i] = Stream!Lost
        BY <3>7, <3>9
      <4> QED BY <1>1, <2>10, <3>2, <3>4, <3>5, <4>1, <4>2
              DEF Stream!Read, BytesOf, c
    <3>10. CASE ~lost /\ reply' = Answer(req, "OK", n, [i \in 1 .. n |-> BytesOf(img)[off + i - 1]])
      <4>1. /\ reply'.req = req
            /\ Stream!Answered("OK", n, [i \in 1 .. n |-> BytesOf(img)[off + i - 1]])
        BY <3>10 DEF Answer, Stream!Answered
      <4>2. ~\E i \in Stream!Chunk(off, n) : BytesOf(img)[i] = Stream!Lost
        BY <3>7, <3>10
      <4> QED BY <1>1, <2>10, <3>2, <3>4, <3>5, <4>1, <4>2
              DEF Stream!Read, BytesOf, c
    <3> QED BY <3>8, <3>9, <3>10
  <2> QED BY <2>9, <2>10
<1> QED BY <1>3, <1>4

\* fff_write moves the end of the file and replaces its range, or fails and
\* leaves some of its range replaced.
LEMMA WriteStream ==
  ASSUME Inv, ~ReuseDirty, NEW off \in Offsets, NEW len \in Lengths, NEW v \in Values,
         InLayout(off, len), fff_write(off, len, v)
  PROVE  Stream!Write(off, len, v)
<1> DEFINE req == Request("write", off, len, v)
<1>1. reply'.req = req => Stream!Asked("write", off, len, v)
  BY DEF Stream!Asked, Request
<1>2. off \in Nat /\ len \in Nat \ {0} /\ v \in Byte
  BY FileAssumption, NoData DEF FileAssumption
<1>3. CASE OpenFails(req)
  <2>1. reply'.req = req /\ Stream!Absent(TRUE)
    BY <1>3, AbsentIs
  <2> QED BY <1>1, <2>1 DEF Stream!Write
<1>4. CASE /\ exists' = TRUE /\ reply'.req = req
           /\ reply'.ret = "EIO" /\ reply'.n = 0 /\ reply'.data = <<>>
           /\ ~HasHeader(img) /\ ~HasHeader(img')
           /\ Parse(img, TRUE) = "FR_BAD_HEADER" => Parse(img', TRUE) = "FR_BAD_HEADER"
  <2>1. Stream!Refused("EIO")
    BY <1>4 DEF Stream!Refused, Stream!Answered
  <2>2. /\ SizeOf(img') = 0 /\ BytesOf(img') = Stream!NoBytes
        /\ SizeOf(img) = 0 /\ BytesOf(img) = Stream!NoBytes
    BY <1>4, NoContent
  <2>3. StatusOf(exists', img') \in {"empty", "bad"}
    BY <1>4 DEF StatusOf
  <2>4. CASE StatusOf(exists, img) = "bad"
    <3>1. Parse(img, TRUE) = "FR_BAD_HEADER"
      BY <1>4, <2>4 DEF StatusOf, HasHeader, Parse
    <3>2. StatusOf(exists', img') = "bad"
      BY <1>4, <3>1 DEF StatusOf
    <3>3. Stream!Kept
      BY <2>2, <2>4, <3>2, KeptIs
    <3> QED BY <1>1, <1>4, <2>1, <2>4, <3>3 DEF Stream!Write, StatusOf
  <2>5. CASE StatusOf(exists, img) # "bad"
    <3>1. StatusOf(exists, img) \in {"absent", "empty"}
      BY <1>4, <2>5 DEF StatusOf
    <3>2. \E st \in {"empty", "bad"} : Stream!Becomes(st, 0, Stream!NoBytes)
      BY <2>2, <2>3, BecomesIs
    <3> QED BY <1>1, <1>4, <2>1, <3>1, <3>2 DEF Stream!Write, StatusOf
  <2> QED BY <2>4, <2>5
<1>5. ASSUME NEW p \in Image, NEW m \in Nat, NEW cap \in Nat,
             Wrote(p, m, off, len, v, cap), exists' = TRUE, reply'.req = req
      PROVE  Stream!Write(off, len, v)
  <2> DEFINE w  == WriteBlocks(p, off, len, v, cap)
             ks == Done(off, len, cap)
             in == off .. off + len - 1
             b  == BytesOf(img')
             a  == BytesOf(img)
  <2>1. /\ img' = w /\ SoundUnder(p, m) /\ p.size <= cap /\ HasHeader(p)
        /\ Carries(p) /\ (NoLeftovers => Own(p))
        /\ reply'.ret = IF Succeeds(off, len, cap) THEN "OK" ELSE "EIO"
        /\ reply'.n = IF Succeeds(off, len, cap) THEN len ELSE 0
        /\ reply'.data = <<>>
        /\ ~HasHeader(img) => p.hdr.lsize = 0 /\ Parse(img, TRUE) = "FR_NO_HEADER"
    BY <1>5 DEF Wrote
  <2>2. /\ w \in Image /\ HasHeader(w)
        /\ Succeeds(off, len, cap) => w.hdr.lsize = off + len
        /\ ~Succeeds(off, len, cap) => w.hdr = p.hdr
    <3>1. /\ w \in Image /\ HasHeader(w)
          /\ Succeeds(off, len, cap) => w.hdr.lsize = off + len
          /\ ~Succeeds(off, len, cap) => w.hdr = p.hdr
          /\ WrittenFrom(p, w, off, len, v, ks)
      BY <1>2, <2>1, WriteBlocksDo
    <3> QED BY <3>1
  <2>3. \A i \in Nat : Content(p, i) = Content(img, i)
    <3>1. released = {} /\ NoLeftovers
      BY DEF Inv, NoLeftovers
    <3> QED BY <2>1, <3>1 DEF Carries, Own
  <2>4. ASSUME NEW i \in Nat
        PROVE  \/ BlockIdx(i) \in ks /\ i \in in /\ Content(w, i) = v
               \/ /\ BlockIdx(i) \in ks /\ i \notin in
                  /\ Content(w, i) = IF Content(p, i) = Lost THEN Zero ELSE Content(p, i)
               \/ BlockIdx(i) \notin ks /\ Content(w, i) = Content(p, i)
               \/ /\ BlockIdx(i) \notin ks
                  /\ \E j \in ks : Slot(j) = Slot(BlockIdx(i))
    BY <1>2, <2>1, ContentAfterWrite
  <2>5. \A i \in Positions : i \in Nat
    BY LayoutTypes DEF Positions
  <2>6. \A i \in Positions, j \in ks : Slot(j) = Slot(BlockIdx(i)) => j = BlockIdx(i)
    BY <1>2, NoOtherBlock
  <2>7. \A i \in in : i \in Positions /\ BlockIdx(i) \in Blocks(off, len)
    BY <1>2, InPositions, BlocksOfBytes
  <2>8. Succeeds(off, len, cap) => ks = Blocks(off, len)
    BY DEF Succeeds
  <2> HIDE DEF w, ks, in
  <2>9. ASSUME NEW i \in Positions
        PROVE  \/ BlockIdx(i) \in ks /\ i \in in /\ Content(img', i) = v
               \/ /\ BlockIdx(i) \in ks /\ i \notin in
                  /\ Content(img', i) = IF Content(img, i) = Lost THEN Zero ELSE Content(img, i)
               \/ BlockIdx(i) \notin ks /\ Content(img', i) = Content(img, i)
    BY <2>1, <2>3, <2>4, <2>5, <2>6
  <2>10. \A i \in Positions : b[i] = Content(img', i) /\ a[i] = Content(img, i)
    BY DEF BytesOf
  <2>11. b \in [Positions -> Values \cup {Stream!Zero, Stream!Lost}]
    <3>1. \A i \in Positions : Content(img', i) \in Values \cup {0, Lost}
      BY <2>1, <2>2, <2>5, ContentIs DEF Byte, Zero
    <3> QED BY <3>1 DEF BytesOf, Stream!Zero, Stream!Lost, Lost
  <2>12. /\ StatusOf(exists, img) \in {"absent", "empty", "file"}
         /\ StatusOf(exists', img') = "file"
    BY <1>5, <2>1, <2>2 DEF StatusOf
  <2>13. Stream!Chunk(off, len) = in
    BY DEF Stream!Chunk, in
  <2>14. SizeOf(img') = w.hdr.lsize
    BY <2>1, <2>2 DEF SizeOf
  <2> HIDE DEF a, b
  <2>15. CASE Succeeds(off, len, cap)
    <3>1. /\ \A i \in Stream!Chunk(off, len) : b[i] = v
          /\ \A i \in Positions \ Stream!Chunk(off, len) :
               b[i] = a[i] \/ (a[i] = Stream!Lost /\ b[i] = Stream!Zero)
      BY <2>7, <2>8, <2>9, <2>10, <2>13, <2>15 DEF Stream!Lost, Lost, Stream!Zero, Zero
    <3>2. Stream!Overwritten(b, off, len, v)
      BY <3>1 DEF Stream!Overwritten, a, BytesOf
    <3>3. SizeOf(img') = off + len
      BY <2>2, <2>14, <2>15
    <3>4. Stream!Answered("OK", len, <<>>)
      BY <2>1, <2>15 DEF Stream!Answered
    <3> QED BY <1>1, <1>5, <2>11, <2>12, <3>2, <3>3, <3>4
            DEF Stream!Write, StatusOf, SizeOf, BytesOf, b
  <2>16. CASE ~Succeeds(off, len, cap)
    <3>1. \A i \in Positions :
            \/ b[i] = a[i]
            \/ a[i] = Stream!Lost /\ b[i] = Stream!Zero
            \/ i \in Stream!Chunk(off, len) /\ b[i] = v
      BY <2>9, <2>10, <2>13 DEF Stream!Lost, Lost, Stream!Zero, Zero
    <3>2. Stream!PartlyOverwritten(b, off, len, v)
      BY <3>1 DEF Stream!PartlyOverwritten, a, BytesOf
    <3>3. SizeOf(img') = SizeOf(img)
      BY <2>1, <2>2, <2>14, <2>16 DEF SizeOf, Carries
    <3>4. Stream!Refused("EIO")
      BY <2>1, <2>16 DEF Stream!Refused, Stream!Answered
    <3> QED BY <1>1, <1>5, <2>11, <2>12, <3>2, <3>3, <3>4
            DEF Stream!Write, StatusOf, SizeOf, BytesOf, b
  <2> QED BY <2>15, <2>16
<1>6. /\ reply'.req = req
      /\ \/ OpenFails(req)
         \/ /\ exists' = TRUE
            /\ reply'.ret = "EIO" /\ reply'.n = 0 /\ reply'.data = <<>>
            /\ ~HasHeader(img) /\ ~HasHeader(img')
            /\ Parse(img, TRUE) = "FR_BAD_HEADER" => Parse(img', TRUE) = "FR_BAD_HEADER"
         \/ /\ exists' = TRUE
            /\ \E p \in Image, m \in Nat, cap \in Nat : Wrote(p, m, off, len, v, cap)
  BY WriteWays
<1> QED BY <1>3, <1>4, <1>5, <1>6

\* A new or foreign file has no content.
LEMMA InitStream == Init => Stream!Init
<1> SUFFICES ASSUME Init PROVE Stream!Init
  OBVIOUS
<1>1. ~HasHeader(img)
  <2>1. img.hdr.nonce = 0
    BY DEF Init, EmptyFile, JunkImage, JunkHeader
  <2> QED BY <2>1 DEF HasHeader, Parse
<1>2. SizeOf(img) = 0 /\ BytesOf(img) = Stream!NoBytes
  BY <1>1, NoContent
<1>3. StatusOf(exists, img) \in {"absent", "empty", "bad"}
  BY <1>1 DEF StatusOf
<1>4. reply.ret = "OK" /\ reply.n = 0
  BY DEF Init, Answer
<1> QED BY <1>2, <1>3, <1>4 DEF Stream!Init, StatusOf, SizeOf, BytesOf

\* On clean clusters, for every layout and every set of requests inside it, the
\* handlers implement the abstract file: every step is one of its steps, with
\* the same answer.
THEOREM ImplementsStream ==
  ASSUME ~ReuseDirty, RequestsInLayout
  PROVE  Spec => StreamSpec
<1>1. ASSUME Inv, [Next]_vars PROVE [Stream!Next]_(Stream!vars)
  <2>1. CASE UNCHANGED vars
    BY <2>1 DEF vars, Stream!vars
  <2>2. CASE fff_open
    BY <1>1, <2>2, OpenStream DEF Stream!Next
  <2>3. CASE \E excl, trunc \in BOOLEAN : fff_create(excl, trunc)
    BY <1>1, <2>3, CreateStream DEF Stream!Next
  <2>4. CASE \E off \in Offsets, len \in Lengths, writing \in BOOLEAN :
               fff_read(off, len, writing)
    <3>1. PICK off \in Offsets, len \in Lengths, writing \in BOOLEAN :
            fff_read(off, len, writing)
      BY <2>4
    <3>2. Stream!Read(off, len)
      BY <1>1, <3>1, ReadStream DEF RequestsInLayout
    <3> QED BY <3>2 DEF Stream!Next
  <2>5. CASE \E off \in Offsets, len \in Lengths, v \in Values : fff_write(off, len, v)
    <3>1. PICK off \in Offsets, len \in Lengths, v \in Values : fff_write(off, len, v)
      BY <2>5
    <3>2. Stream!Write(off, len, v)
      BY <1>1, <3>1, WriteStream DEF RequestsInLayout
    <3> QED BY <3>2 DEF Stream!Next
  <2>6. CASE \E size \in Sizes : fff_truncate(size)
    <3>1. PICK size \in Sizes : fff_truncate(size)
      BY <2>6
    <3>2. Stream!Truncate(size)
      BY <1>1, <3>1, TruncateStream
    <3> QED BY <3>2 DEF Stream!Next
  <2>7. CASE fff_getattr
    BY <1>1, <2>7, GetAttrStream DEF Stream!Next
  <2>8. CASE fff_unlink
    BY <1>1, <2>8, UnlinkStream DEF Stream!Next
  <2> QED BY <1>1, <2>1, <2>2, <2>3, <2>4, <2>5, <2>6, <2>7, <2>8 DEF Next
<1> QED BY <1>1, InitInv, NextInv, InitStream, PTL DEF Spec, StreamSpec, Stream!Spec
=============================================================================
