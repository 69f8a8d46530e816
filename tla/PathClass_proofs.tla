--------------------------- MODULE PathClass_proofs ---------------------------
(***************************************************************************)
(* What a volume shows in the clear, for every naming, every list of plain *)
(* paths and every sequence of requests and mounts.                        *)
(***************************************************************************)
EXTENDS PathClass, TLAPS, SequenceTheorems

\* What a file can hold: nothing, a header alone, a header over its block, or
\* text over nothing, text or the block of a file that was overwritten.
Form(c) ==
  \/ c = EmptyFile \/ c = OnlyHeader
  \/ \E v \in Values : c = Sealed(v)
  \/ \E v \in Values, b \in {Nothing} \cup {Text(w) : w \in Values} \cup {Block(w) : w \in Values} :
       c = [head |-> Text(v), body |-> b]

\* The last write shows in the file.
Shows(c, w) ==
  IF w.sealed THEN c = Sealed(w.v)
  ELSE c.head = Text(w.v) /\ (w.v \in Long => c.body = Text(w.v))

\* What a file with contents c may hold, by what was promised of its values.
Allowed(c, g) ==
  /\ Form(c)
  /\ \A v \in Values :
       /\ (c.head = Text(v) \/ c.body = Text(v)) => v \in g.open \cup g.long
       /\ (c.head = Block(v) \/ c.body = Block(v)) => v \in g.secret

Typed ==
  /\ key \in BOOLEAN
  /\ DOMAIN last = DOMAIN files
  /\ given \in [open : SUBSET Values, long : SUBSET Values, secret : SUBSET Values]

Kept ==
  \A f \in DOMAIN files :
    /\ Allowed(files[f], given)
    /\ last[f] \in [v : Values \cup {NoValue}, sealed : BOOLEAN]
    /\ last[f].v # NoValue => Shows(files[f], last[f])

Read == reply.op = "read" => ReadsBack /\ SealedReadsAuthentic

IInv == Typed /\ Kept /\ Read

\* The character-wise prefix test with its boundary check is the component-wise
\* one.
LEMMA UnderIsPrefix ==
  ASSUME NEW p \in Paths, NEW d \in PlainDirs
  PROVE  Under(p, d) <=> IsUnder(p, d)
<1>1. p \in Seq(Names) /\ d \in Seq(Names) /\ d # <<>>
  BY PathAssumption
<1>2. Len(d) \in Nat /\ Len(d) >= 1 /\ Len(p) \in Nat
  BY <1>1
<1>3. \A i \in 1 .. Len(d) : d[i] \in Names
  BY <1>1
<1>4. ASSUME Under(p, d) PROVE IsUnder(p, d)
  BY <1>2, <1>4 DEF Under, StartsWith, IsUnder
<1>5. ASSUME IsUnder(p, d) PROVE Under(p, d)
  <2>1. p[Len(d)] = d[Len(d)] /\ d[Len(d)] \in Names
    BY <1>2, <1>3, <1>5 DEF IsUnder
  <2>2. <<p[Len(d)], d[Len(d)]>> \in Longer
    BY <2>1, PathAssumption
  <2> QED
    BY <1>2, <1>5, <2>1, <2>2 DEF Under, StartsWith, IsUnder
<1> QED
  BY <1>4, <1>5

\* With the key, a path is handled as plain exactly when it is listed or cannot
\* be normalised.
LEMMA PlainIsListed ==
  ASSUME NEW p \in Paths
  PROVE  Plain(p) <=> ~key \/ Listed(p) \/ p \in TooLong
<1>1. IsPlaintext(p) <=> p \in PlainFiles \/ \E d \in PlainDirs : IsUnder(p, d)
  BY UnderIsPrefix DEF IsPlaintext
<1>2. IsMetadata(p) # 0 <=> p \in TooLong \/ p[1] = MetaDir
  BY DEF IsMetadata
<1> QED
  BY <1>1, <1>2 DEF Plain, Listed

\* A value written under a plain path is given openly or under a path too long.
LEMMA GivenGrows ==
  ASSUME Typed, NEW p \in Paths, NEW v \in Values, Give(p, v)
  PROVE  /\ given' \in [open : SUBSET Values, long : SUBSET Values, secret : SUBSET Values]
         /\ given.open \subseteq given'.open /\ given.long \subseteq given'.long
         /\ given.secret \subseteq given'.secret
         /\ Plain(p) => v \in given'.open \cup given'.long
         /\ ~Plain(p) => v \in given'.secret
BY PlainIsListed DEF Typed, Give

\* More values given allow no less.
LEMMA AllowedGrows ==
  ASSUME NEW c, NEW g, NEW h, Allowed(c, g),
         g.open \subseteq h.open, g.long \subseteq h.long, g.secret \subseteq h.secret
  PROVE  Allowed(c, h)
BY DEF Allowed

LEMMA FreshForms ==
  ASSUME NEW g
  PROVE  Allowed(EmptyFile, g) /\ Allowed(OnlyHeader, g)
BY DEF Allowed, Form, EmptyFile, OnlyHeader, Nothing, Header, Text, Block

LEMMA OverwrittenAllowed ==
  ASSUME NEW c, NEW g, NEW v \in Values, Allowed(c, g), v \in g.open \cup g.long
  PROVE  Allowed(Overwritten(c, v), g)
<1>1. c.body \in {Nothing} \cup {Text(w) : w \in Values} \cup {Block(w) : w \in Values}
  BY DEF Allowed, Form, EmptyFile, OnlyHeader, Sealed
<1>2. Form(Overwritten(c, v))
  BY <1>1 DEF Overwritten, Form
<1>3. ASSUME NEW w \in Values,
             Overwritten(c, v).head = Text(w) \/ Overwritten(c, v).body = Text(w)
      PROVE  w \in g.open \cup g.long
  BY <1>3 DEF Overwritten, Text, Allowed
<1>4. ASSUME NEW w \in Values,
             Overwritten(c, v).head = Block(w) \/ Overwritten(c, v).body = Block(w)
      PROVE  w \in g.secret
  BY <1>4 DEF Overwritten, Text, Block, Allowed
<1> QED
  BY <1>2, <1>3, <1>4 DEF Allowed

LEMMA SealedAllowed ==
  ASSUME NEW g, NEW v \in Values, v \in g.secret
  PROVE  Allowed(Sealed(v), g)
BY DEF Allowed, Form, Sealed, Header, Text, Block

-----------------------------------------------------------------------------
\* A step that changes neither a file nor what was given, and is not a read.
LEMMA NotARead ==
  ASSUME reply'.op # "read"
  PROVE  Read'
BY DEF Read

LEMMA InitIInv == Init => IInv
<1> SUFFICES ASSUME Init PROVE IInv
  OBVIOUS
<1>1. Typed
  BY PathAssumption DEF Init, Typed
<1>2. Kept
  <2> SUFFICES ASSUME NEW f \in DOMAIN files
               PROVE  /\ Allowed(files[f], given)
                      /\ last[f] \in [v : Values \cup {NoValue}, sealed : BOOLEAN]
                      /\ Shows(files[f], last[f])
    BY DEF Kept
  <2>1. InitFiles[f] \in Values /\ InitFiles[f] \in given.open
    BY PathAssumption DEF Init
  <2>2. files[f] = Overwritten(EmptyFile, InitFiles[f])
    BY DEF Init
  <2>3. last[f] = [v |-> InitFiles[f], sealed |-> FALSE]
    BY DEF Init
  <2>4. Allowed(files[f], given)
    BY <2>1, <2>2, FreshForms, OverwrittenAllowed
  <2>5. Shows(files[f], last[f])
    BY <2>2, <2>3 DEF Shows, Overwritten
  <2> QED
    BY <2>1, <2>3, <2>4, <2>5
<1>3. Read
  BY DEF Init, Read
<1> QED
  BY <1>1, <1>2, <1>3 DEF IInv

LEMMA CreateKeeps ==
  ASSUME IInv, NEW p \in Paths, fff_create(p)
  PROVE  IInv'
<1>1. Typed'
  BY DEF IInv, Typed, fff_create, Put
<1>2. Kept'
  <2> SUFFICES ASSUME NEW f \in DOMAIN files'
               PROVE  /\ Allowed(files'[f], given')
                      /\ last'[f] \in [v : Values \cup {NoValue}, sealed : BOOLEAN]
                      /\ last'[f].v # NoValue => Shows(files'[f], last'[f])
    BY DEF Kept
  <2>1. CASE f = At(p)
    BY <2>1, FreshForms DEF fff_create, Put, NeverWritten, IInv, Typed
  <2>2. CASE f # At(p)
    BY <2>2 DEF fff_create, Put, IInv, Typed, Kept
  <2> QED
    BY <2>1, <2>2
<1>3. Read'
  BY NotARead DEF fff_create, Answer
<1> QED
  BY <1>1, <1>2, <1>3 DEF IInv

LEMMA WriteKeeps ==
  ASSUME IInv, NEW p \in Paths, NEW v \in Values, fff_write(p, v)
  PROVE  IInv'
<1> DEFINE w == At(p)
           ok == Plain(p) \/ Writable(files[w])
<1>1. w \in DOMAIN files /\ Give(p, v)
  BY DEF fff_write
<1>2. /\ given' \in [open : SUBSET Values, long : SUBSET Values, secret : SUBSET Values]
      /\ given.open \subseteq given'.open /\ given.long \subseteq given'.long
      /\ given.secret \subseteq given'.secret
      /\ Plain(p) => v \in given'.open \cup given'.long
      /\ ~Plain(p) => v \in given'.secret
  BY <1>1, GivenGrows DEF IInv
<1>3. Typed'
  BY <1>2 DEF IInv, Typed, fff_write
<1>4. Kept'
  <2> SUFFICES ASSUME NEW f \in DOMAIN files'
               PROVE  /\ Allowed(files'[f], given')
                      /\ last'[f] \in [v : Values \cup {NoValue}, sealed : BOOLEAN]
                      /\ last'[f].v # NoValue => Shows(files'[f], last'[f])
    BY DEF Kept
  <2>1. f \in DOMAIN files /\ DOMAIN last = DOMAIN files
    BY DEF fff_write, IInv, Typed
  <2>2. /\ Allowed(files[f], given')
        /\ last[f] \in [v : Values \cup {NoValue}, sealed : BOOLEAN]
        /\ last[f].v # NoValue => Shows(files[f], last[f])
    BY <2>1, <1>2, AllowedGrows DEF IInv, Kept
  <2>3. CASE f # w \/ ~ok
    <3>1. files'[f] = files[f] /\ last'[f] = last[f]
      BY <2>1, <2>3 DEF fff_write
    <3> QED
      BY <2>2, <3>1
  <2>4. CASE f = w /\ ok /\ Plain(p)
    <3>1. files'[f] = Overwritten(files[f], v) /\ last'[f] = [v |-> v, sealed |-> FALSE]
      BY <2>1, <2>4 DEF fff_write
    <3>2. Allowed(files'[f], given')
      BY <1>2, <2>2, <2>4, <3>1, OverwrittenAllowed
    <3>3. Shows(files'[f], last'[f])
      BY <3>1 DEF Shows, Overwritten
    <3> QED
      BY <3>1, <3>2, <3>3
  <2>5. CASE f = w /\ ok /\ ~Plain(p)
    <3>1. files'[f] = Sealed(v) /\ last'[f] = [v |-> v, sealed |-> TRUE]
      BY <2>1, <2>5 DEF fff_write
    <3>2. Allowed(files'[f], given')
      BY <1>2, <2>5, <3>1, SealedAllowed
    <3>3. Shows(files'[f], last'[f])
      BY <3>1 DEF Shows
    <3> QED
      BY <3>1, <3>2, <3>3
  <2> QED
    BY <2>3, <2>4, <2>5
<1>5. Read'
  BY NotARead DEF fff_write, Answer
<1> QED
  BY <1>3, <1>4, <1>5 DEF IInv

LEMMA TruncateKeeps ==
  ASSUME IInv, NEW p \in Paths, fff_truncate(p)
  PROVE  IInv'
<1>1. Typed'
  BY DEF IInv, Typed, fff_truncate
<1>2. Kept'
  <2> SUFFICES ASSUME NEW f \in DOMAIN files'
               PROVE  /\ Allowed(files'[f], given')
                      /\ last'[f] \in [v : Values \cup {NoValue}, sealed : BOOLEAN]
                      /\ last'[f].v # NoValue => Shows(files'[f], last'[f])
    BY DEF Kept
  <2>1. f \in DOMAIN files /\ f \in DOMAIN last /\ given' = given
    BY DEF fff_truncate, IInv, Typed
  <2>2. CASE f = At(p)
    <3>1. files'[f] \in {EmptyFile, OnlyHeader} /\ last'[f] = NeverWritten
      BY <2>1, <2>2 DEF fff_truncate
    <3> QED
      BY <2>1, <3>1, FreshForms DEF NeverWritten
  <2>3. CASE f # At(p)
    <3>1. files'[f] = files[f] /\ last'[f] = last[f]
      BY <2>1, <2>3 DEF fff_truncate
    <3> QED
      BY <2>1, <3>1 DEF IInv, Kept
  <2> QED
    BY <2>2, <2>3
<1>3. Read'
  BY NotARead DEF fff_truncate, Answer
<1> QED
  BY <1>1, <1>2, <1>3 DEF IInv

LEMMA UnlinkKeeps ==
  ASSUME IInv, NEW p \in Paths, fff_unlink(p)
  PROVE  IInv'
<1>1. Typed'
  BY DEF IInv, Typed, fff_unlink, Without
<1>2. Kept'
  BY DEF IInv, Typed, Kept, fff_unlink, Without
<1>3. Read'
  BY NotARead DEF fff_unlink, Answer
<1> QED
  BY <1>1, <1>2, <1>3 DEF IInv

\* files and last have one domain, so a rename takes what it moves in both from
\* the same place.
LEMMA MovedTogether ==
  ASSUME DOMAIN files = DOMAIN last, NEW src, NEW dst, NEW f \in DOMAIN Moved(files, src, dst)
  PROVE  /\ DOMAIN Moved(files, src, dst) = DOMAIN Moved(last, src, dst)
         /\ \E x \in DOMAIN files : /\ Moved(files, src, dst)[f] = files[x]
                                    /\ Moved(last, src, dst)[f] = last[x]
<1> DEFINE x == CHOOSE y \in DOMAIN files : Renamed(y, src, dst) = f
<1>1. \E y \in DOMAIN files : Renamed(y, src, dst) = f
  BY DEF Moved
<1>2. x \in DOMAIN files
  BY <1>1
<1>3. Moved(files, src, dst)[f] = files[x] /\ Moved(last, src, dst)[f] = last[x]
  BY DEF Moved
<1> QED
  BY <1>2, <1>3 DEF Moved

LEMMA RenameKeeps ==
  ASSUME IInv, NEW p \in Paths, NEW q \in Paths, fff_rename(p, q)
  PROVE  IInv'
<1>1. given' = given /\ key' = key /\ DOMAIN last = DOMAIN files
  BY DEF fff_rename, IInv, Typed
<1>2. CASE files' = files /\ last' = last
  BY <1>1, <1>2, NotARead DEF fff_rename, Answer, IInv, Typed, Kept
<1>3. CASE files' = Moved(files, At(p), At(q)) /\ last' = Moved(last, At(p), At(q))
  <2>1. DOMAIN last' = DOMAIN files'
    BY <1>1, <1>3 DEF Moved
  <2>2. \A f \in DOMAIN files' : \E x \in DOMAIN files :
          files'[f] = files[x] /\ last'[f] = last[x]
    BY <1>1, <1>3, MovedTogether
  <2>3. Typed' /\ Kept'
    BY <1>1, <2>1, <2>2 DEF IInv, Typed, Kept
  <2>4. Read'
    BY NotARead DEF fff_rename, Answer
  <2> QED
    BY <2>3, <2>4 DEF IInv
<1> QED
  BY <1>2, <1>3 DEF fff_rename

\* What a read answers, from the file and its last write.
LEMMA ReadKeeps ==
  ASSUME IInv, NEW p \in Paths, fff_read(p)
  PROVE  IInv'
<1> DEFINE c == files[At(p)]
           w == last[At(p)]
<1>1. /\ At(p) \in DOMAIN files /\ key' = key /\ files' = files /\ given' = given /\ last' = last
      /\ reply'.op = "read" /\ reply'.path = p
  BY DEF fff_read, Answer
<1>2. Typed' /\ Kept'
  BY <1>1 DEF IInv, Typed, Kept
<1>3. Plain(p)' <=> Plain(p)
  BY <1>1 DEF Plain
<1>4. /\ Allowed(c, given)
      /\ w \in [v : Values \cup {NoValue}, sealed : BOOLEAN]
      /\ w.v # NoValue => Shows(c, w)
  BY <1>1 DEF IInv, Kept
<1>5. CASE Plain(p)
  <2>1. SealedReadsAuthentic'
    BY <1>1, <1>3, <1>5 DEF SealedReadsAuthentic
  <2>2. ReadsBack'
    <3> SUFFICES ASSUME p \notin TooLong, w.v # NoValue, w.sealed = FALSE
                 PROVE  reply'.ret = "OK" /\ IsPrefixOf(Bytes(w.v), reply'.got)
      BY <1>1, <1>3, <1>4, <1>5 DEF ReadsBack
    <3>1. reply'.ret = "OK" /\ reply'.got = Parts(c)
      BY <1>5 DEF fff_read, ReadsPlain, IsMetadata, Answer, Result
    <3>2. c.head = Text(w.v) /\ (w.v \in Long => c.body = Text(w.v)) /\ w.v \in Values
      BY <1>4 DEF Shows
    <3>3. Text(w.v) # Nothing
      BY DEF Text, Nothing
    <3>4. CASE w.v \in Long
      BY <3>1, <3>2, <3>3, <3>4 DEF IsPrefixOf, Bytes, Parts
    <3>5. CASE w.v \notin Long
      <4>1. Bytes(w.v) = <<Text(w.v)>>
        BY <3>5 DEF Bytes
      <4>2. Parts(c) = <<c.head, c.body>> \/ Parts(c) = <<c.head>>
        BY <3>2, <3>3 DEF Parts
      <4> QED
        BY <3>1, <3>2, <4>1, <4>2 DEF IsPrefixOf
    <3> QED
      BY <3>4, <3>5
  <2> QED
    BY <1>2, <2>1, <2>2 DEF IInv, Read
<1>6. CASE ~Plain(p)
  <2>1. reply'.ret = Decrypted(c).ret /\ reply'.got = Decrypted(c).got
    BY <1>6 DEF Plain, fff_read, ReadsPlain, Answer
  <2>2. CASE \E v \in Values : c = Sealed(v)
    <3> PICK v \in Values : c = Sealed(v)
      BY <2>2
    <3>1. Decrypted(c) = Result("OK", Bytes(v))
      BY PathAssumption DEF Decrypted, Sealed, Header, Block, OnlyHeader, Nothing
    <3>2. v \in given.secret
      BY <1>4 DEF Allowed, Sealed
    <3>3. \A i \in DOMAIN Bytes(v) : Bytes(v)[i] = Text(v)
      BY DEF Bytes
    <3>4. SealedReadsAuthentic'
      BY <1>1, <2>1, <3>1, <3>2, <3>3 DEF SealedReadsAuthentic, Result, Text
    <3>5. ReadsBack'
      <4> SUFFICES ASSUME w.v # NoValue, w.sealed = TRUE
                   PROVE  reply'.ret = "OK" /\ IsPrefixOf(Bytes(w.v), reply'.got)
        BY <1>1, <1>3, <1>4, <1>6 DEF ReadsBack
      <4>1. w.v = v
        BY <1>4 DEF Shows, Sealed, Block
      <4>2. Len(Bytes(v)) \in Nat
        BY DEF Bytes
      <4> QED
        BY <2>1, <3>1, <4>1, <4>2 DEF IsPrefixOf, Result
    <3> QED
      BY <1>2, <3>4, <3>5 DEF IInv, Read
  <2>3. CASE ~\E v \in Values : c = Sealed(v)
    <3>1. Decrypted(c).got = <<>>
      <4>1. CASE c = EmptyFile
        BY <4>1 DEF Decrypted, Result, EmptyFile, Nothing
      <4>2. CASE c = OnlyHeader
        BY <4>2 DEF Decrypted, Result, OnlyHeader, Header
      <4>3. CASE c.head.kind = "text"
        BY <4>3 DEF Decrypted, Result
      <4>4. Form(c)
        BY <1>4 DEF Allowed
      <4>5. ASSUME NEW v, NEW b, c = [head |-> Text(v), body |-> b]
            PROVE  c.head.kind = "text"
        BY <4>5 DEF Text
      <4> QED
        BY <2>3, <4>1, <4>2, <4>3, <4>4, <4>5, Zenon DEF Form
    <3>2. ~(w.v # NoValue /\ w.sealed)
      BY <1>4, <2>3 DEF Shows
    <3>3. SealedReadsAuthentic'
      BY <1>1, <2>1, <3>1 DEF SealedReadsAuthentic
    <3>4. ReadsBack'
      BY <1>1, <1>3, <1>4, <1>6, <3>2 DEF ReadsBack
    <3> QED
      BY <1>2, <3>3, <3>4 DEF IInv, Read
  <2> QED
    BY <2>2, <2>3
<1> QED
  BY <1>5, <1>6

LEMMA NextIInv == IInv /\ [Next]_vars => IInv'
<1> SUFFICES ASSUME IInv, [Next]_vars PROVE IInv'
  OBVIOUS
<1>1. ASSUME NEW p \in Paths, fff_create(p) PROVE IInv'
  BY <1>1, CreateKeeps
<1>2. ASSUME NEW p \in Paths, fff_read(p) PROVE IInv'
  BY <1>2, ReadKeeps
<1>3. ASSUME NEW p \in Paths, fff_truncate(p) PROVE IInv'
  BY <1>3, TruncateKeeps
<1>4. ASSUME NEW p \in Paths, fff_unlink(p) PROVE IInv'
  BY <1>4, UnlinkKeeps
<1>5. ASSUME NEW p \in Paths, fff_mkdir(p) \/ fff_rmdir(p) PROVE IInv'
  BY <1>5, NotARead DEF fff_mkdir, fff_rmdir, Answer, IInv, Typed, Kept
<1>6. ASSUME NEW p \in Paths, NEW v \in Values, fff_write(p, v) PROVE IInv'
  BY <1>6, WriteKeeps
<1>7. ASSUME NEW p \in Paths, NEW q \in Paths, fff_rename(p, q) PROVE IInv'
  BY <1>7, RenameKeeps
<1>8. ASSUME NEW k \in BOOLEAN, fff_init(k) PROVE IInv'
  BY <1>8, NotARead DEF fff_init, IInv, Typed, Kept
<1>9. CASE UNCHANGED vars
  BY <1>9 DEF vars, IInv, Typed, Kept, Read, ReadsBack, SealedReadsAuthentic, Plain
<1> QED
  BY <1>1, <1>2, <1>3, <1>4, <1>5, <1>6, <1>7, <1>8, <1>9 DEF Next

THEOREM IInvHolds == Spec => []IInv
BY InitIInv, NextIInv, PTL DEF Spec

\* Whatever is renamed, aliased or mounted without the key, what lies open on
\* the volume was written to a listed path, without the key or to a path too
\* long to classify, and what lies encrypted was written to another one.
THEOREM ClassIsHonoured == Spec => []ClassHonoured
<1>1. IInv => ClassHonoured
  BY DEF IInv, Kept, Allowed, ClassHonoured, Holds
<1> QED
  BY <1>1, IInvHolds, PTL

\* A file reads back what was last written to it, under every path that has the
\* class of the path it was written under.
THEOREM LastWriteReadsBack == Spec => []ReadsBack
<1>1. IInv => ReadsBack
  BY DEF IInv, Read, ReadsBack
<1> QED
  BY <1>1, IInvHolds, PTL

\* A read under an encrypted path answers nothing but what was written under
\* one.
THEOREM SealedReadsAreAuthentic == Spec => []SealedReadsAuthentic
<1>1. IInv => SealedReadsAuthentic
  BY DEF IInv, Read, SealedReadsAuthentic
<1> QED
  BY <1>1, IInvHolds, PTL
-----------------------------------------------------------------------------
(* The tree of names.                                                      *)

\* A name in the tree has a directory above it at every level.
Rooted(f, ds) == f \in Seq(Names) /\ f # <<>> /\ \A k \in 1 .. Len(f) - 1 : SubSeq(f, 1, k) \in ds

Tree ==
  /\ dirs \cap DOMAIN files = {}
  /\ \A f \in dirs \cup DOMAIN files : Rooted(f, dirs)
  /\ requests \in 0 .. MaxRequests

\* The name FAT finds is a name.
LEMMA AtIs ==
  ASSUME NEW p \in Paths
  PROVE  At(p) \in Seq(Names) /\ At(p) # <<>> /\ Len(At(p)) = Len(p)
<1>1. p \in Seq(Names) /\ p # <<>>
  BY PathAssumption
<1>2. Len(p) \in Nat /\ p \in [1 .. Len(p) -> Names] /\ Len(p) # 0
  BY <1>1, LenProperties, EmptySeq
<1>3. At(p) \in [1 .. Len(p) -> Names]
  BY <1>2, PathAssumption DEF At
<1>4. At(p) \in Seq(Names)
  BY <1>2, <1>3
<1>5. Len(At(p)) = Len(p)
  BY <1>2, <1>3
<1>6. QED
  BY <1>2, <1>4, <1>5

\* The beginning of a name, and the beginning of that.
LEMMA PrefixFacts ==
  ASSUME NEW f \in Seq(Names), NEW n \in 1 .. Len(f)
  PROVE  LET s == SubSeq(f, 1, n) IN
         /\ s \in Seq(Names) /\ Len(s) = n /\ s # <<>>
         /\ \A i \in 1 .. n : s[i] = f[i]
         /\ \A k \in 1 .. n : SubSeq(s, 1, k) = SubSeq(f, 1, k)
<1> DEFINE s == SubSeq(f, 1, n)
<1>1. Len(f) \in Nat /\ \A i \in 1 .. Len(f) : f[i] \in Names
  BY LenProperties, ElementOfSeq
<1>2. n \in Nat /\ 1 <= n /\ n <= Len(f) /\ \A i \in 1 .. n : f[i] \in Names
  BY <1>1
<1>3. /\ s \in Seq(Names) /\ Len(s) = IF 1 <= n THEN n - 1 + 1 ELSE 0
      /\ \A i \in 1 .. n - 1 + 1 : s[i] = f[1 + i - 1]
  BY <1>2, SubSeqProperties
<1> HIDE DEF s
<1>4. Len(s) = n /\ \A i \in 1 .. n : s[i] = f[i]
  BY <1>2, <1>3
<1>5. s # <<>>
  BY <1>2, <1>3, <1>4, EmptySeq
<1>6. ASSUME NEW k \in 1 .. n PROVE SubSeq(s, 1, k) = SubSeq(f, 1, k)
  <2>1. k \in 1 .. n - 1 + 1 /\ 1 \in 1 .. n - 1 + 1 /\ 1 \in 1 .. Len(f) /\ n \in 1 .. Len(f)
        /\ 1 + 1 - 1 = 1 /\ 1 + k - 1 = k
    BY <1>2
  <2>2. SubSeq(SubSeq(f, 1, n), 1, k) = SubSeq(f, 1 + 1 - 1, 1 + k - 1)
    BY <2>1, SubSeqOfSubSeq
  <2>3. QED
    BY <2>1, <2>2 DEF s
<1>7. QED
  BY <1>3, <1>4, <1>5, <1>6 DEF s

\* A name lies under a directory when it begins with it.
LEMMA UnderIsBeginning ==
  ASSUME NEW f \in Seq(Names), NEW d \in Seq(Names), d # <<>>
  PROVE  IsUnder(f, d) <=> Len(d) \in 1 .. Len(f) /\ SubSeq(f, 1, Len(d)) = d
<1>1. Len(f) \in Nat /\ Len(d) \in Nat \ {0}
  BY LenProperties, EmptySeq
<1>2. ASSUME IsUnder(f, d) PROVE Len(d) \in 1 .. Len(f) /\ SubSeq(f, 1, Len(d)) = d
  <2>1. Len(d) \in 1 .. Len(f) /\ \A i \in 1 .. Len(d) : f[i] = d[i]
    BY <1>1, <1>2 DEF IsUnder
  <2>2. /\ SubSeq(f, 1, Len(d)) \in Seq(Names) /\ Len(SubSeq(f, 1, Len(d))) = Len(d)
        /\ \A i \in 1 .. Len(d) : SubSeq(f, 1, Len(d))[i] = f[i]
    BY <2>1, PrefixFacts
  <2>3. \A i \in 1 .. Len(SubSeq(f, 1, Len(d))) : SubSeq(f, 1, Len(d))[i] = d[i]
    BY <2>1, <2>2
  <2>4. QED
    BY <2>1, <2>2, <2>3, SeqEqual
<1>3. ASSUME Len(d) \in 1 .. Len(f), SubSeq(f, 1, Len(d)) = d PROVE IsUnder(f, d)
  <2>1. \A i \in 1 .. Len(d) : SubSeq(f, 1, Len(d))[i] = f[i]
    BY <1>3, PrefixFacts
  <2>2. QED
    BY <1>1, <1>3, <2>1 DEF IsUnder
<1>4. QED
  BY <1>2, <1>3

\* What a rename makes of a name under src.
LEMMA RenamedIs ==
  ASSUME NEW f \in Seq(Names), NEW src \in Seq(Names), NEW dst \in Seq(Names),
         src # <<>>, dst # <<>>, IsUnder(f, src)
  PROVE  LET g == Renamed(f, src, dst) IN
         /\ g \in Seq(Names) /\ g # <<>>
         /\ Len(g) = Len(dst) + (Len(f) - Len(src))
         /\ \A i \in 1 .. Len(dst) : g[i] = dst[i]
         /\ \A i \in 1 .. Len(f) - Len(src) : g[Len(dst) + i] = f[Len(src) + i]
<1> DEFINE a == Len(src)
           b == Len(dst)
           n == Len(f)
           r == SubSeq(f, a + 1, n)
           g == Renamed(f, src, dst)
<1>1. n \in Nat /\ a \in Nat \ {0} /\ b \in Nat \ {0} /\ \A i \in 1 .. n : f[i] \in Names
  BY LenProperties, EmptySeq, ElementOfSeq
<1>2. a <= n
  BY DEF IsUnder
<1>3. g = dst \o r
  BY DEF Renamed
<1> HIDE DEF g, a, b, n
<1>4. a + 1 \in Int /\ n \in Int /\ \A i \in a + 1 .. n : f[i] \in Names
  BY <1>1, <1>2
<1>5. /\ r \in Seq(Names) /\ Len(r) = IF a + 1 <= n THEN n - (a + 1) + 1 ELSE 0
      /\ \A i \in 1 .. n - (a + 1) + 1 : r[i] = f[a + 1 + i - 1]
  BY <1>4, SubSeqProperties
<1> HIDE DEF r
<1>6. Len(r) = n - a /\ \A i \in 1 .. n - a : r[i] = f[a + i]
  <2>1. n - (a + 1) + 1 = n - a /\ \A i \in 1 .. n - a : a + 1 + i - 1 = a + i
    BY <1>1, <1>2
  <2>2. QED
    BY <1>1, <1>2, <1>5, <2>1
<1>7. /\ g \in Seq(Names) /\ Len(g) = b + Len(r)
      /\ \A i \in 1 .. b + Len(r) : g[i] = IF i <= b THEN dst[i] ELSE r[i - b]
  BY <1>3, <1>5, ConcatProperties DEF b
<1>8. g # <<>>
  BY <1>1, <1>2, <1>6, <1>7, EmptySeq
<1>9. \A i \in 1 .. b : g[i] = dst[i]
  BY <1>1, <1>2, <1>6, <1>7
<1>10. ASSUME NEW i \in 1 .. n - a PROVE g[b + i] = f[a + i]
  <2>1. b + i \in 1 .. b + Len(r) /\ ~(b + i <= b) /\ (b + i) - b = i
    BY <1>1, <1>2, <1>6
  <2>2. QED
    BY <1>6, <1>7, <2>1
<1>11. QED
  BY <1>6, <1>7, <1>8, <1>9, <1>10 DEF g, a, b, n

\* The beginnings of a renamed name: those of the new directory, then the
\* renamed ones.
LEMMA RenamedBeginnings ==
  ASSUME NEW f \in Seq(Names), NEW src \in Seq(Names), NEW dst \in Seq(Names),
         src # <<>>, dst # <<>>, IsUnder(f, src),
         NEW k \in 1 .. Len(Renamed(f, src, dst)) - 1
  PROVE  LET s == SubSeq(Renamed(f, src, dst), 1, k)
             m == Len(src) + (k - Len(dst))
         IN  /\ k < Len(dst) => k \in 1 .. Len(dst) - 1 /\ s = SubSeq(dst, 1, k)
             /\ k >= Len(dst) => /\ m \in 1 .. Len(f) - 1
                                 /\ s = Renamed(SubSeq(f, 1, m), src, dst)
<1> DEFINE g == Renamed(f, src, dst)
           s == SubSeq(g, 1, k)
           a == Len(src)
           b == Len(dst)
           n == Len(f)
           m == a + (k - b)
<1>1. n \in Nat /\ a \in Nat \ {0} /\ b \in Nat \ {0} /\ a <= n
  BY LenProperties, EmptySeq DEF IsUnder
<1>2. /\ g \in Seq(Names) /\ Len(g) = b + (n - a)
      /\ \A i \in 1 .. b : g[i] = dst[i]
      /\ \A i \in 1 .. n - a : g[b + i] = f[a + i]
  BY RenamedIs
<1> HIDE DEF g
<1>3. k \in 1 .. b + (n - a) - 1 /\ k \in 1 .. Len(g)
  BY <1>1, <1>2 DEF g
<1>4. s \in Seq(Names) /\ Len(s) = k /\ \A i \in 1 .. k : s[i] = g[i]
  BY <1>2, <1>3, PrefixFacts
<1> HIDE DEF s
<1>5. ASSUME k < b PROVE k \in 1 .. b - 1 /\ s = SubSeq(dst, 1, k)
  <2> DEFINE t == SubSeq(dst, 1, k)
  <2>1. k \in 1 .. b - 1 /\ k \in 1 .. b
    BY <1>1, <1>3, <1>5
  <2>2. t \in Seq(Names) /\ Len(t) = k /\ \A i \in 1 .. k : t[i] = dst[i]
    BY <2>1, PrefixFacts
  <2>3. \A i \in 1 .. k : i \in 1 .. b
    BY <1>1, <1>3, <1>5
  <2> HIDE DEF t
  <2>4. Len(s) = Len(t) /\ \A i \in 1 .. Len(s) : s[i] = t[i]
    BY <1>2, <1>4, <2>2, <2>3
  <2>5. s = t
    BY <1>4, <2>2, <2>4, SeqEqual
  <2>6. QED
    BY <2>1, <2>5 DEF t
<1>6. ASSUME k >= b PROVE m \in 1 .. n - 1 /\ s = Renamed(SubSeq(f, 1, m), src, dst)
  <2> DEFINE u == SubSeq(f, 1, m)
             t == Renamed(u, src, dst)
  <2>1. m \in 1 .. n - 1 /\ m \in 1 .. n /\ a <= m /\ b + (m - a) = k
    BY <1>1, <1>3, <1>6
  <2>2. u \in Seq(Names) /\ Len(u) = m /\ \A i \in 1 .. m : u[i] = f[i]
    BY <2>1, PrefixFacts
  <2> HIDE DEF u, m
  <2>3. IsUnder(u, src)
    BY <1>1, <2>1, <2>2 DEF IsUnder
  <2>4. /\ t \in Seq(Names) /\ Len(t) = k
        /\ \A i \in 1 .. b : t[i] = dst[i]
        /\ \A i \in 1 .. m - a : t[b + i] = u[a + i]
    BY <2>1, <2>2, <2>3, RenamedIs
  <2> HIDE DEF t
  <2>5. ASSUME NEW i \in 1 .. k PROVE s[i] = t[i]
    <3>1. CASE i <= b
      <4>1. i \in 1 .. b
        BY <1>1, <1>3, <3>1
      <4>2. QED
        BY <1>2, <1>4, <2>4, <2>5, <4>1
    <3>2. CASE i > b
      <4>1. i - b \in 1 .. m - a /\ i - b \in 1 .. n - a /\ a + (i - b) \in 1 .. m /\ b + (i - b) = i
        BY <1>1, <1>3, <2>1, <3>2
      <4>2. g[i] = f[a + (i - b)] /\ t[i] = u[a + (i - b)]
        BY <1>2, <2>4, <4>1
      <4>3. QED
        BY <1>4, <2>2, <2>5, <4>1, <4>2
    <3>3. QED
      BY <1>1, <1>3, <3>1, <3>2
  <2>6. s = t
    BY <1>4, <2>4, <2>5, SeqEqual
  <2>7. QED
    BY <2>1, <2>6 DEF t, u, m
<1>7. QED
  BY <1>5, <1>6 DEF s, g, a, b, n, m

\* A rename gives two names under src different names again.
LEMMA RenamedApart ==
  ASSUME NEW f \in Seq(Names), NEW h \in Seq(Names), NEW src \in Seq(Names), NEW dst \in Seq(Names),
         src # <<>>, dst # <<>>, IsUnder(f, src), IsUnder(h, src),
         Renamed(f, src, dst) = Renamed(h, src, dst)
  PROVE  f = h
<1> DEFINE a == Len(src)
           b == Len(dst)
           n == Len(f)
           g == Renamed(f, src, dst)
<1>1. n \in Nat /\ Len(h) \in Nat /\ a \in Nat \ {0} /\ b \in Nat \ {0} /\ a <= n /\ a <= Len(h)
  BY LenProperties, EmptySeq DEF IsUnder
<1>2. Len(g) = b + (n - a) /\ \A i \in 1 .. n - a : g[b + i] = f[a + i]
  BY RenamedIs
<1> HIDE DEF g
<1>3. Len(g) = b + (Len(h) - a) /\ \A i \in 1 .. Len(h) - a : g[b + i] = h[a + i]
  <2> DEFINE e == Renamed(h, src, dst)
  <2>1. Len(e) = b + (Len(h) - a) /\ \A i \in 1 .. Len(h) - a : e[b + i] = h[a + i]
    BY RenamedIs
  <2>2. g = e
    BY DEF g
  <2> HIDE DEF e
  <2>3. QED
    BY <2>1, <2>2
<1>4. Len(h) = n
  BY <1>1, <1>2, <1>3
<1>5. ASSUME NEW i \in 1 .. n PROVE f[i] = h[i]
  <2>1. CASE i <= a
    BY <1>1, <2>1 DEF IsUnder
  <2>2. CASE i > a
    <3>1. i - a \in 1 .. n - a /\ a + (i - a) = i
      BY <1>1, <2>2
    <3>2. QED
      BY <1>2, <1>3, <1>4, <3>1
  <2>3. QED
    BY <1>1, <2>1, <2>2
<1>6. QED
  BY <1>4, <1>5, SeqEqual

\* What the rename of an existing object to a free name does to the tree.
LEMMA RenamedRooted ==
  ASSUME Tree, NEW src \in Seq(Names), NEW dst \in Seq(Names), src # <<>>, dst # <<>>,
         InPlace(dst), IsUnder(dst, src) => dst = src,
         NEW f \in dirs \cup DOMAIN files
  PROVE  Rooted(Renamed(f, src, dst), {Renamed(d, src, dst) : d \in dirs})
<1> DEFINE ds == {Renamed(d, src, dst) : d \in dirs}
           g == Renamed(f, src, dst)
<1>1. \A x \in dirs \cup DOMAIN files : Rooted(x, dirs)
  BY DEF Tree
<1>2. f \in Seq(Names) /\ f # <<>> /\ \A k \in 1 .. Len(f) - 1 : SubSeq(f, 1, k) \in dirs
  BY <1>1 DEF Rooted
<1>3. Len(f) \in Nat \ {0} /\ Len(src) \in Nat \ {0} /\ Len(dst) \in Nat \ {0}
  BY <1>2, LenProperties, EmptySeq
<1>4. \A k \in 1 .. Len(f) - 1 : k \in 1 .. Len(f)
  BY <1>3
<1>5. CASE ~IsUnder(f, src)
  <2>1. g = f
    BY <1>5 DEF Renamed
  <2>2. ASSUME NEW k \in 1 .. Len(f) - 1 PROVE SubSeq(f, 1, k) \in ds
    <3> DEFINE s == SubSeq(f, 1, k)
    <3>1. s \in dirs /\ s \in Seq(Names) /\ Len(s) = k /\ k \in 1 .. Len(f)
          /\ \A m \in 1 .. k : SubSeq(s, 1, m) = SubSeq(f, 1, m)
      BY <1>2, <1>4, PrefixFacts
    <3> HIDE DEF s
    <3>2. ~IsUnder(s, src)
      <4>1. SUFFICES ASSUME IsUnder(s, src) PROVE FALSE
        OBVIOUS
      <4>2. Len(src) \in 1 .. k /\ SubSeq(f, 1, Len(src)) = src
        BY <3>1, <4>1, UnderIsBeginning
      <4>3. Len(src) \in 1 .. Len(f)
        BY <1>3, <3>1, <4>2
      <4>4. QED
        BY <1>2, <1>5, <4>2, <4>3, UnderIsBeginning
    <3>3. Renamed(s, src, dst) = s
      BY <3>2 DEF Renamed
    <3>4. QED
      BY <3>1, <3>3 DEF s
  <2>3. QED
    BY <1>2, <2>1, <2>2 DEF Rooted
<1>6. CASE IsUnder(f, src)
  <2>1. g \in Seq(Names) /\ g # <<>>
    BY <1>2, <1>6, RenamedIs
  <2>2. ASSUME NEW k \in 1 .. Len(g) - 1 PROVE SubSeq(g, 1, k) \in ds
    <3> DEFINE m == Len(src) + (k - Len(dst))
    <3>1. /\ k < Len(dst) => k \in 1 .. Len(dst) - 1 /\ SubSeq(g, 1, k) = SubSeq(dst, 1, k)
          /\ k >= Len(dst) => /\ m \in 1 .. Len(f) - 1
                              /\ SubSeq(g, 1, k) = Renamed(SubSeq(f, 1, m), src, dst)
      BY <1>2, <1>6, RenamedBeginnings
    <3> HIDE DEF g, m
    <3>2. CASE k >= Len(dst)
      BY <1>2, <3>1, <3>2
    <3>3. CASE k < Len(dst)
      <4> DEFINE par == SubSeq(dst, 1, Len(dst) - 1)
                 s == SubSeq(dst, 1, k)
      <4>1. k \in 1 .. Len(dst) - 1 /\ SubSeq(g, 1, k) = s
        BY <3>1, <3>3
      <4>2. Len(dst) # 1 /\ Len(dst) - 1 \in 1 .. Len(dst) /\ k \in 1 .. Len(dst)
        <5> DEFINE n == Len(dst)
        <5>1. n \in Nat /\ k \in 1 .. n - 1
          BY <1>3, <4>1
        <5> HIDE DEF n
        <5>2. n # 1 /\ n - 1 \in 1 .. n /\ k \in 1 .. n
          BY <5>1
        <5>3. QED
          BY <5>2 DEF n
      <4>3. par \in dirs
        BY <4>2 DEF InPlace, Parent
      <4>4. par \in Seq(Names) /\ Len(par) = Len(dst) - 1 /\ SubSeq(par, 1, k) = s
        BY <4>1, <4>2, PrefixFacts
      <4>5. s \in Seq(Names) /\ Len(s) = k /\ s # <<>> /\ \A i \in 1 .. k : SubSeq(s, 1, i) = SubSeq(dst, 1, i)
        BY <4>2, PrefixFacts
      <4>6. s \in dirs
        <5>1. CASE k = Len(dst) - 1
          BY <4>3, <5>1
        <5>2. CASE k # Len(dst) - 1
          <6>1. k \in 1 .. Len(par) - 1
            BY <1>3, <4>1, <4>4, <5>2
          <6>2. QED
            BY <1>1, <4>3, <4>4, <6>1 DEF Rooted
        <5>3. QED
          BY <5>1, <5>2
      <4> HIDE DEF s, par
      <4>7. ~IsUnder(s, src)
        <5>1. SUFFICES ASSUME IsUnder(s, src) PROVE FALSE
          OBVIOUS
        <5>2. Len(src) \in 1 .. k /\ SubSeq(dst, 1, Len(src)) = src
          BY <4>5, <5>1, UnderIsBeginning
        <5>3. Len(src) \in 1 .. Len(dst) /\ Len(src) < Len(dst)
          BY <1>3, <4>1, <5>2
        <5>4. IsUnder(dst, src)
          BY <5>2, <5>3, UnderIsBeginning
        <5>5. QED
          BY <1>3, <5>3, <5>4
      <4>8. Renamed(s, src, dst) = s
        BY <4>7 DEF Renamed
      <4>9. QED
        BY <4>1, <4>6, <4>8
    <3>4. QED
      BY <1>3, <3>2, <3>3
  <2>3. QED
    BY <2>1, <2>2 DEF Rooted
<1>7. QED
  BY <1>5, <1>6

\* No two objects get one name.
LEMMA RenamedDistinct ==
  ASSUME Tree, NEW src \in Seq(Names), NEW dst \in Seq(Names), src # <<>>, dst # <<>>,
         src = dst \/ ~Exists(dst),
         NEW f \in dirs \cup DOMAIN files, NEW h \in dirs \cup DOMAIN files,
         Renamed(f, src, dst) = Renamed(h, src, dst)
  PROVE  f = h
<1>1. \A x \in dirs \cup DOMAIN files : Rooted(x, dirs)
  BY DEF Tree
<1>2. f \in Seq(Names) /\ h \in Seq(Names)
  BY <1>1 DEF Rooted
<1>3. ASSUME NEW x \in dirs \cup DOMAIN files, NEW y \in dirs \cup DOMAIN files,
             IsUnder(x, src), ~IsUnder(y, src), Renamed(x, src, dst) = Renamed(y, src, dst)
      PROVE  FALSE
  <2>1. x \in Seq(Names) /\ y \in Seq(Names) /\ Rooted(y, dirs)
    BY <1>1 DEF Rooted
  <2>2. y = Renamed(x, src, dst)
    BY <1>3 DEF Renamed
  <2>3. /\ Len(y) = Len(dst) + (Len(x) - Len(src))
        /\ \A i \in 1 .. Len(dst) : y[i] = dst[i]
    BY <1>3, <2>1, <2>2, RenamedIs
  <2>4. Len(x) \in Nat /\ Len(src) \in Nat /\ Len(dst) \in Nat /\ Len(y) \in Nat /\ Len(src) <= Len(x)
    BY <1>3, <2>1, LenProperties DEF IsUnder
  <2>5. IsUnder(y, dst)
    BY <2>3, <2>4 DEF IsUnder
  <2>6. CASE src = dst
    BY <1>3, <2>5, <2>6
  <2>7. CASE ~Exists(dst)
    <3>1. Len(dst) \in 1 .. Len(y) /\ SubSeq(y, 1, Len(dst)) = dst
      BY <2>1, <2>5, UnderIsBeginning
    <3>2. CASE Len(dst) = Len(y)
      <4>1. y = dst
        BY <2>1, <3>1, <3>2, SubSeqFull
      <4>2. QED
        BY <1>3, <2>7, <4>1 DEF Exists
    <3>3. CASE Len(dst) # Len(y)
      <4>1. Len(dst) \in 1 .. Len(y) - 1
        BY <2>4, <3>1, <3>3
      <4>2. QED
        BY <2>1, <2>7, <3>1, <4>1 DEF Rooted, Exists
    <3>4. QED
      BY <3>2, <3>3
  <2>8. QED
    BY <2>6, <2>7
<1>4. CASE IsUnder(f, src) /\ IsUnder(h, src)
  BY <1>2, <1>4, RenamedApart
<1>5. CASE ~IsUnder(f, src) /\ ~IsUnder(h, src)
  BY <1>5 DEF Renamed
<1>6. QED
  BY <1>3, <1>4, <1>5

\* A new file or directory stands in an existing one.
LEMMA NewRooted ==
  ASSUME Tree, NEW f \in Seq(Names), f # <<>>, InPlace(f)
  PROVE  Rooted(f, dirs)
<1>1. Len(f) \in Nat \ {0}
  BY LenProperties, EmptySeq
<1>2. ASSUME NEW k \in 1 .. Len(f) - 1 PROVE SubSeq(f, 1, k) \in dirs
  <2> DEFINE n == Len(f)
             par == SubSeq(f, 1, n - 1)
  <2>1. n \in Nat /\ k \in 1 .. n - 1
    BY <1>1, <1>2
  <2>2. par \in dirs
    <3>1. n # 1
      <4> HIDE DEF n
      <4>1. QED
        BY <2>1
    <3>2. QED
      BY <3>1 DEF InPlace, Parent
  <2> HIDE DEF n, par
  <2>3. n - 1 \in 1 .. n
    BY <2>1
  <2>4. Len(par) = n - 1 /\ SubSeq(par, 1, k) = SubSeq(f, 1, k)
    BY <2>1, <2>3, PrefixFacts DEF n, par
  <2>5. Rooted(par, dirs)
    BY <2>2 DEF Tree
  <2>6. CASE k = n - 1
    BY <2>2, <2>6 DEF par
  <2>7. CASE k # n - 1
    <3>1. k \in 1 .. Len(par) - 1
      BY <2>1, <2>4, <2>7
    <3>2. QED
      BY <2>4, <2>5, <3>1 DEF Rooted
  <2>8. QED
    BY <2>6, <2>7
<1>3. QED
  BY <1>2 DEF Rooted

\* One more request.
LEMMA OneMore ==
  ASSUME Tree, Request
  PROVE  requests' \in 0 .. MaxRequests
BY PathAssumption DEF Tree, Request

\* rmdir removes an empty directory, so what is left is still in directories.
LEMMA RmdirTree ==
  ASSUME Tree, NEW p \in Paths, fff_rmdir(p)
  PROVE  Tree'
<1> DEFINE d == At(p)
<1>1. d \in Seq(Names) /\ d # <<>>
  BY AtIs
<1>2. files' = files /\ requests' \in 0 .. MaxRequests
  BY OneMore DEF fff_rmdir
<1>3. CASE dirs' = dirs
  BY <1>2, <1>3 DEF Tree
<1>4. CASE /\ \A f \in dirs \cup DOMAIN files : IsUnder(f, d) => f = d
           /\ dirs' = dirs \ {d}
  <2> HIDE DEF d
  <2>1. dirs' \cap DOMAIN files' = {}
    BY <1>2, <1>4 DEF Tree
  <2>2. ASSUME NEW f \in dirs' \cup DOMAIN files' PROVE Rooted(f, dirs')
    <3>1. f \in dirs \cup DOMAIN files /\ Rooted(f, dirs)
      BY <1>2, <1>4 DEF Tree
    <3>2. f \in Seq(Names) /\ f # <<>>
      BY <3>1 DEF Rooted
    <3>3. ASSUME NEW k \in 1 .. Len(f) - 1 PROVE SubSeq(f, 1, k) # d
      <4>1. SUFFICES ASSUME SubSeq(f, 1, k) = d PROVE FALSE
        OBVIOUS
      <4>2. Len(f) \in Nat
        BY <3>2, LenProperties
      <4>3. k \in 1 .. Len(f) /\ k # Len(f)
        BY <3>3, <4>2
      <4>4. Len(d) = k
        BY <3>2, <4>1, <4>3, PrefixFacts
      <4>5. IsUnder(f, d)
        BY <1>1, <3>2, <4>1, <4>3, <4>4, UnderIsBeginning
      <4>6. f = d
        BY <1>4, <3>1, <4>5
      <4>7. QED
        BY <4>3, <4>4, <4>6
    <3>4. QED
      BY <1>4, <3>1, <3>3 DEF Rooted
  <2>3. QED
    BY <1>2, <2>1, <2>2 DEF Tree
<1>5. QED
  BY <1>3, <1>4 DEF fff_rmdir

\* A renamed directory takes along what is in it: the names move as one.
LEMMA RenameTree ==
  ASSUME Tree, NEW p \in Paths, NEW q \in Paths, fff_rename(p, q)
  PROVE  Tree'
<1> DEFINE src == At(p)
           dst == At(q)
           ok == src = dst \/ ~Exists(dst)
<1>1. src \in Seq(Names) /\ src # <<>> /\ dst \in Seq(Names) /\ dst # <<>>
  BY AtIs
<1>2. /\ requests' \in 0 .. MaxRequests
      /\ InPlace(dst) /\ (IsUnder(dst, src) => dst = src)
      /\ dirs' = IF ok THEN {Renamed(d, src, dst) : d \in dirs} ELSE dirs
      /\ files' = IF ok THEN Moved(files, src, dst) ELSE files
  BY OneMore DEF fff_rename
<1> HIDE DEF src, dst
<1>3. CASE ~ok
  BY <1>2, <1>3 DEF Tree
<1>4. CASE ok
  <2>1. DOMAIN files' = {Renamed(f, src, dst) : f \in DOMAIN files}
    BY <1>2, <1>4 DEF Moved
  <2>2. dirs' = {Renamed(d, src, dst) : d \in dirs}
    BY <1>2, <1>4
  <2>3. \A f \in dirs \cup DOMAIN files : Rooted(Renamed(f, src, dst), dirs')
    BY <1>1, <1>2, <2>2, RenamedRooted
  <2>4. dirs' \cap DOMAIN files' = {}
    <3>1. SUFFICES ASSUME NEW d \in dirs, NEW f \in DOMAIN files,
                          Renamed(d, src, dst) = Renamed(f, src, dst)
                   PROVE  FALSE
      BY <2>1, <2>2
    <3>2. d = f
      BY <1>1, <1>4, <3>1, RenamedDistinct
    <3>3. QED
      BY <3>2 DEF Tree
  <2>5. QED
    BY <1>2, <2>1, <2>2, <2>3, <2>4 DEF Tree
<1>5. QED
  BY <1>3, <1>4

\* Every request and mount leaves a tree.
LEMMA TreeKept ==
  ASSUME Tree, [Next]_vars
  PROVE  Tree'
<1>1. ASSUME NEW p \in Paths, fff_create(p) PROVE Tree'
  <2> DEFINE f == At(p)
  <2>1. f \in Seq(Names) /\ f # <<>>
    BY AtIs
  <2>2. /\ requests' \in 0 .. MaxRequests /\ dirs' = dirs /\ f \notin dirs /\ InPlace(f)
        /\ DOMAIN files' = DOMAIN files \cup {f}
    BY <1>1, OneMore DEF fff_create, Exists, Put
  <2> HIDE DEF f
  <2>3. Rooted(f, dirs)
    BY <2>1, <2>2, NewRooted
  <2>4. QED
    BY <2>2, <2>3 DEF Tree
<1>2. ASSUME NEW p \in Paths, fff_mkdir(p) PROVE Tree'
  <2> DEFINE f == At(p)
  <2>1. f \in Seq(Names) /\ f # <<>>
    BY AtIs
  <2>2. /\ requests' \in 0 .. MaxRequests /\ dirs' = dirs \cup {f} /\ f \notin DOMAIN files /\ InPlace(f)
        /\ files' = files
    BY <1>2, OneMore DEF fff_mkdir, Exists
  <2> HIDE DEF f
  <2>3. Rooted(f, dirs)
    BY <2>1, <2>2, NewRooted
  <2>4. \A x \in dirs' \cup DOMAIN files' : Rooted(x, dirs')
    BY <2>2, <2>3 DEF Tree, Rooted
  <2>5. QED
    BY <2>2, <2>4 DEF Tree
<1>3. ASSUME NEW p \in Paths, fff_rmdir(p) PROVE Tree'
  BY <1>3, RmdirTree
<1>4. ASSUME NEW p \in Paths, NEW q \in Paths, fff_rename(p, q) PROVE Tree'
  BY <1>4, RenameTree
<1>5. ASSUME NEW p \in Paths, fff_unlink(p) PROVE Tree'
  BY <1>5, OneMore DEF fff_unlink, Without, Tree
<1>6. ASSUME NEW p \in Paths, NEW v \in Values, fff_write(p, v) PROVE Tree'
  <2>1. DOMAIN files' = DOMAIN files /\ dirs' = dirs
    BY <1>6 DEF fff_write
  <2>2. requests' \in 0 .. MaxRequests
    BY <1>6, OneMore DEF fff_write
  <2>3. QED
    BY <2>1, <2>2 DEF Tree
<1>7. ASSUME NEW p \in Paths, fff_read(p) \/ fff_truncate(p) PROVE Tree'
  <2>1. DOMAIN files' = DOMAIN files /\ dirs' = dirs
    BY <1>7 DEF fff_read, fff_truncate
  <2>2. requests' \in 0 .. MaxRequests
    BY <1>7, OneMore DEF fff_read, fff_truncate
  <2>3. QED
    BY <2>1, <2>2 DEF Tree
<1>8. ASSUME NEW k \in BOOLEAN, fff_init(k) PROVE Tree'
  BY <1>8, OneMore DEF fff_init, Tree
<1>9. CASE UNCHANGED vars
  BY <1>9 DEF vars, Tree
<1>10. QED
  BY <1>1, <1>2, <1>3, <1>4, <1>5, <1>6, <1>7, <1>8, <1>9 DEF Next

\* The names form a tree through every mkdir, rmdir and rename of directories,
\* and a header never stands over a block it was not written with.
THEOREM TypeCorrect == Spec => []TypeOK
<1>1. Init => Tree
  BY PathAssumption DEF Init, Tree, Rooted
<1>2. Tree /\ [Next]_vars => Tree'
  BY TreeKept
<1>3. IInv /\ Tree => TypeOK
  <2>1. SUFFICES ASSUME IInv, Tree PROVE TypeOK
    OBVIOUS
  <2>2. ASSUME NEW f \in DOMAIN files
        PROVE  LET c == files[f] IN
               /\ c.head \in Part /\ c.body \in Part
               /\ c.head.kind = "header" => c = OnlyHeader \/ \E v \in Values : c = Sealed(v)
               /\ c.head = Nothing => c.body = Nothing
    <3>1. Form(files[f])
      BY <2>1 DEF IInv, Kept, Allowed
    <3>2. QED
      BY <3>1 DEF Form, Part, EmptyFile, OnlyHeader, Sealed, Nothing, Text, Header, Block
  <2>3. ASSUME NEW f \in DOMAIN files, Len(f) > 1 PROVE Parent(f) \in dirs
    <3> DEFINE n == Len(f)
    <3>1. Rooted(f, dirs)
      BY <2>1 DEF Tree
    <3>2. n \in Nat
      BY <3>1, LenProperties DEF Rooted
    <3>3. n - 1 \in 1 .. n - 1
      <4>1. n > 1
        BY <2>3
      <4> HIDE DEF n
      <4>2. QED
        BY <3>2, <4>1
    <3>4. QED
      BY <3>1, <3>3 DEF Rooted, Parent
  <2>4. \A f \in DOMAIN files : f # <<>>
    BY <2>1 DEF Tree, Rooted
  <2>5. QED
    BY <2>1, <2>2, <2>3, <2>4 DEF TypeOK, IInv, Typed, Tree
<1>4. QED
  BY <1>1, <1>2, <1>3, IInvHolds, PTL DEF Spec
=============================================================================
