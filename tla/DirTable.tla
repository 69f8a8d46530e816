------------------------------ MODULE DirTable ------------------------------
(***************************************************************************)
(* One directory of a FAT volume: the entries in the sectors of its table, *)
(* and how FatFs finds, lists, adds, removes and renames objects in it.    *)
(* An object has a short name in its SFN entry; a name that is no short    *)
(* name is spread over LFN entries right before it, the last part first,   *)
(* tied to the SFN entry by its checksum.  The entries of one object may   *)
(* lie in two sectors; FatFs changes them in the sector window, which is   *)
(* written back when it moves and in sync_fs.  An access can fail, and the *)
(* power can go between any two.  The table grows by a cluster (one sector *)
(* here), which still holds what a removed file left in it (Junk).         *)
(***************************************************************************)
EXTENDS Integers, Sequences

CONSTANTS
  Names,        (* the names clients use                                    *)
  Parts,        (* name -> its text, in the pieces one LFN entry holds      *)
  Upper,        (* piece -> the piece in upper case                         *)
  Shorts,       (* name -> its short name, or the numbered short names that *)
                (* gen_numname makes of it, in the order they are tried     *)
  Lossy,        (* the names that need a number (NS_LOSS)                   *)
  NeedsLfn,     (* the names that need LFN entries (NS_LFN)                 *)
  Checksum,     (* short name -> sum_sfn                                    *)
  PerSector,    (* entries in a sector                                      *)
  MaxSectors,   (* the sectors the table can have until the volume is full  *)
  MaxRequests,  (* bound: requests                                          *)
  MaxFaults,    (* bound: device accesses that fail                         *)
  MaxCrashes    (* bound: power losses                                      *)

ASSUME DirAssumption ==
  /\ Lossy \subseteq NeedsLfn /\ NeedsLfn \subseteq Names
  /\ \A n \in Names : Parts[n] \in Seq(DOMAIN Upper) /\ Len(Parts[n]) > 0
  /\ \A n \in Names : Shorts[n] \in Seq(DOMAIN Checksum) /\ Len(Shorts[n]) > 0
  /\ PerSector \in Nat \ {0} /\ MaxSectors \in Nat \ {0}
  /\ MaxRequests \in Nat /\ MaxFaults \in Nat /\ MaxCrashes \in Nat

VARIABLES
  dev,      (* the entries on the device; the sectors linked to the table   *)
  win,      (* the sector window of the volume                              *)
  job,      (* the request in progress                                      *)
  pc,       (* the next call it makes                                       *)
  reply,    (* the last answer, "none" while a request is in progress        *)
  requests, (* requests so far; an object is named by the one that made it  *)
  faults,   (* device accesses that have failed                             *)
  crashes,  (* power losses so far                                          *)
  hist      (* history: the names of objects whose last change answered OK  *)
            (* (made), the objects created and not unlinked (alive), names  *)
            (* whose registration was cut short (littered), whether the     *)
            (* growth of the table was (torn)                               *)

vars == <<dev, win, job, pc, reply, requests, faults, crashes, hist>>

Slots == 1 .. MaxSectors * PerSector
SectorOf(i) == 1 + (i - 1) \div PerSector
Within(i) == 1 + ((i - 1) % PerSector)

FatSector == 0
NoSector == MaxSectors + 1

End == [kind |-> "end"]              \* never used, and none after it is
Deleted == [kind |-> "deleted"]
Junk == [kind |-> "junk"]
Sfn(s, obj) == [kind |-> "sfn", sfn |-> s, obj |-> obj]

\* put_lfn: the piece of name n in its entry number ord.
Lfn(n, ord, sum) ==
  [kind |-> "lfn", ord |-> ord, last |-> ord = Len(Parts[n]), sum |-> sum,
   part |-> Parts[n][ord]]

IsFree(e) == e.kind \in {"end", "deleted"}
LfnCount(n) == IF n \in NeedsLfn THEN Len(Parts[n]) ELSE 0
SameName(n, m) ==
  /\ Len(Parts[n]) = Len(Parts[m])
  /\ \A i \in DOMAIN Parts[n] : Upper[Parts[n][i]] = Upper[Parts[m][i]]

\* create_name: names that differ in case alone are numbered alike, and a short
\* name without a number, which is the OEM form of the name in upper case, is that
\* of no other name (the code page, 932, has no two characters for one OEM code).
ASSUME ShortNamesAssumption ==
  /\ \A n, m \in Names : SameName(n, m) => (n \in Lossy <=> m \in Lossy)
  /\ \A n, m \in Names \ Lossy : Shorts[n][1] = Shorts[m][1] <=> SameName(n, m)
-----------------------------------------------------------------------------
(* Scanning a table t of len entries.                                      *)

NoOrd == -1
Scanning == [stop |-> FALSE, slot |-> 0, at |-> 0, ord |-> NoOrd, sum |-> NoOrd, blk |-> 0]

Target(n) == [parts |-> Parts[n], sfns |-> IF n \in Lossy THEN {} ELSE {Shorts[n][1]},
              lfn |-> TRUE]

\* dir_register looks for a short name alone (NS_NOLFN).
ShortTarget(s) == [parts |-> <<>>, sfns |-> {s}, lfn |-> FALSE]

\* cmp_lfn.
Matches(e, parts) ==
  /\ e.ord \in DOMAIN parts
  /\ Upper[e.part] = Upper[parts[e.ord]]
  /\ e.last => e.ord = Len(parts)

\* Mutant: the start of the LFN entries is kept when another object's SFN
\* entry comes.
SkipsKeeping(st) == [st EXCEPT !.ord = NoOrd]

Skips(st) == [st EXCEPT !.ord = NoOrd, !.blk = 0]

FollowsLfn(st, i, e, good) ==
  LET s == IF e.last THEN [st EXCEPT !.sum = e.sum, !.ord = e.ord, !.blk = i] ELSE st
  IN  [s EXCEPT !.ord = IF e.ord = @ /\ e.sum = s.sum /\ good THEN @ - 1 ELSE NoOrd]

TiedTo(st, e) == st.ord = 0 /\ st.sum = Checksum[e.sfn]

Looked(st, i, e, g) ==
  CASE e.kind = "end" -> [st EXCEPT !.stop = TRUE, !.at = i]
    [] e.kind = "lfn" -> IF g.lfn THEN FollowsLfn(st, i, e, Matches(e, g.parts)) ELSE st
    [] e.kind = "sfn" /\ (TiedTo(st, e) \/ e.sfn \in g.sfns) ->
         [st EXCEPT !.stop = TRUE, !.slot = i, !.at = i]
    [] OTHER -> Skips(st)

\* The slot of the object looked for (0: FR_NO_FILE), that of its first entry
\* (blk, 0: it has no LFN entries) and the slot the search ended at.
dir_find(t, len, g) ==
  LET scan[i \in 0 .. len] ==
        IF i = 0 THEN Scanning
        ELSE IF scan[i-1].stop THEN scan[i-1]
        ELSE Looked([scan[i-1] EXCEPT !.at = i], i, t[i], g)
  IN  scan[len]

\* f_readdir reads an entry: a name, or a piece of one.
Listed(st, i, e) ==
  CASE e.kind = "end" -> [st EXCEPT !.scan.stop = TRUE]
    [] e.kind = "lfn" ->
         [st EXCEPT !.scan = FollowsLfn(@, i, e, TRUE),
                    !.buf = IF e.last THEN <<e.part>> ELSE <<e.part>> \o @]
    [] e.kind = "sfn" ->
         [scan |-> Scanning, buf |-> <<>>,
          list |-> Append(st.list, IF TiedTo(st.scan, e)
                                     THEN [lfn |-> st.buf, sfn |-> <<>>, obj |-> e.obj]
                                     ELSE [lfn |-> <<>>, sfn |-> e.sfn, obj |-> e.obj])]
    [] OTHER -> [st EXCEPT !.scan = Skips(@)]

\* f_readdir until the end: the names of the objects and the objects.
Listing(t, len) ==
  LET read[i \in 0 .. len] ==
        IF i = 0 THEN [scan |-> Scanning, buf |-> <<>>, list |-> <<>>]
        ELSE IF read[i-1].scan.stop THEN read[i-1]
        ELSE Listed(read[i-1], i, t[i])
  IN  read[len].list

\* The runs of k free entries, by their last slot.
FreeRuns(t, len, k) ==
  {i \in k .. len : \A j \in i - k + 1 .. i : IsFree(t[j])}

Least(S) == CHOOSE x \in S : \A y \in S : x <= y
-----------------------------------------------------------------------------
(* The window.                                                             *)

NoWindow == [sect |-> NoSector, ent |-> [j \in 1 .. PerSector |-> End], len |-> 0,
             dirty |-> FALSE]

\* move_window, when it reads.
Loaded(d, s) ==
  [NoWindow EXCEPT !.sect = s, !.len = IF s = FatSector THEN d.len ELSE 0,
                   !.ent = IF s = FatSector THEN @
                           ELSE [j \in 1 .. PerSector |-> d.ent[(s - 1) * PerSector + j]]]

\* sync_window, when it succeeds.
Flushed(d, w) ==
  IF ~w.dirty THEN d
  ELSE IF w.sect = FatSector THEN [d EXCEPT !.len = w.len]
  ELSE [d EXCEPT !.ent = [i \in Slots |-> IF SectorOf(i) = w.sect THEN w.ent[Within(i)] ELSE @[i]]]

\* The table as FatFs sees it.
Table ==
  [i \in Slots |-> IF SectorOf(i) = win.sect THEN win.ent[Within(i)] ELSE dev.ent[i]]
Linked == IF win.sect = FatSector THEN win.len ELSE dev.len
TableLen == Linked * PerSector

Outcome(ok, fault, d, w) == [ok |-> ok, fault |-> fault, dev |-> d, win |-> w]

\* The device reports a failed write: it holds the old sector or the new one.
FlushFails ==
  IF win.dirty THEN {Outcome(FALSE, TRUE, d, win) : d \in {dev, Flushed(dev, win)}} ELSE {}

\* The window moves from sector a on to sector b.
Move(a, b) ==
  IF win.sect = a /\ a = b THEN {Outcome(TRUE, FALSE, dev, win)}
  ELSE LET d == Flushed(dev, win)
       IN  {Outcome(TRUE, FALSE, d, Loaded(d, b)), Outcome(FALSE, TRUE, d, NoWindow)}
           \cup FlushFails

\* The sector dir_find ends in; past the last one it asks the FAT for more.
EndOf(r) == IF r.stop THEN SectorOf(r.at) ELSE FatSector

\* The window moves to entry i; dir_sdi may walk the chain of the table in the
\* FAT first.
Seek(i, walks) ==
  Move(SectorOf(i), SectorOf(i))
  \cup (IF walks /\ SectorOf(i) > 1 THEN Move(FatSector, SectorOf(i)) ELSE {})

Write(w, i, e) == [w EXCEPT !.ent[Within(i)] = e, !.dirty = TRUE]
-----------------------------------------------------------------------------
NoName == CHOOSE n \in Names : TRUE
NoJob == [op |-> "none", name |-> NoName, new |-> NoName, obj |-> 0, sfn |-> <<>>,
          old |-> 0, blk |-> 0, at |-> 0, left |-> 0]

Take(o) ==
  /\ o.fault => faults < MaxFaults
  /\ faults' = IF o.fault THEN faults + 1 ELSE faults
  /\ dev' = o.dev

GoOn(j, next) == job' = j /\ pc' = next /\ UNCHANGED <<reply, hist>>

Answer(ret) ==
  /\ pc' = "idle" /\ job' = NoJob
  /\ reply' = ret

\* The names whose LFN entries may be left without an SFN entry when the
\* request ends here.
Cut ==
  IF job.op \in {"create", "rename"} /\ LfnCount(job.new) > 0
     /\ pc \in {"put_lfn", "put_sfn", "dir_remove", "sync_fs"}
    THEN {job.new} ELSE {}

\* A device access failed: the request ends with FR_DISK_ERR.
Fails ==
  /\ Answer("FR_DISK_ERR")
  /\ hist' = [hist EXCEPT !.littered = @ \cup Cut,
                          !.torn = @ \/ pc \in {"dir_clear", "dir_clear_write"}]

Quiet == UNCHANGED <<requests, crashes>>
Says(ret) == Answer(ret) /\ hist' = hist
-----------------------------------------------------------------------------
(* Requests, and dir_find on their paths.                                  *)

Request(op, n, m) ==
  /\ pc = "idle"
  /\ requests < MaxRequests /\ requests' = requests + 1
  /\ job' = [NoJob EXCEPT !.op = op, !.name = n, !.new = m, !.obj = requests']
  /\ pc' = "find" /\ reply' = "none"
  /\ UNCHANGED <<dev, win, faults, crashes, hist>>

fff_create(n) == Request("create", n, n)
fff_unlink(n) == Request("unlink", n, n)
fff_rename(n, m) == Request("rename", n, m)
fff_getattr(n) == Request("getattr", n, n)

\* dir_register: the first numbered name no entry has; <<>> when all are taken.
ShortName(n) ==
  LET taken(k) == dir_find(Table, TableLen, ShortTarget(Shorts[n][k])).slot # 0
      free == {k \in DOMAIN Shorts[n] : n \notin Lossy \/ ~taken(k)}
  IN  IF free = {} THEN <<>> ELSE Shorts[n][Least(free)]

Register ==
  IF ShortName(job.new) = <<>> THEN Says("FR_DENIED")
  ELSE GoOn([job EXCEPT !.sfn = ShortName(job.new), !.at = 1], "dir_alloc")

Forgotten(m, obj) == [o \in DOMAIN m \ {obj} |-> m[o]]

\* Mutant: dir_remove starts at the SFN entry.
RemovesFromSfn(r) == r.slot

\* dir_remove starts at the first LFN entry, if there is one.
RemovesFrom(r) == IF r.blk = 0 THEN r.slot ELSE r.blk

find ==
  LET r == dir_find(Table, TableLen, Target(job.name))
      obj == Table[r.slot].obj
      j == [job EXCEPT !.obj = obj, !.old = r.slot, !.blk = RemovesFrom(r)]
  IN  /\ pc = "find"
      /\ Quiet
      /\ \E o \in Move(1, EndOf(r)) :
           /\ Take(o) /\ win' = o.win
           /\ IF ~o.ok THEN Fails
              ELSE IF job.op = "create"
                THEN IF r.slot = 0 THEN Register ELSE Says("FR_OK")
              ELSE IF r.slot = 0 THEN Says("FR_NO_FILE")
              ELSE CASE job.op = "getattr" -> Says("FR_OK")
                     [] job.op = "rename" -> GoOn(j, "find_new")
                     [] job.op = "unlink" ->
                          /\ job' = [j EXCEPT !.at = j.blk] /\ pc' = "dir_remove"
                          /\ hist' = [hist EXCEPT !.made = Forgotten(@, obj),
                                                  !.alive = @ \ {obj}]
                          /\ UNCHANGED reply

\* f_rename: the new name must not be in use by any other object.
find_new ==
  LET r == dir_find(Table, TableLen, Target(job.new)) IN
  /\ pc = "find_new"
  /\ Quiet
  /\ \E o \in Move(1, EndOf(r)) :
       /\ Take(o) /\ win' = o.win
       /\ IF ~o.ok THEN Fails
          ELSE IF r.slot \notin {0, job.old} THEN Says("FR_EXIST")
          ELSE Register

\* f_opendir and f_readdir until it finds no more.
fff_readdir ==
  /\ pc = "idle"
  /\ requests < MaxRequests /\ requests' = requests + 1
  /\ crashes' = crashes /\ hist' = hist
  /\ pc' = "idle" /\ job' = NoJob
  /\ LET r == dir_find(Table, TableLen, ShortTarget(<<>>)) IN
     \E o \in Move(1, EndOf(r)) :
       /\ Take(o) /\ win' = o.win
       /\ reply' = IF o.ok THEN "FR_OK" ELSE "FR_DISK_ERR"
-----------------------------------------------------------------------------
(* dir_register.                                                           *)

dir_alloc ==
  LET need == LfnCount(job.new) + 1
      runs == FreeRuns(Table, TableLen, need)
      last == IF runs = {} THEN TableLen ELSE Least(runs)
  IN  /\ pc = "dir_alloc"
      /\ Quiet
      /\ \E o \in Move(job.at, SectorOf(last)) :
           /\ Take(o) /\ win' = o.win
           /\ IF ~o.ok THEN Fails
              ELSE IF runs = {} THEN GoOn(job, "dir_next")
              ELSE /\ job' = [job EXCEPT !.at = last - need + 1, !.left = need - 1]
                   /\ pc' = IF need > 1 THEN "put_lfn" ELSE "put_sfn"
                   /\ hist' = [hist EXCEPT !.made = Forgotten(@, job.obj)]
                   /\ UNCHANGED reply

\* Mutant: one cluster more than there are.
FullTooLate == Linked > MaxSectors

Full == Linked = MaxSectors

\* dir_next stretches the table: create_chain links a cluster in the window ...
dir_next ==
  /\ pc = "dir_next"
  /\ Quiet
  /\ \E o \in Move(FatSector, FatSector) :
       /\ Take(o)
       /\ IF ~o.ok THEN Fails /\ win' = o.win
          ELSE IF Full THEN Says("FR_DENIED") /\ win' = o.win
          ELSE /\ win' = [o.win EXCEPT !.len = @ + 1, !.dirty = TRUE]
               /\ GoOn(job, "dir_clear")

\* ... dir_clear writes the window back, which links the cluster ...
dir_clear ==
  /\ pc = "dir_clear"
  /\ Quiet
  /\ \E o \in {Outcome(TRUE, FALSE, Flushed(dev, win), [win EXCEPT !.dirty = FALSE])}
              \cup FlushFails :
       /\ Take(o) /\ win' = o.win
       /\ IF o.ok THEN GoOn(job, "dir_clear_write") ELSE Fails

\* Mutant: the new cluster is not cleared on the device.
NotCleared == dev

Cleared == [dev EXCEPT !.ent = [i \in Slots |-> IF SectorOf(i) = Linked THEN End ELSE @[i]]]

\* ... and then clears it, in the window and on the device.
dir_clear_write ==
  /\ pc = "dir_clear_write"
  /\ Quiet
  /\ win' = [NoWindow EXCEPT !.sect = Linked]
  /\ \/ /\ dev' = Cleared /\ faults' = faults
        /\ GoOn([job EXCEPT !.at = Linked], "dir_alloc")
     \/ /\ faults < MaxFaults /\ faults' = faults + 1
        /\ dev' \in {dev, Cleared}
        /\ Fails

PutEntry(walks, e, j, next) ==
  \E o \in Seek(job.at, walks) :
    /\ Take(o)
    /\ IF o.ok THEN win' = Write(o.win, job.at, e) /\ GoOn(j, next)
               ELSE win' = o.win /\ Fails

put_lfn ==
  /\ pc = "put_lfn"
  /\ Quiet
  /\ PutEntry(job.left = LfnCount(job.new),
              Lfn(job.new, job.left, Checksum[job.sfn]),
              [job EXCEPT !.at = @ + 1, !.left = @ - 1],
              IF job.left > 1 THEN "put_lfn" ELSE "put_sfn")

\* Mutant: f_rename saves the old entry when the window has moved on.
NewEntryLost(j) == Sfn(j.sfn, requests)

\* The SFN entry; f_open makes it that of an empty file, f_rename copies the
\* rest of the old one, which it has saved, into it.
NewEntry(j) == Sfn(j.sfn, j.obj)

put_sfn ==
  /\ pc = "put_sfn"
  /\ Quiet
  /\ PutEntry(FALSE, NewEntry(job), [job EXCEPT !.at = job.blk],
              IF job.op = "create" THEN "sync_fs" ELSE "dir_remove")
-----------------------------------------------------------------------------
dir_remove ==
  /\ pc = "dir_remove"
  /\ Quiet
  /\ PutEntry(job.at = job.blk /\ job.blk < job.old, Deleted, [job EXCEPT !.at = @ + 1],
              IF job.at < job.old THEN "dir_remove" ELSE "sync_fs")

Known(m, obj, n) == [o \in DOMAIN m \cup {obj} |-> IF o = obj THEN n ELSE m[o]]

Synced == Outcome(TRUE, FALSE, Flushed(dev, win), [win EXCEPT !.dirty = FALSE])

\* f_close of a new file, or the end of f_unlink and f_rename.  fff_create
\* drops the error of f_close.
sync_fs ==
  /\ pc = "sync_fs"
  /\ Quiet
  /\ \E o \in {Synced} \cup FlushFails :
       /\ Take(o) /\ win' = o.win
       /\ IF o.ok
            THEN /\ Answer("FR_OK")
                 /\ hist' = IF job.op = "unlink" THEN hist
                            ELSE [hist EXCEPT !.made = Known(@, job.obj, job.new),
                                              !.alive = @ \cup {job.obj}]
            ELSE IF job.op = "create"
              THEN /\ Answer("FR_OK")
                   /\ hist' = [hist EXCEPT !.littered = @ \cup Cut]
              ELSE Fails

\* When nothing is going on, and nothing waits in the window, it loses nothing.
PowerLoss ==
  /\ pc # "idle" \/ win.dirty
  /\ crashes < MaxCrashes /\ crashes' = crashes + 1
  /\ win' = NoWindow
  /\ pc' = "idle" /\ job' = NoJob
  /\ reply' = "none"
  /\ hist' = [hist EXCEPT !.littered = @ \cup Cut, !.torn = @ \/ pc = "dir_clear_write"]
  /\ UNCHANGED <<dev, requests, faults>>
-----------------------------------------------------------------------------
Init ==
  /\ dev = [ent |-> [i \in Slots |-> IF SectorOf(i) = 1 THEN End ELSE Junk], len |-> 1]
  /\ win = NoWindow
  /\ job = NoJob /\ pc = "idle"
  /\ reply = "none"
  /\ requests = 0 /\ faults = 0 /\ crashes = 0
  /\ hist = [made |-> [o \in {} |-> NoName], alive |-> {}, littered |-> {}, torn |-> FALSE]

Step ==
  \/ find \/ find_new
  \/ dir_alloc \/ dir_next \/ dir_clear \/ dir_clear_write \/ put_lfn \/ put_sfn
  \/ dir_remove \/ sync_fs

Next ==
  \/ \E n \in Names : \/ fff_create(n) \/ fff_unlink(n) \/ fff_getattr(n)
                      \/ \E m \in Names \ {n} : fff_rename(n, m)
  \/ fff_readdir
  \/ Step
  \/ PowerLoss

Spec == Init /\ [][Next]_vars
-----------------------------------------------------------------------------
(* Properties.  Like a client after a power loss, they look at the device. *)

ShortNames == UNION {{Shorts[n][k] : k \in DOMAIN Shorts[n]} : n \in Names}
Objects == 1 .. MaxRequests

Entry ==
  {End, Deleted, Junk} \cup {Sfn(s, o) : s \in ShortNames, o \in Objects}
  \cup UNION {{Lfn(n, k, Checksum[s]) : k \in DOMAIN Parts[n], s \in ShortNames} : n \in Names}

\* Every variable has its type; a table never has more sectors than there are.
TypeOK ==
  /\ dev.len \in 1 .. MaxSectors /\ Linked \in 1 .. MaxSectors
  /\ \A i \in Slots : dev.ent[i] \in Entry
  /\ win.sect \in 0 .. NoSector /\ win.dirty \in BOOLEAN
  /\ \A j \in 1 .. PerSector : win.ent[j] \in Entry
  /\ job.at \in 0 .. MaxSectors * PerSector + 1 /\ job.old \in Slots \cup {0}
  /\ DOMAIN hist.made \subseteq hist.alive /\ hist.alive \subseteq Objects
  /\ hist.littered \subseteq Names
  /\ requests \in 0 .. MaxRequests
  /\ faults \in 0 .. MaxFaults /\ crashes \in 0 .. MaxCrashes

OnDevice(n) == dir_find(dev.ent, dev.len * PerSector, Target(n))

Littered(n) == \E m \in hist.littered : SameName(n, m)

\* dir_register, dir_remove and f_rename change only the entries of their own
\* object: at every moment, through power loss and failed accesses, every object
\* whose last change answered OK is on the device under its name.  The exceptions
\* are a name whose registration was cut short, because the LFN entries it left
\* can be taken over by another short name, and a table whose growth was, because
\* entries can then be added behind its end.
NamesDurable ==
  \A o \in DOMAIN hist.made :
    ~hist.torn /\ ~Littered(hist.made[o]) =>
      LET r == OnDevice(hist.made[o]) IN r.slot # 0 /\ dev.ent[r.slot].obj = o

\* f_rename registers the new entry before it removes the old one: no power loss
\* and no failed access loses an object.
ObjectSurvives ==
  \A o \in hist.alive :
    \E i \in Slots : /\ SectorOf(i) <= dev.len
                    /\ dev.ent[i].kind = "sfn" /\ dev.ent[i].obj = o

Shown(n, obj) ==
  IF n \in NeedsLfn THEN [lfn |-> Parts[n], sfn |-> <<>>, obj |-> obj]
                    ELSE [lfn |-> <<>>, sfn |-> Shorts[n][1], obj |-> obj]

\* While nothing failed, f_readdir lists every object once and under the name it
\* was created with or renamed to, and nothing else: no LFN entry stays behind
\* for a later short name to take over, and no object has two entries.
ListedOnce ==
  pc = "idle" /\ faults = 0 /\ crashes = 0 =>
    LET list == Listing(dev.ent, dev.len * PerSector) IN
    /\ {list[i] : i \in DOMAIN list} = {Shown(hist.made[o], o) : o \in DOMAIN hist.made}
    /\ \A i, j \in DOMAIN list : list[i] = list[j] => i = j

\* dir_next links a cluster before dir_clear clears it, so what it last held is
\* in the table for a moment; unless that moment is cut short, no request ends
\* with it there.
StretchCleared ==
  pc # "dir_clear_write" /\ ~hist.torn =>
    \A i \in Slots : SectorOf(i) <= dev.len => dev.ent[i] # Junk
=============================================================================
