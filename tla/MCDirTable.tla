---------------------------- MODULE MCDirTable -----------------------------
(***************************************************************************)
(* Names for TLC: two long names with a common first piece and a common    *)
(* short name, which needs a number; the numbered short name itself, as a  *)
(* name of its own; and a short name in two spellings, of which the mixed  *)
(* one needs an LFN entry.                                                 *)
(***************************************************************************)
EXTENDS DirTable, TLC

MCNames == {"report-draft", "report-final", "REPORT~1", "notes", "NoTes"}

MCParts ==
  "report-draft" :> <<"report-", "draft">> @@ "report-final" :> <<"report-", "final">>
  @@ "REPORT~1" :> <<"REPORT~1">> @@ "notes" :> <<"notes">> @@ "NoTes" :> <<"NoTes">>

MCUpper ==
  [p \in {"report-", "draft", "final", "REPORT~1", "notes", "NoTes"} |->
     IF p \in {"notes", "NoTes"} THEN "NOTES" ELSE p]

\* Two numbers are tried here; the code tries 99.
MCShorts ==
  "report-draft" :> <<<<"REPORT", 1>>, <<"REPORT", 2>>>>
  @@ "report-final" :> <<<<"REPORT", 1>>, <<"REPORT", 2>>>>
  @@ "REPORT~1" :> <<<<"REPORT", 1>>>>
  @@ "notes" :> <<<<"NOTES", 0>>>> @@ "NoTes" :> <<<<"NOTES", 0>>>>

MCLossy == {"report-draft", "report-final"}
MCNeedsLfn == MCLossy \cup {"NoTes"}

\* Two short names have the same checksum.
MCChecksum ==
  <<"REPORT", 1>> :> 1 @@ <<"REPORT", 2>> :> 2 @@ <<"NOTES", 0>> :> 1
=============================================================================
