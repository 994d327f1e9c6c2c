-------------------------- MODULE AcpiCache_proofs --------------------------
(***************************************************************************)
(* Proofs about AcpiCache for any number of requests and kills.            *)
(***************************************************************************)
EXTENDS AcpiCache, TLAPS

\* What each place in the handler of request r implies for its buffer and its
\* temporary file.
FilesInv(r) ==
  /\ handling[r] \in {"persist", "copy", "rename", "remove", "ok"} => buf[r] = "whole"
  /\ handling[r] = "rename" => temp[r] = "whole"
  /\ handling[r] \in {"idle", "stat", "read", "build", "persist"} => temp[r] = "absent"
  /\ handling[r] \in Ended /\ r \notin leftover => temp[r] = "absent"

AcpiInv ==
  /\ AcpiTypeOK
  /\ archive # "partial"
  /\ \A r \in Requests : FilesInv(r)

\* The invariant holds when the first process starts.
LEMMA InitAcpiInv == AcpiInit => AcpiInv
  BY KillAssumption DEF AcpiInit, AcpiInv, AcpiTypeOK, FilesInv, Content, Ended

\* Every step of a handler, every failure and every kill preserves it.
LEMMA NextAcpiInv == AcpiInv /\ [AcpiNext]_acpiVars => AcpiInv'
<1> SUFFICES ASSUME AcpiInv, [AcpiNext]_acpiVars PROVE AcpiInv'
  OBVIOUS
<1> USE KillAssumption DEF AcpiInv, AcpiTypeOK, FilesInv, Content, Ended
<1>1. ASSUME NEW r \in Requests, Authenticate(r) PROVE AcpiInv'
  BY <1>1 DEF Authenticate, Goto
<1>2. ASSUME NEW r \in Requests, Stat(r) PROVE AcpiInv'
  BY <1>2 DEF Stat, Goto
<1>3. ASSUME NEW r \in Requests, ReadArchive(r) PROVE AcpiInv'
  BY <1>3 DEF ReadArchive, Goto
<1>4. ASSUME NEW r \in Requests, Build(r) PROVE AcpiInv'
  BY <1>4 DEF Build, Goto
<1>5. ASSUME NEW r \in Requests, CreateTemp(r) PROVE AcpiInv'
  BY <1>5 DEF CreateTemp, Goto
<1>6. ASSUME NEW r \in Requests, Copy(r) PROVE AcpiInv'
  BY <1>6 DEF Copy, Goto
<1>7. ASSUME NEW r \in Requests, Rename(r) PROVE AcpiInv'
  BY <1>7 DEF Rename, Goto
<1>8. ASSUME NEW r \in Requests, Remove(r) PROVE AcpiInv'
  BY <1>8 DEF Remove, Goto
<1>9. CASE Kill
  BY <1>9 DEF Kill, Running
<1>10. CASE UNCHANGED acpiVars
  BY <1>10 DEF acpiVars
<1> QED
  BY <1>1, <1>2, <1>3, <1>4, <1>5, <1>6, <1>7, <1>8, <1>9, <1>10
  DEF AcpiNext, HandleQemuACPI

\* The invariant holds in every state.
THEOREM AcpiInductive == AcpiSpec => []AcpiInv
  BY InitAcpiInv, NextAcpiInv, PTL DEF AcpiSpec

\* The types, and that what is renamed is whole.
THEOREM AcpiTypeCorrect == AcpiSpec => []AcpiTypeOK
<1>1. AcpiInv => AcpiTypeOK
  BY DEF AcpiInv
<1> QED BY AcpiInductive, <1>1, PTL

\* Every answer of HandleQemuACPI carries a whole archive.
THEOREM WholeAnswers == AcpiSpec => []AnswersAreWhole
<1>1. AcpiInv => AnswersAreWhole
  BY DEF AcpiInv, FilesInv, AnswersAreWhole
<1> QED BY AcpiInductive, <1>1, PTL

\* Only kills and failing renames and removals leave temporary files.
THEOREM NoLitter == AcpiSpec => []TempFilesRemoved
<1>1. AcpiInv => TempFilesRemoved
  BY DEF AcpiInv, FilesInv, TempFilesRemoved
<1> QED BY AcpiInductive, <1>1, PTL

\* Once there is an archive there is always one, and it is whole.
THEOREM Kept == AcpiSpec => ArchiveKept
<1>1. AcpiInv /\ [AcpiNext]_acpiVars =>
        [(archive # "absent") => (archive' = "whole")]_acpiVars
  <2> SUFFICES ASSUME AcpiInv, AcpiNext, archive # "absent" PROVE archive' = "whole"
    OBVIOUS
  <2>1. archive = "whole"
    BY DEF AcpiInv, AcpiTypeOK, Content
  <2>2. ASSUME NEW r \in Requests, HandleQemuACPI(r) PROVE archive' = "whole"
    BY <2>1, <2>2 DEF AcpiInv, FilesInv, HandleQemuACPI, Authenticate, Stat,
      ReadArchive, Build, CreateTemp, Copy, Rename, Remove
  <2> QED BY <2>1, <2>2 DEF AcpiNext, Kill
<1> QED BY AcpiInductive, <1>1, PTL DEF AcpiSpec, ArchiveKept

=============================================================================
