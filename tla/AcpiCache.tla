----------------------------- MODULE AcpiCache -----------------------------
(***************************************************************************)
(* HandleQemuACPI (acpi/acpi.go): requests, each in a goroutine of its     *)
(* own, answer with the archive cacheDir/acpi.tar, or build a new one from *)
(* three firmware files and replace the cached one by way of a temporary   *)
(* file.  Every file operation may fail, and the process may be killed     *)
(* between any two of them.                                                *)
(*                                                                         *)
(* Of a file only matters whether it is there and whether it is whole.     *)
(* That a power failure may lose what was written but not synced depends   *)
(* on the file system and is left out.                                     *)
(***************************************************************************)
EXTENDS Naturals, FiniteSets

CONSTANTS
  Requests,      \* requests to /.well-known/tinfoil-acpi
  MaxKills       \* bound: how often the process is killed and restarted

ASSUME KillAssumption == MaxKills \in Nat

VARIABLES
  handling,    \* where the handler of each request is
  force,       \* the query has force=1
  buf,         \* the buffer that is sent
  archive,     \* cacheDir/acpi.tar
  temp,        \* the temporary file of each request
  kills,       \* how often the process was killed
  leftover     \* history: requests whose rename or removal failed, or that
               \* were killed

acpiVars == <<handling, force, buf, archive, temp, kills, leftover>>

Content == {"absent", "partial", "whole"}
Ended   == {"ok", "unauthorized", "error", "killed"}
Running(r) == handling[r] \notin Ended \cup {"idle"}

AcpiInit ==
  /\ handling = [r \in Requests |-> "idle"]
  /\ force \in [Requests -> BOOLEAN]
  /\ buf = [r \in Requests |-> "absent"]
  /\ archive = "absent"
  /\ temp = [r \in Requests |-> "absent"]
  /\ kills = 0
  /\ leftover = {}

-----------------------------------------------------------------------------
Goto(r, at) == handling' = [handling EXCEPT ![r] = at]

Authenticate(r) ==
  /\ handling[r] = "idle"
  /\ Goto(r, "unauthorized") \/ Goto(r, "stat")
  /\ UNCHANGED <<force, buf, archive, temp, kills, leftover>>

\* os.Stat(archivePath); any error of it means a new archive.
Stat(r) ==
  /\ handling[r] = "stat"
  /\ \/ ~force[r] /\ archive # "absent" /\ Goto(r, "read")
     \/ Goto(r, "build")
  /\ UNCHANGED <<force, buf, archive, temp, kills, leftover>>

\* os.ReadFile(archivePath): the file that has the name when it is opened.
ReadArchive(r) ==
  /\ handling[r] = "read"
  /\ \/ Goto(r, "error") /\ UNCHANGED buf
     \/ /\ archive # "absent"
        /\ buf' = [buf EXCEPT ![r] = archive]
        /\ Goto(r, "ok")
  /\ UNCHANGED <<force, archive, temp, kills, leftover>>

\* A faulty variant: a source file that cannot be read is left out.
Build_SkipsFile(r) ==
  /\ handling[r] = "build"
  /\ \E b \in {"partial", "whole"} : buf' = [buf EXCEPT ![r] = b]
  /\ Goto(r, "persist")
  /\ UNCHANGED <<force, archive, temp, kills, leftover>>

\* The archive is built in memory, with all three source files or not at all.
Build(r) ==
  /\ handling[r] = "build"
  /\ \/ Goto(r, "error") /\ UNCHANGED buf
     \/ Goto(r, "persist") /\ buf' = [buf EXCEPT ![r] = "whole"]
  /\ UNCHANGED <<force, archive, temp, kills, leftover>>

\* A faulty variant: the archive is created, and then written, under its name.
CreateTemp_InPlace(r) ==
  /\ handling[r] = "persist"
  /\ archive' = "partial"
  /\ Goto(r, "copy")
  /\ UNCHANGED <<force, buf, temp, kills, leftover>>

\* os.MkdirAll and os.CreateTemp; failing, the answer is sent all the same.
CreateTemp(r) ==
  /\ handling[r] = "persist"
  /\ \/ Goto(r, "ok") /\ UNCHANGED temp
     \/ Goto(r, "copy") /\ temp' = [temp EXCEPT ![r] = "partial"]
  /\ UNCHANGED <<force, buf, archive, kills, leftover>>

\* A faulty variant: renamed whether or not the copy succeeded.
Copy_ErrorIgnored(r) ==
  /\ handling[r] = "copy"
  /\ \E c \in {"partial", "whole"} : temp' = [temp EXCEPT ![r] = c]
  /\ Goto(r, "rename")
  /\ UNCHANGED <<force, buf, archive, kills, leftover>>

\* io.Copy(tmp, ...) and tmp.Close()
Copy(r) ==
  /\ handling[r] = "copy"
  /\ \/ Goto(r, "remove") /\ UNCHANGED temp
     \/ Goto(r, "rename") /\ temp' = [temp EXCEPT ![r] = buf[r]]
  /\ UNCHANGED <<force, buf, archive, kills, leftover>>

\* os.Rename(tmp.Name(), archivePath), whose error is ignored.
Rename(r) ==
  /\ handling[r] = "rename"
  /\ \/ leftover' = leftover \cup {r} /\ UNCHANGED <<archive, temp>>
     \/ /\ archive' = temp[r]
        /\ temp' = [temp EXCEPT ![r] = "absent"]
        /\ UNCHANGED leftover
  /\ Goto(r, "ok")
  /\ UNCHANGED <<force, buf, kills>>

\* A faulty variant: the temporary file stays after a failed copy.
Remove_Forgotten(r) ==
  /\ handling[r] = "remove"
  /\ Goto(r, "ok")
  /\ UNCHANGED <<force, buf, archive, temp, kills, leftover>>

\* os.Remove(tmp.Name()), whose error is ignored.
Remove(r) ==
  /\ handling[r] = "remove"
  /\ \/ leftover' = leftover \cup {r} /\ UNCHANGED temp
     \/ temp' = [temp EXCEPT ![r] = "absent"] /\ UNCHANGED leftover
  /\ Goto(r, "ok")
  /\ UNCHANGED <<force, buf, archive, kills>>

\* The process is killed, and started again: its requests are lost, its files
\* are not.
Kill ==
  /\ kills < MaxKills
  /\ kills' = kills + 1
  /\ handling' = [r \in Requests |-> IF Running(r) THEN "killed" ELSE handling[r]]
  /\ leftover' = leftover \cup {r \in Requests : Running(r)}
  /\ UNCHANGED <<force, buf, archive, temp>>

HandleQemuACPI(r) ==
  \/ Authenticate(r) \/ Stat(r) \/ ReadArchive(r) \/ Build(r)
  \/ CreateTemp(r) \/ Copy(r) \/ Rename(r) \/ Remove(r)

AcpiNext == Kill \/ \E r \in Requests : HandleQemuACPI(r)

AcpiSpec == AcpiInit /\ [][AcpiNext]_acpiVars

-----------------------------------------------------------------------------
\* Types; a file that is about to get the archive's name is whole.
AcpiTypeOK ==
  /\ handling \in [Requests -> Ended \cup {"idle", "stat", "read", "build", "persist",
                                     "copy", "rename", "remove"}]
  /\ force \in [Requests -> BOOLEAN]
  /\ buf \in [Requests -> Content]
  /\ archive \in Content
  /\ temp \in [Requests -> Content]
  /\ kills \in 0..MaxKills
  /\ leftover \in SUBSET Requests
  /\ \A r \in Requests : (handling[r] = "rename") => (temp[r] = "whole")

\* Every answer carries a whole archive, whichever requests rebuild it at the
\* same time, whichever file operations fail and wherever an earlier process
\* was killed.
AnswersAreWhole ==
  \A r \in Requests : (handling[r] = "ok") => (buf[r] = "whole")

\* The cached archive is replaced in one step: once it exists it stays there,
\* whole, through concurrent rebuilds, failures and kills.
ArchiveKept == [][(archive # "absent") => (archive' = "whole")]_acpiVars

\* A temporary file is left behind only by a request that was killed, or
\* whose rename or removal failed; every other request that is over has
\* renamed or removed its file.
TempFilesRemoved ==
  \A r \in Requests :
    (handling[r] \in Ended /\ r \notin leftover) => (temp[r] = "absent")

=============================================================================
