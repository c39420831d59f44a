-------------------------- MODULE CandidateStore --------------------------
(***************************************************************************)
(* The store of automation candidates: every call changes the memory and   *)
(* saves all of it under one lock, by way of a backup and a temporary file *)
(* (copilot_core/candidates/store.py).  A step of the save may fail, and   *)
(* the process may end between any two.                                    *)
(*                                                                         *)
(* A candidate is abstracted to its state; a file to what it holds.        *)
(***************************************************************************)
CONSTANTS
  Candidates,
  States,      \* some of CandidateState, "pending" among them
  Absent,      \* the state of a candidate that is not stored
  NoFile, Torn

VARIABLES
  memory,            \* _candidates
  file, bak, tmp,    \* candidates.json, .bak and .tmp
  saving,            \* the next step of the save, or "idle"
  acknowledged       \* history: what was in memory when a call last succeeded

disk == <<file, bak, tmp>>
vars == <<memory, disk, saving, acknowledged>>

Empty == [c \in Candidates |-> Absent]
Contents == [Candidates -> States \cup {Absent}]

-----------------------------------------------------------------------------
Change(m) ==
  /\ saving = "idle"
  /\ memory' = m
  /\ saving' = "backup"
  /\ UNCHANGED <<disk, acknowledged>>

AddCandidate(c) ==
  /\ memory[c] = Absent
  /\ Change([memory EXCEPT ![c] = "pending"])

UpdateCandidateState(c, s) ==
  /\ memory[c] # Absent
  /\ Change([memory EXCEPT ![c] = s])

\* The candidates with an outcome that are old enough; none, no save.
CleanupOldCandidates ==
  \E old \in SUBSET {c \in Candidates : memory[c] \in {"accepted", "dismissed"}} :
    /\ old # {}
    /\ Change([c \in Candidates |-> IF c \in old THEN Absent ELSE memory[c]])

-----------------------------------------------------------------------------
(* _save_to_disk() *)

\* Mutant of Backup: the existing file is removed.
BackupRemoves ==
  /\ saving = "backup"
  /\ file' = NoFile
  /\ saving' = "open"
  /\ UNCHANGED <<memory, bak, tmp, acknowledged>>

\* An error in moving the file is ignored.
Backup ==
  /\ saving = "backup"
  /\ \/ file # NoFile /\ bak' = file /\ file' = NoFile
     \/ UNCHANGED <<file, bak>>
  /\ saving' = "open"
  /\ UNCHANGED <<memory, tmp, acknowledged>>

\* Mutant of OpenTemp: the file itself is opened for writing.
OpenInPlace ==
  /\ saving = "open"
  /\ file' = Torn
  /\ saving' = "dump"
  /\ UNCHANGED <<memory, bak, tmp, acknowledged>>

OpenTemp ==
  /\ saving = "open"
  /\ tmp' = Torn
  /\ saving' = "dump"
  /\ UNCHANGED <<memory, file, bak, acknowledged>>

Dump ==
  /\ saving = "dump"
  /\ tmp' = memory
  /\ saving' = "replace"
  /\ UNCHANGED <<memory, file, bak, acknowledged>>

Replace ==
  /\ saving = "replace"
  /\ file' = tmp
  /\ tmp' = NoFile
  /\ acknowledged' = memory
  /\ saving' = "idle"
  /\ UNCHANGED <<memory, bak>>

\* A step raises: the call fails, and what it changed stays in memory.
SaveFails ==
  /\ saving # "idle"
  /\ saving' = "idle"
  /\ UNCHANGED <<memory, disk, acknowledged>>

\* _load_from_disk() in the next process: neither the backup nor the temporary
\* file is read.
Restart ==
  /\ memory' = IF file \in {NoFile, Torn} THEN Empty ELSE file
  /\ saving' = "idle"
  /\ UNCHANGED <<disk, acknowledged>>

Init ==
  /\ memory = Empty
  /\ file = NoFile /\ bak = NoFile /\ tmp = NoFile
  /\ saving = "idle"
  /\ acknowledged = NoFile

Next ==
  \/ \E c \in Candidates : \/ AddCandidate(c)
                           \/ \E s \in States : UpdateCandidateState(c, s)
  \/ CleanupOldCandidates
  \/ Backup \/ OpenTemp \/ Dump \/ Replace
  \/ SaveFails
  \/ Restart

Spec == Init /\ [][Next]_vars

-----------------------------------------------------------------------------
(* Properties *)

\* The memory and the files have contents of their kind; the file itself, which
\* is only ever replaced, is never torn.
TypeOK ==
  /\ memory \in Contents
  /\ file \in Contents \cup {NoFile} /\ bak \in Contents \cup {NoFile}
  /\ tmp \in Contents \cup {NoFile, Torn}
  /\ saving \in {"idle", "backup", "open", "dump", "replace"}

\* Whatever fails and whenever the process ends, the last content whose saving
\* a call has confirmed is in the file or its backup, even when the store has
\* started empty because it does not look there.
AcknowledgedOnDisk == acknowledged \in {NoFile, file, bak}
=============================================================================
