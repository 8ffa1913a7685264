-------------------------------- MODULE Undo ---------------------------------
(***************************************************************************)
(* The safety net under the tools that write files                         *)
(* (server/tools/checkpoint.js): before each of them runs, the file it     *)
(* names is copied, and undo_checkpoint puts a copy back.  The newest      *)
(* KeepDirs copies of a conversation are kept.                             *)
(***************************************************************************)
EXTENDS Integers, Sequences

CONSTANTS
  File,
  Content,      \* contents of plain files
  KeepDirs,     \* KEEP_DIRS
  MaxWrites     \* bound on writing calls and on writes by others

ASSUME UndoAssumption == KeepDirs \in Nat /\ MaxWrites \in Nat

VARIABLES
  disk,     \* what each path holds: a content, or one of NoPlain
  shots,    \* the snapshots, oldest first
  past,     \* history: the disk before the call of each snapshot
  plain,    \* history: nothing was written that has no snapshot, and only the
            \* newest was ever put back
  writes

undoVars == <<disk, shots, past, plain, writes>>

Absent == "absent"
Big == "big"        \* beyond MAX_BYTES
Folder == "folder"
NoPlain == {Absent, Big, Folder}

UndoInit ==
  /\ disk \in [File -> Content \cup NoPlain]
  /\ shots = <<>> /\ past = <<>> /\ plain = TRUE /\ writes = 0

Newest(s) == IF Len(s) > KeepDirs THEN Tail(s) ELSE s

\* Mutant: the copy is taken when the tool has run.
Kept_After(f, new) == new
Kept(f, new) == disk[f]

\* snapshotBeforeWrite: none of a big file, and none when copying fails; of a
\* directory, as of nothing, it is noted that no file was there.
Snapshot(f, new) ==
  /\ shots' = Newest(Append(shots, [file |-> f, existed |-> disk[f] \in Content,
                                    copy |-> Kept(f, new)]))
  /\ past' = Newest(Append(past, disk))
  /\ plain' = (plain /\ disk[f] # Folder)
NoSnapshot(f, new) ==
  plain' = (plain /\ new = disk[f]) /\ UNCHANGED <<shots, past>>

\* write_file, append_file, edit_file and delete_file; new is what the path
\* held before when the tool fails.
Outcomes(f) ==
  IF disk[f] = Folder THEN {Folder, Absent} ELSE Content \cup {Absent, Big, disk[f]}
CallWrite(f, new, copied) ==
  /\ writes < MaxWrites /\ writes' = writes + 1
  /\ new \in Outcomes(f) /\ (copied => disk[f] # Big)
  /\ IF copied THEN Snapshot(f, new) ELSE NoSnapshot(f, new)
  /\ disk' = [disk EXCEPT ![f] = new]

\* A command, copy_move, or a person.
WriteOtherwise(f, new) ==
  /\ writes < MaxWrites /\ writes' = writes + 1
  /\ new \in Content \cup NoPlain /\ new # disk[f]
  /\ disk' = [disk EXCEPT ![f] = new] /\ plain' = FALSE
  /\ UNCHANGED <<shots, past>>

Dropped(s, i) == SubSeq(s, 1, i - 1) \o SubSeq(s, i + 1, Len(s))
\* Mutant: ranks are counted from the oldest.
Hit_Oldest(n) == n
Hit(n) == Len(shots) - n + 1
Restored(d, shot) ==
  [d EXCEPT ![shot.file] = IF shot.existed THEN shot.copy ELSE Absent]
\* undoCheckpoint: the snapshot is used up when all of it came back.
UndoOne(n) ==
  /\ n \in DOMAIN shots
  /\ disk[shots[Hit(n)].file] # Folder
  /\ disk' = Restored(disk, shots[Hit(n)])
  /\ shots' = Dropped(shots, Hit(n)) /\ past' = Dropped(past, Hit(n))
  /\ plain' = (plain /\ n = 1) /\ UNCHANGED writes
\* A directory in the way, or an error of the disk: the snapshot stays.
UndoFails(n) == n \in DOMAIN shots /\ UNCHANGED undoVars

UndoNext ==
  \/ \E f \in File, new \in Content \cup NoPlain :
       WriteOtherwise(f, new) \/ \E copied \in BOOLEAN : CallWrite(f, new, copied)
  \/ \E n \in 1..KeepDirs : UndoOne(n) \/ UndoFails(n)
UndoSpec == UndoInit /\ [][UndoNext]_undoVars
-----------------------------------------------------------------------------
UndoTypeOK ==
  /\ disk \in [File -> Content \cup NoPlain]
  /\ Len(shots) <= KeepDirs /\ Len(past) = Len(shots) /\ writes \in 0..MaxWrites

\* The disk after the k newest snapshots are put back, newest first.
Unwound[k \in 0..Len(shots)] ==
  IF k = 0 THEN disk ELSE Restored(Unwound[k - 1], shots[Hit(k)])

\* Undoing call after call brings back the files as they were before each of
\* them, also after earlier undos, failed calls and the loss of the oldest
\* copies; as long as nothing else wrote, no copy was refused and no directory
\* was deleted (checkpoint.js:4-6).
UndoGivesBack ==
  plain => \A k \in DOMAIN shots : Unwound[k] = past[Hit(k)]

\* What the copies before each write keep: the parts above.
UndoSafe == UndoTypeOK /\ UndoGivesBack
=============================================================================
