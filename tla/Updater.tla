------------------------------- MODULE Updater -------------------------------
(***************************************************************************)
(* One device that keeps itself up to date: the HotUpdateManager of        *)
(* sdk/go/hotupdate.go, and what CheckUpdate of                            *)
(* internal/handler/hotupdate.go offers it.  Its reports are in Packages.  *)
(*                                                                         *)
(* The program's directory is a function from its files to the version     *)
(* each is of.  An update is extracted over it file by file; a failure     *)
(* copies the backup beside it and swaps the two directories.  Any of      *)
(* these may fail, and the application may end at any step.  Left out:     *)
(* applications of updates that overlap or begin in the same second, which *)
(* share a backup, and patches that hold only some files.                  *)
(* MUTx definitions are plausible mistakes.                                *)
(***************************************************************************)
EXTENDS Integers, FiniteSets, Sequences

CONSTANTS
    N,             \* versions there are, in the order of their codes
    Files,         \* files of a version
    Keep,          \* backups that are kept
    MaxBackups     \* bound: backups there may be at a time

ASSUME UpdaterAssumption == N \in Nat \ {0} /\ Keep \in Nat /\ MaxBackups \in Nat

VARIABLES
    published,     \* the versions the server has published, the same all the time
    version,       \* currentVersion
    latest,        \* latestUpdate, the answer of the last CheckUpdate; 0: no update
    isUpdating,    \* the version that is being downloaded; 0: none
    downloaded,    \* the versions whose files were downloaded and verified
    target,        \* the directory of the program
    backups,       \* the backups, oldest first
    work,          \* what ApplyUpdate or Rollback is at
    outcome,       \* how the last ApplyUpdate or Rollback ended
    mishaps        \* since the directory was last whole: "unnoticed", a file was not written
                   \* and nobody noticed; "chosen", the application chose a backup not whole

programVars == <<published, version, latest, isUpdating, downloaded>>
updaterVars == <<programVars, target, backups, work, outcome, mishaps>>

Versions == 1..N
Absent   == [f \in Files |-> 0]
Whole(v) == [f \in Files |-> v]
IsWhole(image) == \E v \in Versions : image = Whole(v)
Torn     == N + 1       \* the content of a file whose writing was broken off
Working  == work.at # "idle"
IdleWork == [at |-> "idle", update |-> 0, left |-> {}, image |-> Absent,
             aside |-> Absent]

UpdaterInit ==
    /\ published \in SUBSET Versions
    /\ version = 1 /\ latest = 0 /\ isUpdating = 0 /\ downloaded = {}
    /\ target = Whole(1) /\ backups = <<>>
    /\ work = IdleWork /\ outcome = "none" /\ mishaps = {}

-----------------------------------------------------------------------------
(* Checking and downloading.                                               *)

\* The update of the highest code that is not the version the device tells of, if any:
\* min_app_version and the rollout are those of a device that gets everything.
Choice(v) ==
    LET others == published \ {v} IN
    IF others = {} THEN 0 ELSE CHOOSE w \in others : \A u \in others : u <= w

\* Called by the application or by the goroutine of StartAutoCheck.
CheckUpdate ==
    /\ latest' = Choice(version)
    /\ UNCHANGED <<published, version, isUpdating, downloaded, target, backups, work, outcome,
                   mishaps>>

\* One download at a time.  The server serves what is published; a link that expired is
\* renewed by another check, whose answer must be of the same update.
BeginDownload ==
    /\ latest # 0 /\ isUpdating = 0
    /\ isUpdating' = latest
    /\ UNCHANGED <<published, version, latest, downloaded, target, backups, work, outcome,
                   mishaps>>

OpenUpdateDownload(v, renewed) == v \in published /\ (renewed => v = Choice(version))

\* Writing, hashing and verifying the file, which replaces an older one at the end.
EndDownload ==
    /\ isUpdating # 0 /\ isUpdating' = 0
    /\ \/ /\ \E renewed \in BOOLEAN :
                /\ OpenUpdateDownload(isUpdating, renewed)
                /\ latest' = IF renewed THEN Choice(version) ELSE latest
          /\ downloaded' = downloaded \cup {isUpdating}
       \/ UNCHANGED <<downloaded, latest>>
    /\ UNCHANGED <<published, version, target, backups, work, outcome, mishaps>>

-----------------------------------------------------------------------------
(* Applying an update.                                                     *)

BeginsExtract(v, image) ==
    work' = [IdleWork EXCEPT !.at = "extract", !.update = v, !.left = Files, !.image = image]

MUTApplyUpdate(v) ==
    /\ ~Working /\ v \in downloaded /\ Len(backups) < MaxBackups
    /\ \E copied \in SUBSET Files :
          LET image == [f \in Files |-> IF f \in copied THEN target[f] ELSE 0] IN
          backups' = Append(backups, image) /\ BeginsExtract(v, image)
    /\ UNCHANGED <<programVars, target, outcome, mishaps>>

\* The backup is copied file by file; what was copied before a failure stays and counts as
\* a backup.
ApplyUpdate(v) ==
    /\ ~Working /\ v \in downloaded /\ Len(backups) < MaxBackups
    /\ \E copied \in SUBSET Files :
          LET image == [f \in Files |-> IF f \in copied THEN target[f] ELSE 0] IN
          \/ /\ copied = Files /\ target # Absent
             /\ backups' = Append(backups, image)
             /\ BeginsExtract(v, image) /\ UNCHANGED outcome
          \/ /\ copied # Files \/ target = Absent
             /\ backups' = IF target = Absent THEN backups ELSE Append(backups, image)
             /\ outcome' = "refused" /\ UNCHANGED work
    /\ UNCHANGED <<programVars, target, mishaps>>

\* extractZipFile.  The error of Close is dropped, and with it what the system had not yet
\* written: the file is torn and counts as done.
Extract(f) ==
    /\ work.at = "extract" /\ f \in work.left
    /\ \/ target' = [target EXCEPT ![f] = work.update] /\ UNCHANGED mishaps
       \/ target' = [target EXCEPT ![f] = Torn] /\ mishaps' = mishaps \cup {"unnoticed"}
    /\ work' = [work EXCEPT !.left = @ \ {f}]
    /\ UNCHANGED <<programVars, backups, outcome>>

\* One of the files left is torn, or none was touched.
Breaks ==
    \/ \E f \in work.left : target' = [target EXCEPT ![f] = Torn]
    \/ UNCHANGED target

\* A file that cannot be made, or written to its end.
ExtractFails ==
    /\ work.at = "extract" /\ work.left # {}
    /\ Breaks
    /\ work' = [work EXCEPT !.at = "copy"]
    /\ UNCHANGED <<programVars, backups, outcome, mishaps>>

\* cleanOldBackups
CleanOld(s) == IF Len(s) > Keep THEN SubSeq(s, Len(s) - Keep + 1, Len(s)) ELSE s

\* Nothing that happened before matters once the directory is whole again.
Forgotten(image) == IF IsWhole(image) THEN {} ELSE mishaps

Updated ==
    /\ work.at = "extract" /\ work.left = {}
    /\ version' = work.update
    /\ downloaded' = downloaded \ {work.update}
    /\ backups' = CleanOld(backups)
    /\ work' = IdleWork /\ outcome' = "updated" /\ mishaps' = Forgotten(target)
    /\ UNCHANGED <<published, latest, isUpdating, target>>

-----------------------------------------------------------------------------
(* Going back to a backup.                                                 *)

\* The application goes back to the newest backup, whole or not; version stays what it was.
Rollback ==
    LET newest == backups[Len(backups)] IN
    /\ ~Working /\ backups # <<>>
    /\ work' = [IdleWork EXCEPT !.at = "copy", !.image = newest]
    /\ mishaps' = IF IsWhole(newest) THEN mishaps ELSE mishaps \cup {"chosen"}
    /\ UNCHANGED <<programVars, target, backups, outcome>>

EndRollback(result) == work' = IdleWork /\ outcome' = result

\* rollback copies the backup beside the directory ...
CopyBackup ==
    /\ work.at = "copy"
    /\ \/ work' = [work EXCEPT !.at = "away"] /\ UNCHANGED outcome
       \/ EndRollback("stuck")
    /\ UNCHANGED <<programVars, target, backups, mishaps>>

\* ... moves the directory away ...
MoveAway ==
    /\ work.at = "away"
    /\ \/ /\ target' = Absent
          /\ work' = [work EXCEPT !.at = "in", !.aside = target]
          /\ UNCHANGED outcome
       \/ EndRollback("stuck") /\ UNCHANGED target
    /\ UNCHANGED <<programVars, backups, mishaps>>

\* ... and the copy to its place; or, if that fails, what was moved away.
MoveIn ==
    /\ work.at = "in"
    /\ \/ /\ target' = work.image /\ EndRollback("wentback")
          /\ mishaps' = Forgotten(work.image)
       \/ /\ target' \in {work.aside, Absent} /\ EndRollback("stuck")
          /\ UNCHANGED mishaps
    /\ UNCHANGED <<programVars, backups>>

-----------------------------------------------------------------------------
\* The application ends, maybe in the middle of a file, and is started again, as the
\* version of its files if they are whole.
Restart ==
    /\ Working \/ outcome # "restarted"
    /\ IF work.at = "extract" THEN Breaks ELSE UNCHANGED target
    /\ work' = IdleWork /\ latest' = 0 /\ isUpdating' = 0 /\ outcome' = "restarted"
    /\ version' = IF IsWhole(target') THEN CHOOSE v \in Versions : target' = Whole(v) ELSE version
    /\ UNCHANGED <<published, downloaded, backups, mishaps>>

UpdaterNext ==
    \/ \E v \in Versions : ApplyUpdate(v)
    \/ CheckUpdate \/ BeginDownload \/ EndDownload
    \/ \E f \in Files : Extract(f)
    \/ ExtractFails \/ Updated
    \/ Rollback \/ CopyBackup \/ MoveAway \/ MoveIn
    \/ Restart

UpdaterSpec == UpdaterInit /\ [][UpdaterNext]_updaterVars

-----------------------------------------------------------------------------
(* Properties                                                              *)

\* Whatever fails, stays half done or is cut off by the end of the application, in any
\* number of updates and rollbacks, a whole version is still on the disk to go back to, in
\* its place or as a backup; and what ended as an update is there as a whole and the device
\* tells of it.  Only a file whose Close failed unnoticed (hotupdate.go:773), or an
\* application that asks to go back (:375) when the newest backup is not whole, may lose
\* it: not a failed backup, extraction or rollback, nor the deletion of old backups.
VersionSurvives ==
    mishaps = {} => /\ IsWhole(target) \/ \E i \in 1..Len(backups) : IsWhole(backups[i])
                    /\ ~Working /\ outcome = "updated" => target = Whole(version)

=============================================================================
