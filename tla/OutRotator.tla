----------------------------- MODULE OutRotator -----------------------------
(***************************************************************************)
(* out_rotator.py: the copy-and-truncate rotation of chat_team.out.        *)
(*                                                                         *)
(* The rotation runs in a thread, step by step between the writes of the   *)
(* daemon, and goes on when the task that awaits it is cancelled; a        *)
(* restarted process begins another sweep over what is there.  Any of its  *)
(* file operations may fail.  Lines are numbers, in the order written.     *)
(***************************************************************************)
EXTENDS Integers, Sequences, FiniteSets, SequencesExt

CONSTANTS OrMaxBytes,        \* logging.out_max_bytes, in lines
          OrBackups,         \* logging.out_backup_count
          OrMaxLines, OrMaxFaults

VARIABLES
    out,        \* chat_team.out
    backup,     \* by number: the backup file, or << >> for none
    sweep,      \* where the rotation stands: a backup's number, or Copy ...
    next,       \* the next line the daemon writes
    aged,       \* ghost: lines that went with the oldest backup
    gap,        \* ghost: lines written between copy and truncation
    faults,     \* file operations that failed so far
    hit         \* ghost: lines overwritten because a shift had failed

orVars == <<out, backup, sweep, next, aged, gap, faults, hit>>

Numbers == 1..OrBackups

\* A sweep counts down: OrBackups is the unlink of the oldest, a lower number
\* the shift of that backup to the next, and then
Copy == 0
Truncate == -1
Idle == -2

OrInit ==
    /\ out = << >> /\ backup = [n \in Numbers |-> << >>]
    /\ sweep = Idle /\ next = 1
    /\ aged = {} /\ gap = {} /\ faults = 0 /\ hit = {}

-----------------------------------------------------------------------------
\* The daemon's stdout, opened to append.
WriteLine ==
    /\ next <= OrMaxLines
    /\ out' = Append(out, next) /\ next' = next + 1
    /\ gap' = IF sweep = Truncate THEN gap \cup {next} ELSE gap
    /\ UNCHANGED <<backup, sweep, aged, faults, hit>>

\* _maybe_rotate
Sweep ==
    /\ sweep = Idle /\ Len(out) > OrMaxBytes
    /\ sweep' = OrBackups
    /\ UNCHANGED <<out, backup, next, aged, gap, faults, hit>>

Fault == faults < OrMaxFaults /\ faults' = faults + 1

UnlinkOldest ==
    /\ sweep = OrBackups
    /\ \/ /\ aged' = aged \cup Range(backup[OrBackups])
          /\ backup' = [backup EXCEPT ![OrBackups] = << >>]
          /\ UNCHANGED faults
       \/ backup[OrBackups] # << >> /\ Fault /\ UNCHANGED <<aged, backup>>
    /\ sweep' = OrBackups - 1
    /\ UNCHANGED <<out, next, gap, hit>>

\* What os.replace puts out of the way.
Replaced(n) ==
    /\ aged' = IF n = OrBackups THEN aged \cup Range(backup[n]) ELSE aged
    /\ hit'  = IF n = OrBackups THEN hit ELSE hit \cup Range(backup[n])

ShiftBackup ==
    /\ sweep \in 1..(OrBackups - 1)
    /\ IF backup[sweep] = << >> THEN UNCHANGED <<backup, faults, aged, hit>>
       ELSE \/ /\ backup' = [backup EXCEPT ![sweep + 1] = backup[sweep], ![sweep] = << >>]
               /\ Replaced(sweep + 1)
               /\ UNCHANGED faults
            \/ Fault /\ UNCHANGED <<backup, aged, hit>>
    /\ sweep' = sweep - 1
    /\ UNCHANGED <<out, next, gap>>

\* shutil.copy2 to .1; when it fails, before it has opened .1 or with a part of
\* the file in it, the sweep is over.
CopyOut ==
    /\ sweep = Copy
    /\ \/ \E length \in 0..Len(out) :
             /\ backup' = [backup EXCEPT ![1] = SubSeq(out, 1, length)]
             /\ Replaced(1)
             /\ IF length = Len(out) THEN sweep' = Truncate /\ UNCHANGED faults
                ELSE sweep' = Idle /\ Fault
       \/ Fault /\ sweep' = Idle /\ UNCHANGED <<backup, aged, hit>>
    /\ UNCHANGED <<out, next, gap>>

\* Mutant: the rest of the sweep goes on when the copy fails.
TruncateAnyway ==
    /\ sweep \in {Copy, Truncate}
    /\ out' = << >> /\ sweep' = Idle
    /\ UNCHANGED <<backup, next, aged, gap, faults, hit>>

TruncateOut ==
    /\ sweep = Truncate
    /\ \/ out' = << >> /\ UNCHANGED faults
       \/ Fault /\ UNCHANGED out
    /\ sweep' = Idle
    /\ UNCHANGED <<backup, next, aged, gap, hit>>

\* The process is killed or restarted: the sweep ends where it stands.
KillSweep ==
    /\ sweep # Idle /\ sweep' = Idle
    /\ UNCHANGED <<out, backup, next, aged, gap, faults, hit>>

OrNext ==
    \/ WriteLine \/ Sweep \/ UnlinkOldest \/ ShiftBackup
    \/ CopyOut \/ TruncateOut \/ KillSweep

OrSpec == OrInit /\ [][OrNext]_orVars

-----------------------------------------------------------------------------
(* Properties *)

\* No line gets lost, whatever fails and wherever a sweep is cut off, except
\* with the oldest backup, between copy and truncation, or under a backup that
\* could not be shifted; and unless a file operation fails, the backups stay in
\* order of age, wherever a sweep is cut off.
LinesAreKept ==
    /\ \A l \in 1..(next - 1) :
          \/ l \in Range(out) \cup aged \cup gap \cup hit
          \/ \E n \in Numbers : l \in Range(backup[n])
    /\ hit # {} => faults > 0
    /\ faults = 0 => \A m, n \in Numbers :
          m < n /\ backup[m] # << >> /\ backup[n] # << >> => Last(backup[m]) >= Last(backup[n])
=============================================================================
