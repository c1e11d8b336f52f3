------------------------------ MODULE LogStore ------------------------------
(***************************************************************************)
(* Core's log (log_store.rs): an active file of records, one to a line,    *)
(* and a number of archives that rotation shifts.  A write may stop in the *)
(* middle of a line; start-up cuts the active file back and puts damaged   *)
(* archives aside.  Sizes are counted in records.                          *)
(***************************************************************************)
EXTENDS Integers, Sequences, SequencesExt, FiniteSets, FiniteSetsExt, Selection

CONSTANTS FileSize,      \* MAX_ACTIVE_BYTES
          Archives,      \* ARCHIVE_COUNT
          Partial,       \* a last line without its newline
          Glued          \* a partial line with another one written onto it

ASSUME LogStoreAssumption == FileSize \in Nat \ {0} /\ Archives \in Nat \ {0}

Numbers == 0..Archives      \* 0 is the active file
NoFiles == [i \in Numbers |-> <<>>]

IsRecord(line) == line \notin {Partial, Glued}

(* rotate: remove the oldest, shift the others, then the active file.  It  *)
(* may fail after any number of these steps.                               *)
Shifted(files, steps) ==
    LET empty == Archives + 1 - steps IN
    [i \in Numbers |-> CASE i = empty -> <<>>
                         [] i > empty -> files[i - 1]
                         [] OTHER -> files[i]]

(* Faulty variant: the file is rotated when it has outgrown its limit.     *)
MustRotateLate(files) == Len(files[0]) > FileSize

MustRotate(files) == Len(files[0]) >= FileSize

Room(files) == IF MustRotate(files) THEN Shifted(files, Archives + 1) ELSE files

(* write_all, sync_data: a line goes to the end of the file, and so onto a *)
(* partial line that an earlier failure left there.                        *)
WithLine(lines, line) ==
    IF lines # <<>> /\ Last(lines) = Partial
      THEN [lines EXCEPT ![Len(lines)] = IF line = Partial THEN Partial ELSE Glued]
      ELSE Append(lines, line)

Writes(log, line) == [log EXCEPT !.files[0] = WithLine(@, line)]

(* append, when everything succeeds.  log: the files and next_sequence.    *)
Appended(log, event) ==
    LET roomy == [log EXCEPT !.files = Room(@)] IN
    [Writes(roomy, [seq |-> log.next, event |-> event]) EXCEPT !.next = @ + 1]

(* append, when a step fails: rotation after some of its steps, writing    *)
(* within the line, or the sync.  The sequence is not advanced.            *)
Failures == {"rotation", "partial", "unsynced"}

AppendFailed(log, event, failure, steps) ==
    LET roomy == [log EXCEPT !.files = Room(@)] IN
    CASE failure = "rotation" -> [log EXCEPT !.files = Shifted(@, steps)]
      [] failure = "partial"  -> Writes(roomy, Partial)
      [] failure = "unsynced" -> Writes(roomy, [seq |-> log.next, event |-> event])

(* A number of appends, one after the other. *)
AppendedAll(log, events) ==
    LET after[n \in 0..Len(events)] ==
            IF n = 0 THEN log ELSE Appended(after[n - 1], events[n])
    IN after[Len(events)]

(* recover_records, repair_active_tail: the active file is cut before the  *)
(* first line that is not a record; an archive with such a line is renamed *)
(* (if that fails it stays, and later queries fail on it).                 *)
Sound(lines) == \A i \in DOMAIN lines : IsRecord(lines[i])

SoundPrefix(lines) ==
    SubSeq(lines, 1, Max({n \in 0..Len(lines) : Sound(SubSeq(lines, 1, n))}))

SeqsOf(lines) == {lines[i].seq : i \in DOMAIN lines}

RecoveredFiles(log, kept) ==
    [i \in Numbers |-> CASE i = 0 -> SoundPrefix(log.files[0])
                         [] i > 0 /\ (Sound(log.files[i]) \/ i \in kept) -> log.files[i]
                         [] OTHER -> <<>>]

After(seqs) == IF seqs = {} THEN 1 ELSE Max(seqs) + 1

(* Faulty variant: only the active file is asked for the last sequence.    *)
RecoveredFromActive(log, kept) ==
    LET files == RecoveredFiles(log, kept)
    IN [files |-> files, next |-> After(SeqsOf(files[0]))]

Recovered(log, kept) ==
    LET files == RecoveredFiles(log, kept)
    IN [files |-> files,
        next |-> After(UNION {SeqsOf(files[i]) : i \in {n \in Numbers : Sound(files[n])}})]

(* query: every file is read; a line that is no record fails the whole     *)
(* query, unless it is a partial one at the end of its file.               *)
Queryable(log) == \A i \in Numbers : Glued \notin ToSet(log.files[i])

(* The records in all files, from the oldest archive to the active file.   *)
Records(log) ==
    LET lines == FlattenSeq(Reverse([i \in 1..Archives + 1 |-> log.files[i - 1]]))
    IN Kept(lines, {line \in ToSet(lines) : IsRecord(line)})

=============================================================================
