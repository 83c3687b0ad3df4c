---------------------------- MODULE LocalBackup ----------------------------
(***************************************************************************)
(* A backup of the state root and its restoration into another one         *)
(* (local-backup-service.ts, and the commands of cli/src/index.ts).        *)
(*                                                                         *)
(* The backup is taken while the server goes on writing: the database is   *)
(* copied first, then each file is digested and read again chunk by chunk  *)
(* into the bundle.  The restoration is a process of its own; it verifies  *)
(* the whole bundle in a staging directory and then replaces one directory *)
(* of the root after the other, and it may die between any two of them.    *)
(*                                                                         *)
(* Each directory of the root holds one file of two chunks.  A version is  *)
(* the content of one write; a digest stands for the version it was        *)
(* computed from.  Only one bundle is kept.                                *)
(***************************************************************************)
EXTENDS Integers, FiniteSets, Sequences

CONSTANTS
    Areas,        \* the directories of a root, as numbers in the order of their paths
    DataArea,     \* the one with the database
    MaxEdits,     \* bound: writes of the server
    MaxBreaks     \* bound: steps that fail and processes that die

ASSUME BackupAssumption ==
    /\ DataArea \in Areas /\ Areas \subseteq Nat \ {0}
    /\ MaxEdits \in Nat /\ MaxBreaks \in Nat

VARIABLES
    kept,         \* the files of the root that is backed up
    edits,        \* writes so far
    copied,       \* the temporary copy of the database
    capture,      \* the backup being taken
    bundle,       \* the bundle at the destination
    fresh,        \* the files of the root that is restored into
    mending,      \* the restoration under way
    restored,     \* what the last restoration that answered has put in place
    breaks        \* failures so far

backupVars == <<kept, edits, copied, capture, bundle, fresh, mending, restored, breaks>>

Sizes == {1, 2}
NoFile == [v |-> 0, size |-> 1]
Versions == 0 .. MaxEdits + 1
NoCapture == [at |-> "idle", todo |-> {}, file |-> 0, digest |-> 0, size |-> 1, got |-> << >>]
NoBundle == [lines |-> << >>, open |-> FALSE, closed |-> FALSE]
NoMending == [at |-> "idle", next |-> 1, staged |-> [a \in Areas |-> << >>], out |-> 0]

\* What a root holds where nothing has been restored: nothing, or what a
\* server started on it has made.
Empty == << >>
Own == <<0, 0>>

BackupTypes ==
    /\ kept \in [Areas -> [v : Versions, size : Sizes]]
    /\ edits \in 0 .. MaxEdits
    /\ copied \in [v : Versions, size : Sizes]
    /\ capture.at \in {"idle", "collecting", "next", "reading", "comparing"}
    /\ capture.todo \subseteq Areas /\ capture.file \in Areas \cup {0}
    /\ capture.digest \in Versions /\ capture.got \in Seq(Versions)
    /\ \A i \in DOMAIN bundle.lines : bundle.lines[i].area \in Areas
    /\ fresh \in [Areas -> {Empty} \cup (Versions \X Versions)]
    /\ mending.at \in {"idle", "staging", "swapping"}
    /\ restored \subseteq Areas /\ breaks \in 0 .. MaxBreaks

BackupInit ==
    /\ kept \in [Areas -> {NoFile, [v |-> 1, size |-> 1]}]
    /\ kept[DataArea] # NoFile
    /\ edits = 0
    /\ copied = NoFile
    /\ capture = NoCapture
    /\ bundle = NoBundle
    /\ fresh = [a \in Areas |-> Empty]
    /\ mending = NoMending
    /\ restored = {}
    /\ breaks = 0

Least(as) == CHOOSE a \in as : \A b \in as : a <= b

-----------------------------------------------------------------------------
(***************************************************************************)
(* Taking a backup                                                         *)
(***************************************************************************)

captureVars == <<copied, capture, bundle>>
freshVars == <<fresh, mending, restored>>

\* The server writes a file or removes it, whatever else goes on.
Edit(a, file) ==
    /\ edits < MaxEdits
    /\ file = NoFile => a # DataArea /\ kept[a] # NoFile
    /\ edits' = edits + 1
    /\ kept' = [kept EXCEPT ![a] = file]
    /\ UNCHANGED <<captureVars, freshVars, breaks>>

CopyDatabase ==
    /\ capture.at = "idle"
    /\ copied' = kept[DataArea]
    /\ capture' = [NoCapture EXCEPT !.at = "collecting"]
    /\ UNCHANGED <<kept, edits, bundle, freshVars, breaks>>

CollectSources ==
    /\ capture.at = "collecting"
    /\ mending.at = "idle"
    /\ capture' = [capture EXCEPT !.at = "next", !.todo = {a \in Areas : kept[a] # NoFile}]
    /\ bundle' = [NoBundle EXCEPT !.open = TRUE]
    /\ UNCHANGED <<kept, edits, copied, freshVars, breaks>>

SourceFile(a) == IF a = DataArea THEN copied ELSE kept[a]

\* A backup that fails leaves what it has written where it was written.
FailedBackup ==
    /\ capture' = NoCapture
    /\ copied' = NoFile
    /\ UNCHANGED bundle

\* Size and digest, before the file is opened.
FileDigest ==
    LET a == Least(capture.todo)
        file == SourceFile(a)
    IN /\ capture.at = "next"
       /\ capture.todo # {}
       /\ IF file = NoFile THEN FailedBackup
          ELSE /\ capture' = [capture EXCEPT !.at = "reading", !.todo = @ \ {a}, !.file = a,
                                             !.digest = file.v, !.size = file.size, !.got = << >>]
               /\ UNCHANGED <<copied, bundle>>
       /\ UNCHANGED <<kept, edits, freshVars, breaks>>

\* The file was opened for the first chunk: the second is of the same content
\* when the file was replaced meanwhile, and of the new one when it was
\* written in place.
ReadChunk ==
    /\ capture.at = "reading"
    /\ \E v \in {SourceFile(capture.file).v} \cup {capture.got[i] : i \in DOMAIN capture.got} :
         capture' = [capture EXCEPT !.got = Append(@, v),
                                    !.at = IF capture.got = << >> THEN "reading" ELSE "comparing"]
    /\ UNCHANGED <<kept, edits, copied, bundle, freshVars, breaks>>

\* Only the size is looked at again.
CompareSize ==
    LET file == SourceFile(capture.file)
    IN /\ capture.at = "comparing"
       /\ IF file = NoFile \/ file.size # capture.size THEN FailedBackup
          ELSE /\ capture' = [capture EXCEPT !.at = "next"]
               /\ bundle' = [bundle EXCEPT !.lines = Append(@,
                      [area |-> capture.file, digest |-> capture.digest, got |-> capture.got])]
               /\ UNCHANGED copied
       /\ UNCHANGED <<kept, edits, freshVars, breaks>>

CloseBundle ==
    /\ capture.at = "next"
    /\ capture.todo = {}
    /\ capture' = NoCapture
    /\ copied' = NoFile
    /\ bundle' = [bundle EXCEPT !.closed = TRUE]
    /\ UNCHANGED <<kept, edits, freshVars, breaks>>

BreakBackup ==
    /\ capture.at # "idle"
    /\ breaks < MaxBreaks
    /\ breaks' = breaks + 1
    /\ FailedBackup
    /\ UNCHANGED <<kept, edits, freshVars>>

-----------------------------------------------------------------------------
(***************************************************************************)
(* Restoring it                                                            *)
(***************************************************************************)

\* The options that stand alone; every other one needs a value, and an
\* option with a value is not TRUE.
Flags == {"no-open"}
Forced == "force" \in Flags

BeginRestore ==
    /\ mending.at = "idle"
    /\ bundle.open
    /\ Forced \/ fresh[DataArea] = Empty
    /\ mending' = [NoMending EXCEPT !.at = "staging"]
    /\ restored' = {}
    /\ UNCHANGED <<kept, edits, captureVars, fresh, breaks>>

\* The digest of the whole file.
MutVerified(line) == Len(line.got) = 2
Verified(line) == Len(line.got) = 2 /\ \A i \in DOMAIN line.got : line.got[i] = line.digest

FailedRestore == mending' = NoMending /\ UNCHANGED <<fresh, restored>>

StageFile ==
    LET line == bundle.lines[mending.next]
    IN /\ mending.at = "staging"
       /\ mending.next <= Len(bundle.lines)
       /\ IF Verified(line)
          THEN /\ mending' = [mending EXCEPT !.next = @ + 1, !.staged[line.area] = line.got]
               /\ UNCHANGED <<fresh, restored>>
          ELSE FailedRestore
       /\ UNCHANGED <<kept, edits, captureVars, breaks>>

\* A bundle that breaks off cannot be unpacked to its end.
EndStaging ==
    /\ mending.at = "staging"
    /\ mending.next > Len(bundle.lines)
    /\ IF bundle.closed
       THEN mending' = [mending EXCEPT !.at = "swapping"] /\ UNCHANGED <<fresh, restored>>
       ELSE FailedRestore
    /\ UNCHANGED <<kept, edits, captureVars, breaks>>

Staged == {a \in Areas : mending.staged[a] # Empty}

RemoveTop ==
    /\ mending.at = "swapping"
    /\ mending.out = 0
    /\ Staged # {}
    /\ mending' = [mending EXCEPT !.out = Least(Staged)]
    /\ fresh' = [fresh EXCEPT ![Least(Staged)] = Empty]
    /\ UNCHANGED <<kept, edits, captureVars, restored, breaks>>

RenameTop ==
    /\ mending.at = "swapping"
    /\ mending.out # 0
    /\ fresh' = [fresh EXCEPT ![mending.out] = mending.staged[mending.out]]
    /\ mending' = [mending EXCEPT !.out = 0, !.staged[mending.out] = Empty]
    /\ UNCHANGED <<kept, edits, captureVars, restored, breaks>>

EndRestore ==
    /\ mending.at = "swapping"
    /\ mending.out = 0
    /\ Staged = {}
    /\ mending' = NoMending
    /\ restored' = {bundle.lines[i].area : i \in DOMAIN bundle.lines}
    /\ UNCHANGED <<kept, edits, captureVars, fresh, breaks>>

\* The process dies, or a directory cannot be removed or renamed: what was
\* replaced stays replaced.
BreakRestore ==
    /\ mending.at # "idle"
    /\ breaks < MaxBreaks
    /\ breaks' = breaks + 1
    /\ FailedRestore
    /\ UNCHANGED <<kept, edits, captureVars>>

\* A server started on the root makes a database.
StartOnFresh ==
    /\ mending.at = "idle"
    /\ fresh[DataArea] = Empty
    /\ fresh' = [fresh EXCEPT ![DataArea] = Own]
    /\ UNCHANGED <<kept, edits, captureVars, mending, restored, breaks>>

BackupNext ==
    \/ \E a \in Areas :
         Edit(a, NoFile) \/ \E s \in Sizes : Edit(a, [v |-> edits + 2, size |-> s])
    \/ CopyDatabase \/ CollectSources \/ FileDigest \/ ReadChunk \/ CompareSize
    \/ CloseBundle \/ BreakBackup
    \/ BeginRestore \/ StageFile \/ EndStaging \/ RemoveTop \/ RenameTop \/ EndRestore
    \/ BreakRestore \/ StartOnFresh

BackupSpec == BackupInit /\ [][BackupNext]_backupVars

-----------------------------------------------------------------------------
(***************************************************************************)
(* Properties                                                              *)
(***************************************************************************)

\* Whatever was written while the backup was taken, and wherever a
\* restoration died, a file that a restoration has put in place is one that
\* was written as a whole; and a restoration that answers has put in place
\* every file of the bundle.
RestoredIsWhole ==
    /\ \A a \in Areas : fresh[a] # Empty => fresh[a][1] = fresh[a][2]
    /\ \A a \in restored : fresh[a] # Empty

\* A backup that was answered can be restored: the comment of the restoration
\* says that it makes the snapshot taken before an update a way to recover.
BundleRestores == bundle.closed => \A i \in DOMAIN bundle.lines : Verified(bundle.lines[i])
=============================================================================
