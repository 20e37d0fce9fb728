----------------------------- MODULE DeployTxn -----------------------------
(***************************************************************************)
(* tools/p2-apply-patch.py: the transaction that deploys the patched vLLM  *)
(* files and takes them back.  `apply` backs up the files it will change,  *)
(* records every target in a journal and then puts them in place one by    *)
(* one; `revert` undoes what the journal says was written.  Either may be  *)
(* killed between any two file operations, an operation may fail with      *)
(* OSError, and other people may edit the targets at any time.             *)
(*                                                                         *)
(* Data abstraction: the content of a target is one of Contents (a hash    *)
(* comparison tells them apart as target_state does), a target is its      *)
(* position in plan_targets, which lists the modified files first.  Source *)
(* checks, directories, bytecode and messages are left out.                *)
(***************************************************************************)
EXTENDS Naturals

CONSTANTS
    Targets,        \* number of targets
    ModifiedTargets,\* the first so many replace a file, the others add one
    MaxFaults,      \* crashes and failed file operations in a behaviour
    MaxEdits        \* edits of targets by others in a behaviour

ASSUME DeployAssumption ==
    /\ Targets \in Nat \ {0}
    /\ ModifiedTargets \in 0..Targets
    /\ MaxFaults \in Nat
    /\ MaxEdits \in Nat

Files == 1..Targets
Modified == 1..ModifiedTargets

Contents == {"pre", "post", "torn", "foreign", "missing"}
Marks == {"pending", "writing", "written"}
Journals == [state : {"none", "applying", "deployed"}, mark : [Files -> Marks]]

VARIABLES
    \* on disk
    disk,       \* disk[f]: content of the target
    tmp,        \* tmp[f]: a temporary file of replace_copy lies beside it
    backup,     \* backup[f]: the copy under vllm-patch/orig
    journal,    \* vllm-patch/deployed.json
    \* in the process
    pc,         \* the next file operation
    at,         \* the target apply is working on
    todo,       \* targets still to be undone
    acted,      \* the targets this revert undoes; {} in a rollback
    force,      \* --force
    failed,     \* some target could not be restored
    \* history and budgets
    seen,       \* targets holding somebody else's content when a command began
    faults,     \* crashes and failures so far
    edits       \* edits so far

diskVars == <<disk, tmp, backup, journal>>
procVars == <<pc, at, todo, acted, force, failed, seen>>
vars == <<diskVars, procVars, faults, edits>>

\* What a target holds when nothing is deployed.
Original(f) == IF f \in Modified THEN "pre" ELSE "missing"

NoMarks == [f \in Files |-> "pending"]
NoJournal == [state |-> "none", mark |-> NoMarks]

TypeOK ==
    /\ disk \in [Files -> Contents]
    /\ tmp \in [Files -> BOOLEAN]
    /\ backup \in [Files -> {"none", "pre", "torn"}]
    /\ journal \in Journals
    /\ pc \in {"idle", "backup", "mark", "copy", "replace", "check", "commit",
               "undo", "restore", "cleanup", "discard"}
    /\ at \in 1..(Targets + 1)
    /\ todo \subseteq Files
    /\ acted \subseteq Files
    /\ force \in BOOLEAN
    /\ failed \in BOOLEAN
    /\ seen \subseteq Files
    /\ faults \in 0..MaxFaults
    /\ edits \in 0..MaxEdits

Init ==
    /\ disk = [f \in Files |-> Original(f)]
    /\ tmp = [f \in Files |-> FALSE]
    /\ backup = [f \in Files |-> "none"]
    /\ journal = NoJournal
    /\ pc = "idle"
    /\ at = 1
    /\ todo = {}
    /\ acted = {}
    /\ force = FALSE
    /\ failed = FALSE
    /\ seen = {}
    /\ faults = 0
    /\ edits = 0

\* The content of f was put there by nobody's transaction.
IsForeign(f) == disk[f] \notin {Original(f), "post"}

\* Mutant: the intention to write stays in memory.
SaveMarkLate(f, m) ==
    journal' = IF m = "written" THEN [journal EXCEPT !.mark[f] = m] ELSE journal

\* save_journal of one record's progress.
SaveMark(f, m) == journal' = [journal EXCEPT !.mark[f] = m]

Fault == faults < MaxFaults /\ faults' = faults + 1

-----------------------------------------------------------------------------
(* apply *)

\* No journal and a clean preflight: every target is as recorded.
StartApply ==
    /\ pc = "idle"
    /\ journal.state = "none"
    /\ \A f \in Files : disk[f] = Original(f)
    /\ pc' = "backup"
    /\ at' = 1
    /\ acted' = {}
    /\ force' = FALSE
    /\ failed' = FALSE
    /\ seen' = {}
    /\ UNCHANGED <<diskVars, todo, faults, edits>>

\* Copy one file that will be replaced and check the copy.
BackUp ==
    /\ pc = "backup"
    /\ at <= ModifiedTargets
    /\ disk[at] = "pre"
    /\ backup' = [backup EXCEPT ![at] = "pre"]
    /\ at' = at + 1
    /\ UNCHANGED <<disk, tmp, journal, pc, todo, acted, force, failed, seen,
                   faults, edits>>

\* The journal is on disk before the first target is touched.
SaveJournal ==
    /\ pc = "backup"
    /\ at = ModifiedTargets + 1
    /\ journal' = [state |-> "applying", mark |-> NoMarks]
    /\ pc' = "mark"
    /\ at' = 1
    /\ UNCHANGED <<disk, tmp, backup, todo, acted, force, failed, seen, faults, edits>>

\* A backup with the wrong hash, or any OSError so far: no target was touched.
BackUpFails ==
    /\ pc = "backup"
    /\ \/ /\ at <= ModifiedTargets
          /\ disk[at] # "pre"
          /\ UNCHANGED faults
       \/ Fault
    /\ pc' = "cleanup"
    /\ UNCHANGED <<diskVars, at, todo, acted, force, failed, seen, edits>>

\* The intention to write is recorded first.
MarkWriting ==
    /\ pc = "mark"
    /\ SaveMark(at, "writing")
    /\ pc' = "copy"
    /\ UNCHANGED <<disk, tmp, backup, at, todo, acted, force, failed, seen, faults, edits>>

\* replace_copy: into a temporary file beside the target...
CopyTmp ==
    /\ pc = "copy"
    /\ tmp' = [tmp EXCEPT ![at] = TRUE]
    /\ pc' = "replace"
    /\ UNCHANGED <<disk, backup, journal, at, todo, acted, force, failed, seen,
                   faults, edits>>

\* ...then os.replace.
Replace ==
    /\ pc = "replace"
    /\ disk' = [disk EXCEPT ![at] = "post"]
    /\ tmp' = [tmp EXCEPT ![at] = FALSE]
    /\ pc' = "check"
    /\ UNCHANGED <<backup, journal, at, todo, acted, force, failed, seen, faults, edits>>

\* The hash is right and the progress is saved.
MarkWritten ==
    /\ pc = "check"
    /\ disk[at] = "post"
    /\ SaveMark(at, "written")
    /\ pc' = IF at = Targets THEN "commit" ELSE "mark"
    /\ at' = at + 1
    /\ UNCHANGED <<disk, tmp, backup, todo, acted, force, failed, seen, faults, edits>>

Commit ==
    /\ pc = "commit"
    /\ journal' = [journal EXCEPT !.state = "deployed"]
    /\ pc' = "idle"
    /\ UNCHANGED <<disk, tmp, backup, at, todo, acted, force, failed, seen, faults, edits>>

\* The targets _rollback is called with: a record that could not be marked was
\* not attempted.
Attempted == IF pc = "mark" THEN 1..(at - 1) ELSE 1..(at - 1) \cup (Files \cap {at})

\* Any OSError of the writing phase, or a wrong hash: roll back.
ApplyFails ==
    /\ pc \in {"mark", "copy", "replace", "check", "commit"}
    /\ \/ pc = "check" /\ disk[at] # "post" /\ UNCHANGED faults
       \/ Fault
    /\ tmp' = IF pc = "replace" THEN [tmp EXCEPT ![at] = FALSE] ELSE tmp
    /\ pc' = "undo"
    /\ todo' = Attempted
    /\ UNCHANGED <<disk, backup, journal, at, acted, force, failed, seen, edits>>

-----------------------------------------------------------------------------
(* undo_record, over the targets of a rollback or of a revert *)

\* The records are undone in the order of the journal.
Next1(f) == f \in todo /\ \A g \in todo : f <= g

Done(f, problem) ==
    /\ todo' = todo \ {f}
    /\ failed' = (failed \/ problem)
    /\ pc' = "undo"

\* _rollback leaves a file alone that is as it was.
SkipRestored(f) ==
    /\ pc = "undo"
    /\ Next1(f)
    /\ acted = {}
    /\ f \in Modified
    /\ disk[f] = "pre"
    /\ Done(f, FALSE)
    /\ UNCHANGED <<diskVars, at, acted, force, seen, faults, edits>>

\* shutil.copy2 of the backup: the target is truncated, then written.
BeginRestore(f) ==
    /\ pc = "undo"
    /\ Next1(f)
    /\ f \in Modified
    /\ acted # {} \/ disk[f] # "pre"
    /\ backup[f] = "pre"
    /\ disk' = [disk EXCEPT ![f] = "torn"]
    /\ pc' = "restore"
    /\ UNCHANGED <<tmp, backup, journal, at, todo, acted, force, failed, seen,
                   faults, edits>>

\* The copy ends; somebody else may have put another file in its place, or have
\* deleted it before copy2 was done with it.
EndRestore(f) ==
    /\ pc = "restore"
    /\ Next1(f)
    /\ disk' = [disk EXCEPT ![f] = IF @ = "torn" THEN "pre" ELSE @]
    /\ tmp' = [tmp EXCEPT ![f] = FALSE]
    /\ Done(f, disk[f] # "torn")
    /\ UNCHANGED <<backup, journal, at, acted, force, seen, faults, edits>>

\* A target that is deleted between the copy and the hash of it: sha256_file raises
\* out of the rollback or the revert.
RestoreRaises(f) ==
    /\ pc = "restore"
    /\ Next1(f)
    /\ disk[f] = "missing"
    /\ pc' = "idle"
    /\ todo' = {}
    /\ acted' = {}
    /\ failed' = FALSE
    /\ UNCHANGED <<diskVars, at, force, seen, faults, edits>>

\* An added target is deleted.
Remove(f) ==
    /\ pc = "undo"
    /\ Next1(f)
    /\ f \notin Modified
    /\ disk' = [disk EXCEPT ![f] = "missing"]
    /\ tmp' = [tmp EXCEPT ![f] = FALSE]
    /\ Done(f, FALSE)
    /\ UNCHANGED <<backup, journal, at, acted, force, seen, faults, edits>>

\* The backup is damaged, or the copy or the deletion fails; a copy may fail
\* half way.
UndoFails(f) ==
    /\ pc \in {"undo", "restore"}
    /\ Next1(f)
    /\ \/ f \in Modified /\ pc = "undo" /\ backup[f] # "pre" /\ UNCHANGED faults
       \/ Fault
    /\ tmp' = [tmp EXCEPT ![f] = FALSE]
    /\ Done(f, TRUE)
    /\ UNCHANGED <<disk, backup, journal, at, acted, force, seen, edits>>

\* Mutant: problems are forgotten.
RestoredAnyway == TRUE

\* The transaction may be forgotten: no problem was met, and a revert finds
\* what it has undone as it was.
Restored == ~failed /\ \A f \in acted : disk[f] = Original(f)

EndUndo ==
    /\ pc = "undo"
    /\ todo = {}
    /\ pc' = IF Restored THEN "cleanup" ELSE "idle"
    /\ UNCHANGED <<diskVars, at, todo, acted, force, failed, seen, faults, edits>>

\* shutil.rmtree of the backups, which ignores errors and may leave some; then
\* discard_journal.
RemoveBackups ==
    /\ pc = "cleanup"
    /\ \E left \in SUBSET Files :
          /\ backup' = [f \in Files |-> IF f \in left THEN backup[f] ELSE "none"]
          /\ \/ left = {} /\ UNCHANGED faults
             \/ left # {} /\ Fault
    /\ pc' = "discard"
    /\ UNCHANGED <<disk, tmp, journal, at, todo, acted, force, failed, seen, edits>>

\* A journal that cannot be deleted is only warned of.
Discard ==
    /\ pc = "discard"
    /\ \/ journal' = NoJournal /\ UNCHANGED faults
       \/ UNCHANGED journal /\ Fault
    /\ pc' = "idle"
    /\ UNCHANGED <<disk, tmp, backup, at, todo, acted, force, failed, seen, edits>>

-----------------------------------------------------------------------------
(* revert *)

\* Mutants of Undoes: --force also undoes what was never touched; a target
\* edited by others is restored without --force.
UndoesPending(f, fc) ==
    \/ journal.mark[f] # "pending" /\ disk[f] = "post"
    \/ fc /\ IsForeign(f)

UndoesForeign(f, fc) ==
    journal.mark[f] # "pending" /\ (disk[f] = "post" \/ IsForeign(f))

\* recovery_action of an unfinished transaction is "undo".
Undoes(f, fc) ==
    /\ journal.mark[f] # "pending"
    /\ disk[f] = "post" \/ (fc /\ IsForeign(f))

\* Mutant: every backup must be there, needed or not.
AllBackupsOK(P) == \A f \in Modified : backup[f] = "pre"

\* backup_problems_of is empty for the targets in P.
BackupsOK(P) == \A f \in P \cap Modified : backup[f] = "pre"

BeginUndo(P, fc) ==
    /\ BackupsOK(P)
    /\ pc' = IF P = {} THEN "cleanup" ELSE "undo"
    /\ todo' = P
    /\ acted' = P
    /\ force' = fc
    /\ failed' = FALSE
    /\ seen' = {f \in Files : IsForeign(f)}
    /\ UNCHANGED <<diskVars, at, faults, edits>>

\* A finished deployment is reverted when every target is as deployed, or by
\* force.
RevertDeployed(fc) ==
    /\ pc = "idle"
    /\ journal.state = "deployed"
    /\ fc \/ \A f \in Files : disk[f] = "post"
    /\ BeginUndo(Files, fc)

\* An unfinished one is recovered: only what the journal says was written.
RevertUnfinished(fc) ==
    /\ pc = "idle"
    /\ journal.state = "applying"
    /\ BeginUndo({f \in Files : Undoes(f, fc)}, fc)

-----------------------------------------------------------------------------
(* The environment *)

\* The process is killed.  The file operation in flight may be half done: a
\* backup half written, some of the backups removed.
Crash ==
    /\ pc # "idle"
    /\ Fault
    /\ pc' = "idle"
    /\ \/ UNCHANGED backup
       \/ /\ pc = "backup"
          /\ at <= ModifiedTargets
          /\ backup' = [backup EXCEPT ![at] = "torn"]
       \/ /\ pc = "cleanup"
          /\ \E gone \in SUBSET Files :
                backup' = [f \in Files |-> IF f \in gone THEN "none" ELSE backup[f]]
    /\ todo' = {}
    /\ acted' = {}
    /\ failed' = FALSE
    /\ UNCHANGED <<disk, tmp, journal, at, force, seen, edits>>

\* Somebody else replaces or deletes a target.
Edit(f, content) ==
    /\ edits < MaxEdits
    /\ disk[f] # content
    /\ disk' = [disk EXCEPT ![f] = content]
    /\ edits' = edits + 1
    /\ UNCHANGED <<tmp, backup, journal, procVars, faults>>

-----------------------------------------------------------------------------
Undo ==
    \/ \E f \in Files : SkipRestored(f) \/ BeginRestore(f) \/ EndRestore(f)
    \/ \E f \in Files : RestoreRaises(f) \/ Remove(f) \/ UndoFails(f)
    \/ EndUndo
    \/ RemoveBackups
    \/ Discard

Apply ==
    \/ BackUp
    \/ SaveJournal
    \/ BackUpFails
    \/ MarkWriting
    \/ CopyTmp
    \/ Replace
    \/ MarkWritten
    \/ Commit
    \/ ApplyFails

Revert(fc) == RevertDeployed(fc) \/ RevertUnfinished(fc)

Next ==
    \/ StartApply
    \/ Apply
    \/ \E fc \in BOOLEAN : Revert(fc)
    \/ Undo
    \/ Crash
    \/ \E f \in Files, content \in {"foreign", "missing"} : Edit(f, content)

Spec == Init /\ [][Next]_vars

\* A command runs to its end unless it is killed, and the operator calls revert
\* until the journal is gone.
FairSpec == Spec /\ WF_vars(Apply \/ Undo) /\ WF_vars(Revert(FALSE))

-----------------------------------------------------------------------------
(* Properties *)

\* A deployed file is never on disk without a journal that says it was written:
\* the intention is saved before the target is replaced, and the journal goes
\* last.
JournalCoversWrites ==
    \A f \in Files : disk[f] = "post" =>
        journal.state # "none" /\ journal.mark[f] # "pending"

\* As long as a deployed file stands where an original was, the original can be
\* restored: its backup is whole.
DeployedIsRecoverable ==
    \A f \in Modified : disk[f] = "post" => backup[f] = "pre"

\* A step of the tool itself, not of the environment.
ToolStep == edits' = edits

\* Undoing never touches a target the journal marks as pending, --force or not.
PendingUntouched ==
    [][ToolStep /\ pc \in {"undo", "restore"} =>
        \A f \in Files : journal.mark[f] = "pending" => disk'[f] = disk[f]]_vars

\* What a command finds edited by others it leaves alone, unless it is forced.
CheckedForeignPreserved ==
    [][ToolStep /\ ~force => \A f \in seen : disk'[f] = disk[f]]_vars

\* A transaction that was interrupted is closed in the end, however often its
\* recovery is interrupted in turn.
UnfinishedIsClosed == journal.state = "applying" ~> journal.state # "applying"

-----------------------------------------------------------------------------
(* What the documentation says of interrupted restorations. *)

\* A target is whole, or its original is still at hand: the module documentation
\* says a target is only ever its old or its new content.
OriginalNeverLost ==
    \A f \in Modified : disk[f] = "torn" => backup[f] = "pre"

\* A deployment on record can be reverted: reverting is said to be repeatable.
DeployedCanBeReverted ==
    pc = "idle" /\ journal.state = "deployed" => BackupsOK(Files)

\* A revert without --force keeps somebody else's file and never overwrites it,
\* says the documentation; the tool looks once and acts later.
ForeignNeverOverwritten ==
    [][ToolStep /\ ~force /\ acted # {} =>
        \A f \in Files : disk[f] = "foreign" => disk'[f] = disk[f]]_vars

\* When no transaction is on record nothing of one is left: revert is said to
\* clear away its own share.  A temporary file lies beside a target that still is
\* as it was, and recovery skips that one.
NothingLeftBehind ==
    pc = "idle" /\ journal.state = "none" => \A f \in Files : ~tmp[f]

-----------------------------------------------------------------------------
(* The inductive invariant behind the safety properties. *)

\* The journal is on disk before the first target is touched, and is written
\* before and after each of them.
InvApplying ==
    /\ pc = "backup" => journal.state = "none"
    /\ pc \in {"mark", "copy", "replace", "check", "commit"} =>
          /\ journal.state = "applying"
          /\ \A f \in Files : /\ f < at => journal.mark[f] # "pending"
                              /\ f > at => journal.mark[f] = "pending"
    /\ pc = "mark" => at <= Targets /\ journal.mark[at] = "pending"
    /\ pc \in {"copy", "replace", "check"} =>
          at <= Targets /\ journal.mark[at] # "pending"
    /\ pc = "commit" => at = Targets + 1
    /\ journal.state = "deployed" => \A f \in Files : journal.mark[f] # "pending"

\* What will be replaced is backed up.
InvBackups ==
    /\ pc = "backup" => \A f \in Modified : f < at => backup[f] = "pre"
    /\ pc \in {"mark", "copy", "replace", "check", "commit"} =>
          \A f \in Modified : backup[f] = "pre"

\* Undoing reaches every deployed file, and nothing that was not touched.
InvUndo ==
    /\ pc \in {"undo", "restore"} =>
          /\ \A f \in todo : journal.mark[f] # "pending"
          /\ ~failed => \A f \in Files \ todo : disk[f] # "post"
    /\ pc \in {"cleanup", "discard"} => \A f \in Files : disk[f] # "post"

\* What a command found edited by others is not on its list.
InvSeen ==
    /\ pc \in {"backup", "mark", "copy", "replace", "check", "commit"} => seen = {}
    /\ pc \in {"undo", "restore"} /\ ~force => todo \cap seen = {}

DeployInv ==
    /\ TypeOK
    /\ InvApplying
    /\ InvBackups
    /\ InvUndo
    /\ InvSeen
    /\ JournalCoversWrites
    /\ DeployedIsRecoverable
=============================================================================
