-------------------------- MODULE DeployTxnProofs --------------------------
(***************************************************************************)
(* The deployment transaction for every number of targets, faults and      *)
(* edits: DeployInv is inductive, and undoing touches only what it may.    *)
(***************************************************************************)
EXTENDS DeployTxn, TLAPS

\* Targets are counted from one, the modified ones first.
LEMMA FileFacts ==
  /\ Targets \in Nat /\ ModifiedTargets \in Nat /\ ModifiedTargets <= Targets
  /\ Modified \subseteq Files /\ 1 \in Files
  /\ \A f \in Files : f \in Nat /\ f >= 1 /\ f <= Targets
  BY DeployAssumption DEF Modified, Files

LEMMA InitDeploy == Init => DeployInv
<1> SUFFICES ASSUME Init PROVE DeployInv
  OBVIOUS
<1>1. TypeOK
  <2>1. at \in 1..(Targets + 1) /\ faults \in 0..MaxFaults /\ edits \in 0..MaxEdits
    BY DeployAssumption, FileFacts DEF Init
  <2>2. disk \in [Files -> Contents] /\ journal \in Journals
    BY DEF Init, Journals, NoJournal, NoMarks, Marks, Contents, Original
  <2>3. QED
    BY <2>1, <2>2 DEF Init, TypeOK
<1>2. \A f \in Files : disk[f] # "post"
  BY DEF Init, Original
<1>3. InvApplying /\ InvBackups /\ InvUndo /\ InvSeen
  BY DEF Init, NoJournal, InvApplying, InvBackups, InvUndo, InvSeen
<1>4. JournalCoversWrites /\ DeployedIsRecoverable
  BY <1>2, DeployAssumption
     DEF JournalCoversWrites, DeployedIsRecoverable, Files, Modified
<1>5. QED
  BY <1>1, <1>3, <1>4 DEF DeployInv

LEMMA StartApplyDeploy == DeployInv /\ StartApply => DeployInv'
<1> SUFFICES ASSUME DeployInv, StartApply PROVE DeployInv'
  OBVIOUS
<1> USE DEF StartApply, diskVars
<1>1. TypeOK'
  <2>1. at' \in 1..(Targets + 1)
    BY FileFacts
  <2>2. QED
    BY <2>1 DEF DeployInv, TypeOK
<1>2. InvApplying' /\ InvBackups' /\ InvUndo' /\ InvSeen'
  BY FileFacts DEF DeployInv, InvApplying, InvBackups, InvUndo, InvSeen
<1>3. JournalCoversWrites' /\ DeployedIsRecoverable'
  BY DEF DeployInv, JournalCoversWrites, DeployedIsRecoverable
<1>4. QED
  BY <1>1, <1>2, <1>3 DEF DeployInv

LEMMA BackUpDeploy == DeployInv /\ (BackUp \/ BackUpFails) => DeployInv'
<1>1. ASSUME DeployInv, BackUp PROVE DeployInv'
  <2> USE <1>1 DEF BackUp
  <2>1. TypeOK' /\ at \in 1..(Targets + 1)
    <3>1. at' \in 1..(Targets + 1) /\ at \in 1..(Targets + 1)
      BY FileFacts DEF DeployInv, TypeOK
    <3>2. QED
      BY <3>1 DEF DeployInv, TypeOK
  <2>2. InvApplying' /\ InvUndo' /\ InvSeen'
    BY DEF DeployInv, InvApplying, InvUndo, InvSeen
  <2>3. InvBackups'
    BY <2>1, FileFacts DEF DeployInv, InvBackups, TypeOK
  <2>4. JournalCoversWrites' /\ DeployedIsRecoverable'
    BY FileFacts DEF DeployInv, TypeOK, InvApplying, JournalCoversWrites,
       DeployedIsRecoverable
  <2>5. QED
    BY <2>1, <2>2, <2>3, <2>4 DEF DeployInv
<1>2. ASSUME DeployInv, BackUpFails PROVE DeployInv'
  <2> USE <1>2 DEF BackUpFails, Fault, diskVars
  <2>1. TypeOK'
    BY DeployAssumption DEF DeployInv, TypeOK
  <2>2. InvApplying' /\ InvBackups' /\ InvSeen'
    BY DEF DeployInv, InvApplying, InvBackups, InvSeen
  <2>3. InvUndo'
    BY DEF DeployInv, InvApplying, JournalCoversWrites, InvUndo
  <2>4. JournalCoversWrites' /\ DeployedIsRecoverable'
    BY DEF DeployInv, JournalCoversWrites, DeployedIsRecoverable
  <2>5. QED
    BY <2>1, <2>2, <2>3, <2>4 DEF DeployInv
<1>3. QED
  BY <1>1, <1>2

LEMMA SaveJournalDeploy == DeployInv /\ SaveJournal => DeployInv'
<1> SUFFICES ASSUME DeployInv, SaveJournal PROVE DeployInv'
  OBVIOUS
<1> USE DEF SaveJournal
<1>1. TypeOK'
  BY DeployAssumption DEF DeployInv, TypeOK, Journals, Marks, NoMarks
<1>2. \A f \in Files : disk[f] # "post"
  BY DEF DeployInv, InvApplying, JournalCoversWrites
<1>3. InvApplying'
  BY FileFacts, DeployAssumption DEF InvApplying, NoMarks, Files
<1>4. InvBackups'
  BY DeployAssumption DEF DeployInv, InvBackups, Modified
<1>5. InvUndo' /\ InvSeen'
  BY DEF DeployInv, InvUndo, InvSeen
<1>6. JournalCoversWrites' /\ DeployedIsRecoverable'
  BY <1>2, FileFacts DEF JournalCoversWrites, DeployedIsRecoverable
<1>7. QED
  BY <1>1, <1>3, <1>4, <1>5, <1>6 DEF DeployInv

\* Marking a record changes that mark only.
LEMMA SaveMarkFacts ==
  ASSUME TypeOK, NEW f \in Files, NEW m \in Marks, SaveMark(f, m)
  PROVE  /\ journal' \in Journals /\ journal'.state = journal.state
         /\ journal'.mark[f] = m
         /\ \A g \in Files : g # f => journal'.mark[g] = journal.mark[g]
  BY DEF TypeOK, SaveMark, Journals

LEMMA MarkWritingDeploy == DeployInv /\ MarkWriting => DeployInv'
<1> SUFFICES ASSUME DeployInv, MarkWriting PROVE DeployInv'
  OBVIOUS
<1> USE DEF MarkWriting
<1>1. at \in Files /\ at \in Nat /\ "writing" \in Marks /\ TypeOK
  BY DeployAssumption DEF DeployInv, TypeOK, InvApplying, Files, Marks
<1>2. /\ journal' \in Journals /\ journal'.state = journal.state
      /\ journal'.mark[at] = "writing"
      /\ \A g \in Files : g # at => journal'.mark[g] = journal.mark[g]
  BY <1>1, SaveMarkFacts
<1>3. TypeOK'
  BY <1>2 DEF DeployInv, TypeOK
<1>4. InvApplying'
  BY <1>1, <1>2, FileFacts DEF DeployInv, InvApplying, Files
<1>5. InvBackups' /\ InvUndo' /\ InvSeen'
  BY DEF DeployInv, InvBackups, InvUndo, InvSeen
<1>6. JournalCoversWrites' /\ DeployedIsRecoverable'
  BY <1>1, <1>2 DEF DeployInv, JournalCoversWrites, DeployedIsRecoverable
<1>7. QED
  BY <1>3, <1>4, <1>5, <1>6 DEF DeployInv

LEMMA ReplaceDeploy == DeployInv /\ (CopyTmp \/ Replace) => DeployInv'
<1>1. ASSUME DeployInv, CopyTmp PROVE DeployInv'
  <2> USE <1>1 DEF CopyTmp
  <2>1. TypeOK'
    BY DEF DeployInv, TypeOK
  <2>2. InvApplying' /\ InvBackups' /\ InvUndo' /\ InvSeen'
    BY DEF DeployInv, InvApplying, InvBackups, InvUndo, InvSeen
  <2>3. JournalCoversWrites' /\ DeployedIsRecoverable'
    BY DEF DeployInv, JournalCoversWrites, DeployedIsRecoverable
  <2>4. QED
    BY <2>1, <2>2, <2>3 DEF DeployInv
<1>2. ASSUME DeployInv, Replace PROVE DeployInv'
  <2> USE <1>2 DEF Replace
  <2>1. TypeOK'
    BY DEF DeployInv, TypeOK, Contents
  <2>2. InvApplying' /\ InvBackups' /\ InvUndo' /\ InvSeen'
    BY DEF DeployInv, InvApplying, InvBackups, InvUndo, InvSeen
  <2>3. JournalCoversWrites'
    BY DEF DeployInv, TypeOK, InvApplying, JournalCoversWrites
  <2>4. DeployedIsRecoverable'
    BY DEF DeployInv, TypeOK, InvBackups, DeployedIsRecoverable
  <2>5. QED
    BY <2>1, <2>2, <2>3, <2>4 DEF DeployInv
<1>3. QED
  BY <1>1, <1>2

LEMMA MarkWrittenDeploy == DeployInv /\ MarkWritten => DeployInv'
<1> SUFFICES ASSUME DeployInv, MarkWritten PROVE DeployInv'
  OBVIOUS
<1> USE DEF MarkWritten
<1>1. at \in Files /\ at \in Nat /\ at <= Targets /\ "written" \in Marks /\ TypeOK
  BY DeployAssumption DEF DeployInv, TypeOK, InvApplying, Files, Marks
<1>2. /\ journal' \in Journals /\ journal'.state = journal.state
      /\ journal'.mark[at] = "written"
      /\ \A g \in Files : g # at => journal'.mark[g] = journal.mark[g]
  BY <1>1, SaveMarkFacts
<1>3. TypeOK'
  BY <1>1, <1>2, DeployAssumption DEF DeployInv, TypeOK
<1>4. InvApplying'
  <2>1. \A f \in Files : /\ f < at + 1 => journal'.mark[f] # "pending"
                         /\ f > at + 1 => journal'.mark[f] = "pending"
    BY <1>1, <1>2, FileFacts DEF DeployInv, InvApplying
  <2>2. journal.state = "applying"
    BY DEF DeployInv, InvApplying
  <2>3. at # Targets => at + 1 <= Targets /\ journal'.mark[at + 1] = "pending"
    <3>1. at # Targets => at + 1 \in Files /\ at + 1 <= Targets
      BY <1>1, DeployAssumption DEF Files
    <3>2. QED
      BY <1>1, <1>2, <3>1 DEF DeployInv, InvApplying
  <2>4. QED
    BY <1>2, <2>1, <2>2, <2>3 DEF InvApplying
<1>5. InvBackups' /\ InvUndo' /\ InvSeen'
  BY DEF DeployInv, InvBackups, InvUndo, InvSeen
<1>6. JournalCoversWrites' /\ DeployedIsRecoverable'
  BY <1>1, <1>2 DEF DeployInv, JournalCoversWrites, DeployedIsRecoverable
<1>7. QED
  BY <1>3, <1>4, <1>5, <1>6 DEF DeployInv

LEMMA CommitDeploy == DeployInv /\ Commit => DeployInv'
<1> SUFFICES ASSUME DeployInv, Commit PROVE DeployInv'
  OBVIOUS
<1> USE DEF Commit
<1>1. /\ journal' \in Journals /\ journal'.mark = journal.mark
      /\ journal'.state = "deployed"
  BY DEF DeployInv, TypeOK, Journals
<1>2. TypeOK'
  BY <1>1 DEF DeployInv, TypeOK
<1>3. InvApplying'
  BY <1>1, DeployAssumption DEF DeployInv, InvApplying, Files
<1>4. InvBackups' /\ InvUndo' /\ InvSeen'
  BY DEF DeployInv, InvBackups, InvUndo, InvSeen
<1>5. JournalCoversWrites' /\ DeployedIsRecoverable'
  BY <1>1 DEF DeployInv, JournalCoversWrites, DeployedIsRecoverable
<1>6. QED
  BY <1>2, <1>3, <1>4, <1>5 DEF DeployInv

\* What was attempted is what the journal no longer marks as pending.
LEMMA AttemptedFacts ==
  ASSUME DeployInv, pc \in {"mark", "copy", "replace", "check", "commit"}
  PROVE  /\ Attempted \subseteq Files
         /\ \A f \in Files : f \in Attempted <=> journal.mark[f] # "pending"
<1>1. at \in Nat /\ at >= 1 /\ at <= Targets + 1 /\ Targets \in Nat
  BY DeployAssumption DEF DeployInv, TypeOK
<1>2. \A f \in Files : f \in Nat /\ f >= 1 /\ f <= Targets
  BY <1>1 DEF Files
<1>3. CASE pc = "mark"
  BY <1>1, <1>2, <1>3 DEF Attempted, Files, DeployInv, InvApplying
<1>4. CASE pc \in {"copy", "replace", "check"}
  BY <1>1, <1>2, <1>4 DEF Attempted, Files, DeployInv, InvApplying
<1>5. CASE pc = "commit"
  BY <1>1, <1>2, <1>5 DEF Attempted, Files, DeployInv, InvApplying
<1>6. QED
  BY <1>3, <1>4, <1>5

LEMMA ApplyFailsDeploy == DeployInv /\ ApplyFails => DeployInv'
<1> SUFFICES ASSUME DeployInv, ApplyFails PROVE DeployInv'
  OBVIOUS
<1>1. /\ pc \in {"mark", "copy", "replace", "check", "commit"}
      /\ pc' = "undo" /\ todo' = Attempted /\ faults' \in {faults, faults + 1}
      /\ faults' # faults => faults < MaxFaults
      /\ tmp' \in [Files -> BOOLEAN]
      /\ UNCHANGED <<disk, backup, journal, at, acted, force, failed, seen, edits>>
  BY DeployAssumption DEF ApplyFails, Fault, DeployInv, TypeOK
<1>2. /\ Attempted \subseteq Files
      /\ \A f \in Files : f \in Attempted <=> journal.mark[f] # "pending"
  BY <1>1, AttemptedFacts
<1>3. TypeOK'
  BY <1>1, <1>2, DeployAssumption DEF DeployInv, TypeOK
<1>4. InvApplying' /\ InvBackups'
  BY <1>1 DEF DeployInv, InvApplying, InvBackups
<1>5. InvUndo'
  BY <1>1, <1>2 DEF DeployInv, InvUndo, JournalCoversWrites
<1>6. InvSeen'
  BY <1>1 DEF DeployInv, InvSeen
<1>7. JournalCoversWrites' /\ DeployedIsRecoverable'
  BY <1>1 DEF DeployInv, JournalCoversWrites, DeployedIsRecoverable
<1>8. QED
  BY <1>3, <1>4, <1>5, <1>6, <1>7 DEF DeployInv

\* Undoing, like an edit by others, deploys nothing.
LEMMA NothingDeployed ==
  ASSUME DeployInv, UNCHANGED <<backup, journal>>,
         \A f \in Files : disk'[f] = "post" => disk[f] = "post"
  PROVE  JournalCoversWrites' /\ DeployedIsRecoverable'
  BY FileFacts DEF DeployInv, JournalCoversWrites, DeployedIsRecoverable

\* A record is taken off the list, with a problem or undone.
LEMMA DoneDeploy ==
  ASSUME DeployInv, pc \in {"undo", "restore"}, NEW f \in todo,
         NEW problem \in BOOLEAN, Done(f, problem),
         disk' \in [Files -> Contents], tmp' \in [Files -> BOOLEAN],
         \A g \in Files : disk'[g] = "post" => disk[g] = "post",
         ~problem => disk'[f] # "post",
         faults' \in 0..MaxFaults,
         UNCHANGED <<backup, journal, at, acted, force, seen, edits>>
  PROVE  DeployInv'
<1>1. todo' = todo \ {f} /\ pc' = "undo" /\ failed' \in BOOLEAN
  BY DEF Done, DeployInv, TypeOK
<1>2. ~failed' => ~failed /\ ~problem
  BY DEF Done
<1>3. TypeOK'
  BY <1>1 DEF DeployInv, TypeOK
<1>4. InvApplying' /\ InvBackups' /\ InvSeen'
  BY <1>1 DEF DeployInv, InvApplying, InvBackups, InvSeen
<1>5. InvUndo'
  BY <1>1, <1>2 DEF DeployInv, InvUndo
<1>6. JournalCoversWrites' /\ DeployedIsRecoverable'
  BY NothingDeployed
<1>7. QED
  BY <1>3, <1>4, <1>5, <1>6 DEF DeployInv

LEMMA UndoRecordDeploy ==
  ASSUME DeployInv, NEW f \in Files,
         SkipRestored(f) \/ EndRestore(f) \/ Remove(f) \/ UndoFails(f)
  PROVE  DeployInv'
<1> USE DEF diskVars
<1>1. TypeOK /\ faults \in 0..MaxFaults /\ tmp \in [Files -> BOOLEAN]
      /\ disk \in [Files -> Contents]
  BY DEF DeployInv, TypeOK
<1>2. CASE SkipRestored(f)
  BY <1>1, <1>2, DoneDeploy DEF SkipRestored, Next1
<1>3. CASE EndRestore(f)
  <2>1. /\ f \in todo /\ pc = "restore" /\ Done(f, disk[f] # "torn")
        /\ disk' = [disk EXCEPT ![f] = IF @ = "torn" THEN "pre" ELSE @]
        /\ tmp' \in [Files -> BOOLEAN] /\ faults' \in 0..MaxFaults
        /\ UNCHANGED <<backup, journal, at, acted, force, seen, edits>>
    BY <1>1, <1>3 DEF EndRestore, Next1
  <2>2. disk' \in [Files -> Contents]
    BY <1>1, <2>1 DEF Contents
  <2>3. \A g \in Files : disk'[g] = "post" => disk[g] = "post"
    BY <1>1, <2>1
  <2>4. ~(disk[f] # "torn") => disk'[f] # "post"
    BY <1>1, <2>1
  <2>5. (disk[f] # "torn") \in BOOLEAN
    OBVIOUS
  <2>6. QED
    BY <2>1, <2>2, <2>3, <2>4, <2>5, DoneDeploy
<1>4. CASE Remove(f)
  <2>1. /\ f \in todo /\ pc = "undo" /\ Done(f, FALSE)
        /\ disk' = [disk EXCEPT ![f] = "missing"]
        /\ tmp' \in [Files -> BOOLEAN] /\ faults' \in 0..MaxFaults
        /\ UNCHANGED <<backup, journal, at, acted, force, seen, edits>>
    BY <1>1, <1>4 DEF Remove, Next1
  <2>2. /\ disk' \in [Files -> Contents]
        /\ disk'[f] # "post"
        /\ \A g \in Files : disk'[g] = "post" => disk[g] = "post"
    BY <1>1, <2>1 DEF Contents
  <2>3. QED
    BY <2>1, <2>2, DoneDeploy
<1>5. CASE UndoFails(f)
  <2>1. /\ f \in todo /\ pc \in {"undo", "restore"} /\ Done(f, TRUE)
        /\ tmp' \in [Files -> BOOLEAN]
        /\ UNCHANGED <<disk, backup, journal, at, acted, force, seen, edits>>
    BY <1>1, <1>5 DEF UndoFails, Next1
  <2>2. faults' \in 0..MaxFaults
    BY <1>1, <1>5, DeployAssumption DEF UndoFails, Fault
  <2>3. QED
    BY <1>1, <2>1, <2>2, DoneDeploy
<1>6. QED
  BY <1>2, <1>3, <1>4, <1>5

LEMMA BeginRestoreDeploy ==
  ASSUME DeployInv, NEW f \in Files, BeginRestore(f)
  PROVE  DeployInv'
<1> USE DEF BeginRestore
<1>1. TypeOK'
  BY DEF DeployInv, TypeOK, Contents
<1>2. \A g \in Files : disk'[g] = "post" => disk[g] = "post"
  BY DEF DeployInv, TypeOK
<1>3. InvApplying' /\ InvBackups' /\ InvSeen'
  BY DEF DeployInv, InvApplying, InvBackups, InvSeen
<1>4. InvUndo'
  BY <1>2 DEF DeployInv, InvUndo
<1>5. JournalCoversWrites' /\ DeployedIsRecoverable'
  BY <1>2, NothingDeployed
<1>6. QED
  BY <1>1, <1>3, <1>4, <1>5 DEF DeployInv

LEMMA EndUndoDeploy == DeployInv /\ EndUndo => DeployInv'
<1> SUFFICES ASSUME DeployInv, EndUndo PROVE DeployInv'
  OBVIOUS
<1> USE DEF EndUndo, diskVars
<1>1. TypeOK'
  BY DEF DeployInv, TypeOK
<1>2. InvApplying' /\ InvBackups' /\ InvSeen'
  BY DEF DeployInv, InvApplying, InvBackups, InvSeen
<1>3. InvUndo'
  BY DEF DeployInv, InvUndo, Restored
<1>4. JournalCoversWrites' /\ DeployedIsRecoverable'
  BY NothingDeployed
<1>5. QED
  BY <1>1, <1>2, <1>3, <1>4 DEF DeployInv

\* A revert that ends in the middle leaves what its next run can start from.
LEMMA RaisedDeploy ==
  ASSUME DeployInv, NEW f \in Files, RestoreRaises(f)
  PROVE  DeployInv'
<1> USE DEF RestoreRaises, diskVars
<1>1. TypeOK'
  BY DEF DeployInv, TypeOK
<1>2. InvApplying' /\ InvBackups' /\ InvSeen' /\ InvUndo'
  BY DEF DeployInv, InvApplying, InvBackups, InvSeen, InvUndo
<1>3. JournalCoversWrites' /\ DeployedIsRecoverable'
  BY NothingDeployed
<1>4. QED
  BY <1>1, <1>2, <1>3 DEF DeployInv

LEMMA ForgetDeploy == DeployInv /\ (RemoveBackups \/ Discard) => DeployInv'
<1> SUFFICES ASSUME DeployInv, RemoveBackups \/ Discard PROVE DeployInv'
  OBVIOUS
<1>1. \A f \in Files : disk[f] # "post"
  BY DEF DeployInv, InvUndo, RemoveBackups, Discard
<1>2. TypeOK'
  <2>1. faults' \in 0..MaxFaults
    BY DeployAssumption DEF DeployInv, TypeOK, RemoveBackups, Discard, Fault
  <2>2. journal' \in Journals
    BY DEF DeployInv, TypeOK, RemoveBackups, Discard, Journals, NoJournal, NoMarks,
       Marks
  <2>3. QED
    BY <2>1, <2>2 DEF DeployInv, TypeOK, RemoveBackups, Discard
<1>3. InvApplying' /\ InvBackups' /\ InvSeen'
  BY DEF DeployInv, InvApplying, InvBackups, InvSeen, RemoveBackups, Discard,
     NoJournal
<1>4. InvUndo'
  BY <1>1 DEF InvUndo, RemoveBackups, Discard
<1>5. JournalCoversWrites' /\ DeployedIsRecoverable'
  BY <1>1, FileFacts
     DEF JournalCoversWrites, DeployedIsRecoverable, RemoveBackups, Discard
<1>6. QED
  BY <1>2, <1>3, <1>4, <1>5 DEF DeployInv

LEMMA BeginUndoDeploy ==
  ASSUME DeployInv, pc = "idle", NEW P \in SUBSET Files, NEW fc \in BOOLEAN,
         BeginUndo(P, fc),
         \A f \in P : journal.mark[f] # "pending",
         \A f \in Files \ P : disk[f] # "post",
         ~fc => \A f \in P : ~IsForeign(f)
  PROVE  DeployInv'
<1> USE DEF BeginUndo, diskVars
<1>1. TypeOK'
  BY DEF DeployInv, TypeOK
<1>2. InvApplying' /\ InvBackups'
  BY DEF DeployInv, InvApplying, InvBackups
<1>3. InvUndo' /\ InvSeen'
  BY DEF InvUndo, InvSeen
<1>4. JournalCoversWrites' /\ DeployedIsRecoverable'
  BY NothingDeployed
<1>5. QED
  BY <1>1, <1>2, <1>3, <1>4 DEF DeployInv

LEMMA RevertDeploy ==
  ASSUME DeployInv, NEW fc \in BOOLEAN, Revert(fc)
  PROVE  DeployInv'
<1>1. CASE RevertDeployed(fc)
  <2>1. \A f \in Files : journal.mark[f] # "pending"
    BY <1>1 DEF RevertDeployed, DeployInv, InvApplying
  <2>2. ~fc => \A f \in Files : ~IsForeign(f)
    BY <1>1 DEF RevertDeployed, IsForeign
  <2>3. QED
    BY <1>1, <2>1, <2>2, BeginUndoDeploy DEF RevertDeployed
<1>2. CASE RevertUnfinished(fc)
  <2> DEFINE P == {f \in Files : Undoes(f, fc)}
  <2>1. \A f \in P : journal.mark[f] # "pending"
    BY DEF Undoes
  <2>2. \A f \in Files \ P : disk[f] # "post"
    BY DEF Undoes, DeployInv, JournalCoversWrites
  <2>3. ~fc => \A f \in P : ~IsForeign(f)
    BY DEF Undoes, IsForeign
  <2>4. P \in SUBSET Files /\ pc = "idle" /\ BeginUndo(P, fc)
    BY <1>2 DEF RevertUnfinished
  <2> HIDE DEF P
  <2>5. QED
    BY <2>1, <2>2, <2>3, <2>4, BeginUndoDeploy
<1>3. QED
  BY <1>1, <1>2 DEF Revert

LEMMA CrashDeploy == DeployInv /\ Crash => DeployInv'
<1> SUFFICES ASSUME DeployInv, Crash PROVE DeployInv'
  OBVIOUS
<1>1. /\ pc' = "idle" /\ todo' = {} /\ acted' = {} /\ failed' = FALSE
      /\ UNCHANGED <<disk, tmp, journal, at, force, seen, edits>>
  BY DEF Crash
<1>2. faults' \in 0..MaxFaults
  BY DeployAssumption DEF DeployInv, TypeOK, Crash, Fault
<1>3. backup' \in [Files -> {"none", "pre", "torn"}]
  BY DEF DeployInv, TypeOK, Crash
<1>4. TypeOK'
  BY <1>1, <1>2, <1>3 DEF DeployInv, TypeOK
<1>5. InvApplying' /\ InvBackups' /\ InvUndo' /\ InvSeen'
  BY <1>1 DEF DeployInv, InvApplying, InvBackups, InvUndo, InvSeen
<1>6. JournalCoversWrites'
  BY <1>1 DEF DeployInv, JournalCoversWrites
<1>7. DeployedIsRecoverable'
  <2>1. CASE UNCHANGED backup
    BY <1>1, <2>1 DEF DeployInv, DeployedIsRecoverable
  <2>2. CASE pc \in {"backup", "cleanup"}
    BY <1>1, <2>2, FileFacts DEF DeployInv, DeployedIsRecoverable, InvUndo,
       InvApplying, JournalCoversWrites
  <2>3. QED
    BY <2>1, <2>2 DEF Crash
<1>8. QED
  BY <1>4, <1>5, <1>6, <1>7 DEF DeployInv

LEMMA EditDeploy ==
  ASSUME DeployInv, NEW f \in Files, NEW content \in {"foreign", "missing"},
         Edit(f, content)
  PROVE  DeployInv'
<1> USE DEF Edit, procVars
<1>1. \A g \in Files : disk'[g] = "post" => disk[g] = "post"
  BY DEF DeployInv, TypeOK
<1>2. TypeOK'
  <2>1. edits' \in 0..MaxEdits
    BY DeployAssumption DEF DeployInv, TypeOK
  <2>2. disk' \in [Files -> Contents]
    BY DEF DeployInv, TypeOK, Contents
  <2>3. QED
    BY <2>1, <2>2 DEF DeployInv, TypeOK
<1>3. InvApplying' /\ InvBackups' /\ InvSeen'
  BY DEF DeployInv, InvApplying, InvBackups, InvSeen
<1>4. InvUndo'
  BY <1>1 DEF DeployInv, InvUndo
<1>5. JournalCoversWrites' /\ DeployedIsRecoverable'
  BY <1>1, NothingDeployed
<1>6. QED
  BY <1>2, <1>3, <1>4, <1>5 DEF DeployInv

LEMMA NextDeploy == DeployInv /\ [Next]_vars => DeployInv'
<1> SUFFICES ASSUME DeployInv, [Next]_vars PROVE DeployInv'
  OBVIOUS
<1>1. CASE UNCHANGED vars
  BY <1>1 DEF vars, diskVars, procVars, DeployInv, TypeOK, InvApplying, InvBackups,
     InvUndo, InvSeen, JournalCoversWrites, DeployedIsRecoverable
<1>2. CASE Apply
  BY <1>2, BackUpDeploy, SaveJournalDeploy, MarkWritingDeploy, ReplaceDeploy,
     MarkWrittenDeploy, CommitDeploy, ApplyFailsDeploy DEF Apply
<1>3. CASE Undo
  BY <1>3, UndoRecordDeploy, RaisedDeploy, BeginRestoreDeploy, EndUndoDeploy, ForgetDeploy DEF Undo
<1>4. QED
  BY <1>1, <1>2, <1>3, StartApplyDeploy, RevertDeploy, CrashDeploy, EditDeploy DEF Next

\* The inductive invariant holds whatever crashes, fails or is edited.
THEOREM DeployInductive == Spec => []DeployInv
  BY InitDeploy, NextDeploy, PTL DEF Spec

\* No deployed file is on disk without a journal that says it was written.
THEOREM JournalCovers == Spec => []JournalCoversWrites
<1>1. DeployInv => JournalCoversWrites
  BY DEF DeployInv
<1>2. QED
  BY <1>1, DeployInductive, PTL

\* Where a deployed file replaced an original, its backup is whole.
THEOREM Recoverable == Spec => []DeployedIsRecoverable
<1>1. DeployInv => DeployedIsRecoverable
  BY DEF DeployInv
<1>2. QED
  BY <1>1, DeployInductive, PTL

\* A step of the tool writes to the target in work or to one on its list.
LEMMA Writers ==
  ASSUME DeployInv, Next, ToolStep
  PROVE  \/ UNCHANGED disk
         \/ /\ pc = "replace"
            /\ \A f \in Files : f # at => disk'[f] = disk[f]
         \/ /\ pc \in {"undo", "restore"}
            /\ \A f \in Files : f \notin todo => disk'[f] = disk[f]
<1>1. disk \in [Files -> Contents] /\ edits \in Nat
  BY DeployAssumption DEF DeployInv, TypeOK
<1>2. CASE Apply
  BY <1>1, <1>2 DEF Apply, BackUp, SaveJournal, BackUpFails, MarkWriting, CopyTmp,
     Replace, MarkWritten, Commit, ApplyFails, diskVars
<1>3. CASE Undo
  BY <1>1, <1>3 DEF Undo, SkipRestored, BeginRestore, EndRestore, RestoreRaises, Remove,
     UndoFails, EndUndo, RemoveBackups, Discard, Next1, diskVars
<1>4. CASE StartApply \/ Crash \/ \E fc \in BOOLEAN : Revert(fc)
  BY <1>4 DEF StartApply, Crash, Revert, RevertDeployed, RevertUnfinished, BeginUndo,
     diskVars
<1>5. CASE \E f \in Files, content \in {"foreign", "missing"} : Edit(f, content)
  BY <1>1, <1>5 DEF Edit, ToolStep
<1>6. QED
  BY <1>2, <1>3, <1>4, <1>5 DEF Next

\* Undoing never touches a target that the journal marks as pending.
THEOREM PendingStays == Spec => PendingUntouched
<1>1. DeployInv /\ [Next]_vars =>
        [ToolStep /\ pc \in {"undo", "restore"} =>
            \A f \in Files : journal.mark[f] = "pending" => disk'[f] = disk[f]]_vars
  <2> SUFFICES ASSUME DeployInv, Next, ToolStep, pc \in {"undo", "restore"},
                      NEW f \in Files, journal.mark[f] = "pending"
               PROVE  disk'[f] = disk[f]
    OBVIOUS
  <2>1. f \notin todo
    BY DEF DeployInv, InvUndo
  <2>2. QED
    BY <2>1, Writers
<1>2. QED
  BY <1>1, DeployInductive, PTL DEF Spec, PendingUntouched

\* What a command finds edited by others survives it, unless it is forced.
THEOREM ForeignStays == Spec => CheckedForeignPreserved
<1>1. DeployInv /\ [Next]_vars =>
        [ToolStep /\ ~force => \A f \in seen : disk'[f] = disk[f]]_vars
  <2> SUFFICES ASSUME DeployInv, Next, ToolStep, ~force, NEW f \in seen
               PROVE  disk'[f] = disk[f]
    OBVIOUS
  <2>1. f \in Files
    BY DEF DeployInv, TypeOK
  <2>2. CASE pc = "replace"
    BY <2>2 DEF DeployInv, InvSeen
  <2>3. CASE pc \in {"undo", "restore"}
    BY <2>1, <2>3, Writers DEF DeployInv, InvSeen
  <2>4. QED
    BY <2>1, <2>2, <2>3, Writers
<1>2. QED
  BY <1>1, DeployInductive, PTL DEF Spec, CheckedForeignPreserved
=============================================================================
