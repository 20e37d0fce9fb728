------------------------- MODULE ReferenceRunProofs -------------------------
(***************************************************************************)
(* A calibration run for every set of layers, prompt, number of forwards   *)
(* and number of faults: the wrappers come off, the dense reference only   *)
(* ever computes decode tokens of its request, and a reference run that is *)
(* accepted was computed exactly as its record says.                       *)
(***************************************************************************)
EXTENDS ReferenceRun, TLAPS

USE DEF Main, Other, NoReq

LEMMA Constants ==
  /\ Layers \subseteq Slots /\ Model \in Slots /\ Prepare \in Slots
  /\ Model \notin Layers /\ Prepare \notin Layers /\ Model # Prepare
  /\ PromptLen \in Nat /\ PromptLen > 0 /\ Total \in Nat /\ Total > 1 /\ Slack \in Nat
  BY ReferenceRunAssumption DEF Slots

-----------------------------------------------------------------------------
(* Types.                                                                  *)

LEMMA RestoreTyped ==
  ASSUME TypeOK, Restore
  PROVE  /\ at' \in [Slots -> Wrappers]
         /\ attSaved' \in [Slots -> {"none", "orig"}]
         /\ capSaved' \in [Slots -> {"none", "orig", "att"}]
<1>1. \A s \in Slots : Original(s) \in Wrappers
  BY DEF TypeOK, Original, Wrappers
<1>2. QED
  BY <1>1 DEF TypeOK, Restore

LEMMA PlainBatchTyped == TypeOK => PlainBatch \in Batches
  BY DEF TypeOK, PlainBatch, Batches, Requests

LEMMA SeenTyped ==
  ASSUME TypeOK, NEW b \in Batches, Seen(b)
  PROVE  /\ batch' \in Batches /\ real' \in Batches
         /\ fresh' \in BOOLEAN /\ fw' \in {"idle", "prepared", "running"} /\ called' \subseteq Layers
  BY DEF TypeOK, Seen

LEMMA FaultTyped == (TypeOK /\ Fault) => faults' \in Nat
  BY DEF TypeOK, Fault

LEMMA FailsTyped ==
  ASSUME Fails
  PROVE  /\ fw' \in {"idle", "prepared", "running"} /\ stepOpen' \in BOOLEAN
         /\ pc' \in {"failing", "finally", "leaving"}
         /\ (TypeOK => verdict' \in {"none", "accepted", "rejected", "raised"})
  BY DEF Fails, TypeOK

LEMMA AppendFacts ==
  ASSUME NEW S, NEW q \in Seq(S), NEW x \in S
  PROVE  /\ Append(q, x) \in Seq(S)
         /\ Len(Append(q, x)) = Len(q) + 1
         /\ \A i \in 1..Len(q) : Append(q, x)[i] = q[i]
         /\ Append(q, x)[Len(q) + 1] = x
  OBVIOUS

\* Layers are added to the set of one step.
LEMMA AddFacts ==
  ASSUME NEW q \in Seq(SUBSET Layers), NEW k, NEW x \in Layers
  PROVE  /\ Added(q, k, x) \in Seq(SUBSET Layers)
         /\ Len(Added(q, k, x)) = Len(q)
         /\ k \in 1..Len(q) => Added(q, k, x)[k] = q[k] \cup {x}
         /\ \A i \in 1..Len(q) : i # k => Added(q, k, x)[i] = q[i]
<1> DEFINE r == [i \in 1..Len(q) |-> IF i = k THEN q[k] \cup {x} ELSE q[i]]
<1>1. Added(q, k, x) = r
  <2>1. DOMAIN q = 1..Len(q)
    OBVIOUS
  <2>2. Added(q, k, x) = [i \in DOMAIN q |-> IF i = k THEN q[k] \cup {x} ELSE q[i]]
    BY DEF Added
  <2>3. QED
    BY <2>1, <2>2
<1>2. r \in Seq(SUBSET Layers) /\ Len(r) = Len(q)
  <2>1. \A i \in 1..Len(q) : (IF i = k THEN q[k] \cup {x} ELSE q[i]) \in SUBSET Layers
    OBVIOUS
  <2>2. Len(q) \in Nat
    OBVIOUS
  <2>3. QED
    BY <2>1, <2>2
<1>3. QED
  BY <1>1, <1>2

LEMMA ObserveTyped ==
  ASSUME TypeOK, NEW l \in Layers, Observe(l) \/ UNCHANGED records
  PROVE  records' \in Seq(SUBSET Layers) /\ Len(records') = Len(records)
<1>0. records \in Seq(SUBSET Layers)
  BY DEF TypeOK
<1>1. Added(records, requestStep, l) \in Seq(SUBSET Layers)
  BY <1>0, AddFacts
<1>2. Len(Added(records, requestStep, l)) = Len(records)
  BY <1>0, AddFacts
<1>3. records' = records \/ records' = Added(records, requestStep, l)
  BY DEF Observe
<1>4. QED
  BY <1>0, <1>1, <1>2, <1>3

LEMMA NatFacts ==
  TypeOK => /\ requestStep \in Nat /\ curStep \in Nat /\ completed \in Nat /\ computed \in Nat
            /\ prompt \in Nat /\ prefillLen \in Nat /\ steps \in Nat /\ tokens \in Nat
            /\ rounds \in Nat /\ faults \in Nat
            /\ batch.start \in Nat /\ batch.len \in Nat /\ real.start \in Nat /\ real.len \in Nat
  BY DEF TypeOK, Batches

LEMMA InitType == Init => TypeOK
<1>1. ASSUME Init PROVE batch \in Batches /\ real \in Batches
  BY <1>1 DEF Init, NoBatch, Batches, Requests
<1>2. ASSUME Init
      PROVE  /\ records \in Seq(SUBSET Layers) /\ snaps \in Seq(SUBSET Layers)
             /\ ledger \in Seq(Rows) /\ truth \in Seq(Computations)
             /\ positions \in Seq([start : Nat, len : Nat])
  BY <1>2 DEF Init
<1>3. ASSUME Init PROVE {requestStep, curStep, completed, computed, prompt, prefillLen, steps, tokens,
                         rounds, faults} \subseteq Nat
  BY <1>3, Constants DEF Init
<1>4. QED
  BY <1>1, <1>2, <1>3, Constants DEF Init, TypeOK, Wrappers

LEMMA TypeInstall ==
  ASSUME TypeOK,
         \/ \E l \in Layers : AttachLayer(l)
         \/ \E s \in Slots : CaptureSlot(s)
         \/ InstallFails \/ Submit \/ SubmitFails,
         WrapInv
  PROVE  TypeOK'
<1> USE DEF wrapVars, capVars, refVars, engVars, batchVars
<1>1. ASSUME NEW l \in Layers, AttachLayer(l) PROVE TypeOK'
  <2>1. at[l] = "orig"
    BY <1>1, Constants DEF AttachLayer, TypeOK, WrapInv, Wrappers
  <2>2. QED
    BY <1>1, <2>1, Constants DEF AttachLayer, TypeOK, Wrappers
<1>2. ASSUME NEW s \in Slots, CaptureSlot(s) PROVE TypeOK'
  <2>1. at[s] \in {"orig", "att"}
    BY <1>2 DEF CaptureSlot, TypeOK, WrapInv, Wrappers
  <2>2. QED
    BY <1>2, <2>1 DEF CaptureSlot, TypeOK, Wrappers
<1>3. CASE InstallFails
  BY <1>3, RestoreTyped, FaultTyped DEF InstallFails, TypeOK, Disarm
<1>4. CASE Submit
  <2>1. prompt' \in Nat /\ faults' \in Nat /\ prefillLen' = prompt'
    BY <1>4, FaultTyped, Constants DEF Submit, TypeOK
  <2>2. QED
    BY <1>4, <2>1 DEF Submit, TypeOK
<1>5. CASE SubmitFails
  BY <1>5, FaultTyped DEF SubmitFails, TypeOK
<1>6. QED
  BY <1>1, <1>2, <1>3, <1>4, <1>5

LEMMA TypeSchedule ==
  ASSUME TypeOK, Scheduled \/ Preempt \/ EmptyStep \/ OtherScheduled
  PROVE  TypeOK'
<1> USE DEF wrapVars, capVars, refVars, engVars, batchVars
<1>1. CASE Scheduled
  <2>1. ASSUME NEW b \in Batches, Seen(b), faults' \in Nat PROVE TypeOK'
    BY <1>1, <2>1, SeenTyped DEF Scheduled, TypeOK
  <2>2. PlainBatch \in Batches
    BY PlainBatchTyped
  <2>3. \A n \in 1..(PlainBatch.len - 1) : [PlainBatch EXCEPT !.len = n] \in Batches
    BY <2>2 DEF Batches
  <2>4. [PlainBatch EXCEPT !.reqs = Requests] \in Batches
    BY <2>2 DEF Batches, Requests
  <2>5. [reqs |-> {Other}, start |-> 0, len |-> PromptLen, prefill |-> TRUE] \in Batches
    BY Constants DEF Batches, Requests
  <2>6. CASE Seen(PlainBatch) /\ UNCHANGED faults
    BY <2>1, <2>2, <2>6 DEF TypeOK
  <2>7. ASSUME Fault, NEW n \in 1..(PlainBatch.len - 1), Seen([PlainBatch EXCEPT !.len = n])
        PROVE  TypeOK'
    BY <2>1, <2>3, <2>7, FaultTyped
  <2>8. ASSUME Fault, Seen([PlainBatch EXCEPT !.reqs = Requests])
        PROVE  TypeOK'
    BY <2>1, <2>4, <2>8, FaultTyped
  <2>9. ASSUME Fault, Seen([reqs |-> {Other}, start |-> 0, len |-> PromptLen, prefill |-> TRUE])
        PROVE  TypeOK'
    BY <2>1, <2>5, <2>9, FaultTyped
  <2>10. CASE /\ Fault /\ fw' = "prepared" /\ real' = PlainBatch /\ called' = {}
              /\ UNCHANGED <<batch, fresh>>
    BY <1>1, <2>2, <2>10, FaultTyped DEF Scheduled, TypeOK
  <2>11. QED
    BY <1>1, <2>6, <2>7, <2>8, <2>9, <2>10 DEF Scheduled
<1>2. CASE Preempt
  BY <1>2, FaultTyped DEF Preempt, Stepping, TypeOK
<1>3. CASE EmptyStep
  BY <1>3 DEF EmptyStep, Stepping, TypeOK
<1>4. CASE OtherScheduled
  <2>1. [reqs |-> {Other}, start |-> 0, len |-> PromptLen, prefill |-> TRUE] \in Batches
    BY Constants DEF Batches, Requests
  <2>2. faults' \in Nat
    BY <1>4, FaultTyped DEF OtherScheduled, TypeOK
  <2>3. QED
    BY <1>4, <2>1, <2>2, SeenTyped DEF OtherScheduled, TypeOK
<1>5. QED
  BY <1>1, <1>2, <1>3, <1>4

LEMMA ComputedTyped ==
  ASSUME TypeOK, NEW l \in Layers, NEW by \in {"original", "dense"}, Computed(l, by)
  PROVE  truth' \in Seq(Computations)
<1>1. [layer |-> l, reqs |-> real.reqs, start |-> real.start, len |-> real.len, by |-> by]
        \in Computations
  BY DEF TypeOK, Batches, Computations
<1>2. truth \in Seq(Computations)
  BY DEF TypeOK
<1>3. QED
  BY <1>1, <1>2, AppendFacts DEF Computed

LEMMA RowTyped ==
  ASSUME TypeOK, NEW l \in Layers, NEW a \in {"passthrough", "overrode", "error_restored"}
  PROVE  Row(l, a) \in Rows /\ Append(ledger, Row(l, a)) \in Seq(Rows)
<1>1. Row(l, a) \in Rows
  BY NatFacts DEF TypeOK, Row, Rows
<1>2. ledger \in Seq(Rows)
  BY DEF TypeOK
<1>3. QED
  BY <1>1, <1>2, AppendFacts

LEMMA TypeForward ==
  ASSUME TypeOK,
         \/ Begin \/ EngineRaises
         \/ \E l \in Layers : CallThrough(l) \/ CallReference(l) \/ ReferenceRaises(l)
  PROVE  TypeOK'
<1> USE DEF wrapVars, capVars, refVars, engVars, batchVars
<1>1. CASE Begin
  <2>1. Append(records, {}) \in Seq(SUBSET Layers) /\ Append(snaps, {}) \in Seq(SUBSET Layers)
    BY AppendFacts DEF TypeOK
  <2>2. /\ records' \in Seq(SUBSET Layers) /\ snaps' \in Seq(SUBSET Layers)
        /\ curReq' \in {NoReq, Main} /\ fresh' \in BOOLEAN
    BY <1>1, <2>1 DEF Begin, TypeOK
  <2>5. requestStep' \in Nat /\ curStep' \in Nat
    <3>1. requestStep \in Nat /\ curStep \in Nat /\ requestStep + 1 - 1 \in Nat
      BY DEF TypeOK
    <3>2. QED
      BY <1>1, <3>1 DEF Begin
  <2>3. /\ fw' \in {"idle", "prepared", "running"} /\ stepOpen' \in BOOLEAN
        /\ pc' \in {"failing", "finally", "leaving", pc}
        /\ verdict' \in {"none", "accepted", "rejected", "raised"}
    BY <1>1, FailsTyped DEF Begin, TypeOK
  <2>4. QED
    BY <1>1, <2>2, <2>3, <2>5 DEF Begin, TypeOK
<1>2. CASE EngineRaises
  BY <1>2, FaultTyped, FailsTyped DEF EngineRaises, TypeOK
<1>3. ASSUME NEW l \in Layers, CallThrough(l) PROVE TypeOK'
  <2>1. records' \in Seq(SUBSET Layers)
    BY <1>3, ObserveTyped DEF CallThrough
  <2>2. faults' \in Nat /\ called' \subseteq Layers
    BY <1>3, FaultTyped DEF CallThrough, Turn, TypeOK
  <2>3. /\ fw' \in {"idle", "prepared", "running"} /\ stepOpen' \in BOOLEAN
        /\ pc' \in {"failing", "finally", "leaving", pc}
        /\ verdict' \in {"none", "accepted", "rejected", "raised"}
    BY <1>3, FailsTyped DEF CallThrough, TypeOK
  <2>4. truth' \in Seq(Computations) /\ ledger' \in Seq(Rows)
    <3>1. ledger \in Seq(Rows)
      BY DEF TypeOK
    <3>2. QED
      BY <1>3, <3>1, ComputedTyped, RowTyped DEF CallThrough
  <2>5. QED
    BY <1>3, <2>1, <2>2, <2>3, <2>4 DEF CallThrough, TypeOK
<1>4. ASSUME NEW l \in Layers, CallReference(l) PROVE TypeOK'
  <2>1. records' \in Seq(SUBSET Layers)
    BY <1>4, ObserveTyped DEF CallReference
  <2>2. snaps' \in Seq(SUBSET Layers)
    BY <1>4, AddFacts DEF CallReference, TypeOK
  <2>3. faults' \in Nat /\ called' \subseteq Layers
    BY <1>4, FaultTyped DEF CallReference, Turn, TypeOK
  <2>4. truth' \in Seq(Computations) /\ ledger' \in Seq(Rows)
    <3>1. \A b \in {"original", "dense"} : Computed(l, b) => truth' \in Seq(Computations)
      BY ComputedTyped
    <3>2. \A a \in {"passthrough", "overrode"} : Append(ledger, Row(l, a)) \in Seq(Rows)
      BY RowTyped
    <3>3. CASE Overrides
      BY <1>4, <3>1, <3>2, <3>3 DEF CallReference
    <3>4. CASE ~Overrides
      BY <1>4, <3>1, <3>2, <3>4 DEF CallReference
    <3>5. QED
      BY <3>3, <3>4
  <2>5. QED
    BY <1>4, <2>1, <2>2, <2>3, <2>4 DEF CallReference, TypeOK
<1>5. ASSUME NEW l \in Layers, ReferenceRaises(l) PROVE TypeOK'
  <2>1. at' \in [Slots -> Wrappers]
    BY <1>5 DEF ReferenceRaises, TypeOK, Wrappers
  <2>2. faults' \in Nat /\ called' \subseteq Layers
    BY <1>5, FaultTyped DEF ReferenceRaises, Turn, TypeOK
  <2>3. ledger' \in Seq(Rows)
    BY <1>5, RowTyped DEF ReferenceRaises
  <2>4. QED
    BY <1>5, <2>1, <2>2, <2>3, FailsTyped DEF ReferenceRaises, TypeOK
<1>6. QED
  BY <1>1, <1>2, <1>3, <1>4, <1>5

LEMMA ReturnedTyped ==
  ASSUME TypeOK, Returned
  PROVE  /\ {computed', prompt', prefillLen', steps', tokens', rounds'} \subseteq Nat
         /\ foreign' \in BOOLEAN /\ pc' \in {"finally", "drive"}
         /\ verdict' = verdict
<1>1. computed' \in Nat /\ tokens' \in Nat /\ steps' \in Nat
  BY NatFacts DEF Returned
<1>2. QED
  BY <1>1, NatFacts DEF Returned, TypeOK

LEMMA TypeEnd ==
  ASSUME TypeOK, EndForward \/ FlushFails \/ EndOther
  PROVE  TypeOK'
<1> USE DEF wrapVars, capVars, refVars, engVars, batchVars
<1>0. positions' \in Seq([start : Nat, len : Nat])
  <2>1. /\ positions \in Seq([start : Nat, len : Nat])
        /\ [start |-> real.start, len |-> real.len] \in [start : Nat, len : Nat]
    BY NatFacts DEF TypeOK
  <2>2. Append(positions, [start |-> real.start, len |-> real.len]) \in Seq([start : Nat, len : Nat])
    BY <2>1, AppendFacts
  <2>3. QED
    BY <2>1, <2>2 DEF EndForward, FlushFails, EndOther
<1>1. CASE EndForward
  <2>1. /\ {computed', prompt', prefillLen', steps', tokens', rounds'} \subseteq Nat
        /\ foreign' \in BOOLEAN
        /\ pc' \in {"failing", "finally", "leaving", "drive"}
        /\ verdict' \in {"none", "accepted", "rejected", "raised"}
    BY <1>1, ReturnedTyped, FailsTyped DEF EndForward, TypeOK
  <2>2. /\ fw' \in {"idle", "prepared", "running"} /\ stepOpen' \in BOOLEAN
        /\ completed' \in Nat /\ curReq' \in {NoReq, Main}
    BY <1>1, FailsTyped DEF EndForward, TypeOK
  <2>3. faults' \in Nat
    BY <1>1, FaultTyped DEF EndForward, TypeOK
  <2>4. QED
    BY <1>0, <1>1, <2>1, <2>2, <2>3 DEF EndForward, TypeOK
<1>2. CASE FlushFails
  BY <1>0, <1>2, FaultTyped, FailsTyped DEF FlushFails, TypeOK
<1>3. CASE EndOther
  <2>1. rounds' \in Nat /\ pc' \in {"cleanup", "aborting", "finally"}
    BY <1>3, NatFacts DEF EndOther
  <2>2. QED
    BY <1>3, <2>1 DEF EndOther, TypeOK
<1>4. QED
  BY <1>1, <1>2, <1>3

LEMMA TypeDriver ==
  ASSUME TypeOK,
         OutOfBudget \/ Handle \/ AbortStep \/ Finally \/ Check \/ CleanedUp \/ Leave
  PROVE  TypeOK'
<1> USE DEF wrapVars, capVars, refVars, engVars, batchVars
<1>1. CASE OutOfBudget \/ AbortStep \/ Check \/ CleanedUp
  BY <1>1 DEF OutOfBudget, AbortStep, Check, CleanedUp, TypeOK
<1>2. CASE Handle
  BY <1>2 DEF Handle, Disarm, TypeOK
<1>3. CASE Finally
  <2>1. CASE HasReference
    BY <1>3, <2>1, RestoreTyped DEF Finally, Disarm, TypeOK
  <2>2. CASE ~HasReference
    BY <1>3, <2>2 DEF Finally, Disarm, TypeOK
  <2>3. QED
    BY <2>1, <2>2
<1>4. CASE Leave
  BY <1>4, RestoreTyped DEF Leave, Disarm, TypeOK
<1>5. QED
  BY <1>1, <1>2, <1>3, <1>4

LEMMA TypeStep == TypeOK /\ WrapInv /\ [Next]_vars => TypeOK'
<1> SUFFICES ASSUME TypeOK, WrapInv, [Next]_vars PROVE TypeOK'
  OBVIOUS
<1>1. CASE UNCHANGED vars
  BY <1>1 DEF vars, wrapVars, capVars, refVars, engVars, batchVars, TypeOK
<1>2. CASE Next
  BY <1>2, TypeInstall, TypeSchedule, TypeForward, TypeEnd, TypeDriver DEF Next
<1>3. QED
  BY <1>1, <1>2
-----------------------------------------------------------------------------
(* The wrappers and the originals.                                         *)

LEMMA WrapFrame ==
  ASSUME WrapInv, UNCHANGED wrapVars, pc' = pc \/ pc' \notin {"install", "submit"}
  PROVE  WrapInv'
  BY DEF WrapInv, wrapVars

\* However the attributes are wrapped, restoring finds the originals.
LEMMA RestoreClears ==
  ASSUME TypeOK, WrapInv, Restore, pc' \notin {"install", "submit"}
  PROVE  WrapInv' /\ \A s \in Slots : at'[s] = "orig"
<1>1. \A s \in Slots : Original(s) = "orig"
  BY DEF TypeOK, WrapInv, Original, Wrappers
<1>2. \A s \in Slots : at'[s] = "orig" /\ capSaved'[s] = "none" /\ attSaved'[s] = attSaved[s]
  BY <1>1 DEF Restore
<1>3. QED
  BY <1>2 DEF WrapInv

\* Where an action can leave the driver.
LEMMA PcFrame ==
  ASSUME TypeOK, ControlInv,
         \/ Submit \/ SubmitFails \/ Scheduled \/ Preempt \/ EmptyStep \/ OtherScheduled
         \/ Begin \/ EndForward \/ FlushFails \/ EndOther \/ EngineRaises
         \/ OutOfBudget \/ Handle \/ AbortStep \/ Check \/ CleanedUp
         \/ \E l \in Layers : CallThrough(l) \/ CallReference(l)
  PROVE  /\ UNCHANGED wrapVars
         /\ pc' = pc \/ pc' \notin {"install", "submit"}
         /\ (HasReference /\ pc' \in {"check", "cleanup"}) => pc \in {"check", "cleanup"}
         /\ pc' \in {"check", "ended"} => pc' = pc
<1> USE DEF wrapVars
<1>1. CASE Submit \/ SubmitFails \/ Scheduled \/ Preempt \/ EmptyStep \/ OtherScheduled
  BY <1>1 DEF Submit, SubmitFails, Scheduled, Preempt, EmptyStep, OtherScheduled, Stepping
<1>2. CASE Begin \/ FlushFails \/ EngineRaises \/ EndOther
  BY <1>2 DEF Begin, FlushFails, EngineRaises, EndOther, Fails
<1>3. CASE EndForward
  BY <1>3, ReturnedTyped DEF EndForward, Fails
<1>4. CASE OutOfBudget \/ Handle \/ AbortStep \/ Check \/ CleanedUp
  BY <1>4 DEF OutOfBudget, Handle, AbortStep, Check, CleanedUp
<1>5. ASSUME NEW l \in Layers, CallThrough(l) \/ CallReference(l)
      PROVE  /\ UNCHANGED wrapVars
             /\ pc' \in {pc, "failing", "finally", "leaving"}
  BY <1>5 DEF CallThrough, CallReference, Fails
<1>6. QED
  BY <1>1, <1>2, <1>3, <1>4, <1>5

LEMMA WrapStep ==
  TypeOK /\ ControlInv /\ WrapInv /\ OriginalsBack /\ [Next]_vars => WrapInv' /\ OriginalsBack'
<1> SUFFICES ASSUME TypeOK, ControlInv, WrapInv, OriginalsBack, [Next]_vars
             PROVE  WrapInv' /\ OriginalsBack'
  OBVIOUS
<1>1. ASSUME NEW l \in Layers, AttachLayer(l) PROVE WrapInv' /\ OriginalsBack'
  <2>1. at[l] = "orig" /\ capSaved[l] = "none"
    BY <1>1, Constants DEF AttachLayer, TypeOK, WrapInv, Wrappers
  <2>2. capSaved[Model] = "none" /\ \A s \in Slots : capSaved[s] = "none"
    BY <1>1, Constants DEF AttachLayer, WrapInv
  <2>3. WrapInv'
    BY <1>1, <2>1, <2>2, Constants DEF AttachLayer, TypeOK, WrapInv, Wrappers
  <2>4. QED
    BY <1>1, <2>3 DEF AttachLayer, OriginalsBack
<1>2. ASSUME NEW t \in Slots, CaptureSlot(t) PROVE WrapInv' /\ OriginalsBack'
  <2>1. /\ pc = "install" /\ capSaved[t] = "none" /\ at[t] # "cap"
        /\ HasReference => \A l \in Layers : attSaved[l] = "orig"
        /\ t = Prepare => Wrapped(Layers)
        /\ t = Model => Wrapped(Layers \cup {Prepare})
    BY <1>2, Constants DEF CaptureSlot, WrapInv, TypeOK
  <2>2. /\ at' = [at EXCEPT ![t] = "cap"]
        /\ capSaved' = [capSaved EXCEPT ![t] = at[t]]
        /\ attSaved' = attSaved
        /\ pc' = IF t = Model THEN "submit" ELSE "install"
    BY <1>2 DEF CaptureSlot
  <2>3. at[t] = IF attSaved[t] # "none" THEN "att" ELSE "orig"
    BY <2>1 DEF WrapInv, TypeOK, Wrappers
  <2>4. t = Model => \A s \in Slots : s # t => capSaved[s] # "none"
    BY <2>1 DEF Wrapped, Slots
  <2>5. \A s \in Slots : s # t => at'[s] = at[s] /\ capSaved'[s] = capSaved[s]
    BY <2>2 DEF TypeOK
  <2>6. at'[t] = "cap" /\ capSaved'[t] = at[t]
    BY <2>2 DEF TypeOK
  <2>7. WrapInv'
    BY <2>1, <2>2, <2>3, <2>4, <2>5, <2>6, Constants DEF WrapInv, TypeOK, HasReference
  <2>8. QED
    BY <2>2, <2>7 DEF OriginalsBack
<1>3. CASE InstallFails
  BY <1>3, RestoreClears DEF InstallFails, OriginalsBack
<1>4. CASE Finally
  <2>1. CASE HasReference
    <3>1. Restore /\ pc' \in {"leaving", "check"}
      BY <1>4, <2>1 DEF Finally
    <3>2. QED
      BY <3>1, RestoreClears DEF OriginalsBack
  <2>2. CASE ~HasReference
    <3>1. UNCHANGED wrapVars /\ pc' \in {"leaving", "check"}
      BY <1>4, <2>2 DEF Finally
    <3>2. QED
      BY <2>2, <3>1, WrapFrame DEF OriginalsBack, wrapVars, HasReference
  <2>3. QED
    BY <2>1, <2>2
<1>5. CASE Leave
  BY <1>5, RestoreClears DEF Leave, OriginalsBack
<1>6. ASSUME NEW l \in Layers, ReferenceRaises(l) PROVE WrapInv' /\ OriginalsBack'
  <2>1. /\ pc' \in {"failing", "finally", "leaving"}
        /\ at' = [s \in Slots |-> IF attSaved[s] # "none" THEN attSaved[s] ELSE at[s]]
        /\ UNCHANGED <<attSaved, capSaved>>
    BY <1>6 DEF ReferenceRaises, Fails
  <2>2. \A s \in Slots : at'[s] = "orig" \/ at'[s] = at[s]
    BY <2>1 DEF TypeOK
  <2>3. QED
    BY <2>1, <2>2 DEF WrapInv, OriginalsBack
<1>7. CASE UNCHANGED vars
  BY <1>7, WrapFrame DEF vars, wrapVars, OriginalsBack
<1>8. CASE \/ Submit \/ SubmitFails \/ Scheduled \/ Preempt \/ EmptyStep \/ OtherScheduled
           \/ Begin \/ EndForward \/ FlushFails \/ EndOther \/ EngineRaises
           \/ OutOfBudget \/ Handle \/ AbortStep \/ Check \/ CleanedUp
           \/ \E l \in Layers : CallThrough(l) \/ CallReference(l)
  BY <1>8, PcFrame, WrapFrame DEF OriginalsBack, wrapVars, HasReference
<1>9. QED
  BY <1>1, <1>2, <1>3, <1>4, <1>5, <1>6, <1>7, <1>8 DEF Next
-----------------------------------------------------------------------------
(* Where the driver is.                                                    *)

LEMMA ControlStep == TypeOK /\ WrapInv /\ ControlInv /\ [Next]_vars => ControlInv'
<1> SUFFICES ASSUME TypeOK, WrapInv, ControlInv, [Next]_vars PROVE ControlInv'
  OBVIOUS
<1> USE DEF wrapVars, capVars, refVars, engVars, batchVars
<1>1. CASE \/ \E l \in Layers : AttachLayer(l)
           \/ \E t \in Slots : CaptureSlot(t)
           \/ InstallFails \/ Submit \/ SubmitFails
  BY <1>1 DEF AttachLayer, CaptureSlot, InstallFails, Submit, SubmitFails, Disarm, ControlInv
<1>2. CASE Scheduled \/ Preempt \/ EmptyStep \/ OtherScheduled
  <2>1. CASE Scheduled
    BY <1>2, <2>1 DEF Scheduled, Stepping, Seen, ControlInv
  <2>2. CASE Preempt \/ EmptyStep \/ OtherScheduled
    BY <1>2, <2>2 DEF Preempt, EmptyStep, OtherScheduled, Stepping, Seen, ControlInv
  <2>3. QED
    BY <1>2, <2>1, <2>2
<1>3. CASE Begin
  <2>1. /\ Len(Append(records, {})) = requestStep + 1
        /\ fw = "prepared" /\ pc \in {"drive", "aborting", "cleanup"} /\ ~stepOpen
    BY <1>3, AppendFacts DEF Begin, ControlInv, TypeOK
  <2>2. CASE ~armed \/ at[Model] # "cap"
    BY <1>3, <2>1, <2>2 DEF Begin, ControlInv
  <2>3. CASE armed /\ at[Model] = "cap" /\ HasReference /\ ~BeginAccepted(requestStep + 1)
    BY <1>3, <2>1, <2>3 DEF Begin, Fails, ControlInv
  <2>4. CASE armed /\ at[Model] = "cap" /\ ~(HasReference /\ ~BeginAccepted(requestStep + 1))
    BY <1>3, <2>1, <2>4 DEF Begin, ControlInv
  <2>5. QED
    BY <2>2, <2>3, <2>4
<1>4. ASSUME NEW l \in Layers, CallThrough(l) PROVE ControlInv'
  <2>1. Len(records') = Len(records)
    BY <1>4, ObserveTyped DEF CallThrough
  <2>2. CASE Refused(l)
    BY <1>4, <2>1, <2>2 DEF CallThrough, Turn, Fails, ControlInv
  <2>3. CASE ~Refused(l)
    BY <1>4, <2>1, <2>3 DEF CallThrough, Turn, ControlInv
  <2>4. QED
    BY <2>2, <2>3
<1>5. ASSUME NEW l \in Layers, CallReference(l) PROVE ControlInv'
  <2>1. Len(records') = Len(records)
    BY <1>5, ObserveTyped DEF CallReference
  <2>2. QED
    BY <1>5, <2>1 DEF CallReference, Turn, ControlInv
<1>6. ASSUME NEW l \in Layers, ReferenceRaises(l) PROVE ControlInv'
  <2>1. fw = "running"
    BY <1>6 DEF ReferenceRaises, Turn
  <2>2. QED
    BY <1>6, <2>1 DEF ReferenceRaises, Fails, ControlInv
<1>7. CASE EngineRaises \/ FlushFails \/ EndOther
  BY <1>7 DEF EngineRaises, FlushFails, EndOther, Fails, ControlInv
<1>8. CASE EndForward
  BY <1>8 DEF EndForward, Returned, Fails, ControlInv
<1>9. CASE OutOfBudget \/ Handle \/ AbortStep \/ Finally \/ Check \/ CleanedUp \/ Leave
  BY <1>9 DEF OutOfBudget, Handle, AbortStep, Finally, Check, CleanedUp, Leave, Disarm, ControlInv
<1>10. CASE UNCHANGED vars
  BY <1>10 DEF vars, ControlInv
<1>11. QED
  BY <1>1, <1>2, <1>3, <1>4, <1>5, <1>6, <1>7, <1>8, <1>9, <1>10 DEF Next

-----------------------------------------------------------------------------
(* The reference arm while it drives the main request.                     *)

\* An action that leaves the driving phase, or changes nothing the phase is about.
LEMMA DriveFrame ==
  ASSUME DriveInv,
         \/ pc' # "drive"
         \/ /\ pc' = pc
            /\ UNCHANGED <<armed, enabled, reqId, at, capSaved, completed, snaps, fresh, fw, batch,
                           real, requestStep, stepOpen, curReq, curStep>>
  PROVE  DriveInv'
  BY DEF DriveInv, HasReference

LEMMA SeenDrive ==
  ASSUME DriveInv, NEW b, Seen(b), fw = "idle", pc' = pc,
         UNCHANGED <<armed, enabled, reqId, at, capSaved, completed, snaps, requestStep,
                     stepOpen, curReq, curStep>>
  PROVE  DriveInv'
  BY DEF DriveInv, Seen, HasReference

LEMMA DriveStep ==
  TypeOK /\ WrapInv /\ ControlInv /\ DriveInv /\ [Next]_vars => DriveInv'
<1> SUFFICES ASSUME TypeOK, WrapInv, ControlInv, DriveInv, [Next]_vars, HasReference
             PROVE  DriveInv'
  BY DEF DriveInv, HasReference
<1> USE DEF wrapVars, capVars, refVars, engVars, batchVars
<1>1. CASE \/ \E l \in Layers : AttachLayer(l)
           \/ \E t \in Slots : CaptureSlot(t)
           \/ InstallFails \/ SubmitFails
  <2>1. pc' # "drive"
    BY <1>1 DEF AttachLayer, CaptureSlot, InstallFails, SubmitFails
  <2>2. QED
    BY <2>1, DriveFrame
<1>2. CASE Submit
  <2>1. /\ pc = "submit" /\ armed' /\ enabled' /\ reqId' = Main
        /\ UNCHANGED <<at, attSaved, capSaved, completed, snaps, fresh, fw, requestStep>>
    BY <1>2 DEF Submit
  <2>2. \A s \in Slots : capSaved[s] # "none" /\ at[s] = "cap"
    BY <2>1 DEF WrapInv
  <2>3. \A l \in Layers : capSaved[l] = "att"
    BY <2>1, <2>2, Constants DEF WrapInv
  <2>4. /\ fw = "idle" /\ ~fresh /\ requestStep = 0 /\ completed = 0 /\ Len(snaps) = 0
    BY <2>1 DEF ControlInv
  <2>5. QED
    BY <2>1, <2>2, <2>3, <2>4, Constants DEF DriveInv
<1>3. CASE Scheduled
  <2>1. /\ fw = "idle" /\ pc' = pc /\ pc = "drive"
        /\ UNCHANGED <<armed, enabled, reqId, at, capSaved, completed, snaps, requestStep,
                       stepOpen, curReq, curStep>>
    BY <1>3 DEF Scheduled, Stepping
  <2>2. ASSUME NEW b, Seen(b) PROVE DriveInv'
    BY <2>1, <2>2, SeenDrive
  <2>3. CASE fw' = "prepared" /\ UNCHANGED <<batch, fresh>>
    BY <2>1, <2>3 DEF DriveInv
  <2>4. QED
    BY <1>3, <2>2, <2>3 DEF Scheduled
<1>4. CASE OtherScheduled
  BY <1>4, DriveFrame DEF OtherScheduled, DriveInv
<1>5. CASE Preempt \/ EmptyStep
  BY <1>5, DriveFrame DEF Preempt, EmptyStep
<1>6. CASE Begin
  <2>1. CASE pc # "drive"
    BY <1>6, <2>1, DriveFrame DEF Begin, Fails
  <2>2. CASE pc = "drive"
    <3>1. /\ fw = "prepared" /\ armed /\ at[Model] = "cap" /\ requestStep = completed
          /\ Len(snaps) = requestStep /\ (fresh => batch = real)
      BY <1>6, <2>2 DEF Begin, DriveInv
    <3>2. CASE ~BeginAccepted(requestStep + 1)
      BY <1>6, <2>2, <3>1, <3>2, DriveFrame DEF Begin, Fails
    <3>3. CASE BeginAccepted(requestStep + 1)
      <4>1. /\ batch = real /\ batch.reqs = {Main} /\ requestStep + 1 <= Total
        BY <3>1, <3>3 DEF BeginAccepted
      <4>2. Len(Append(snaps, {})) = Len(snaps) + 1
        BY AppendFacts DEF TypeOK
      <4>3. requestStep + 1 - 1 = completed
        BY <3>1, NatFacts
      <4>4. QED
        BY <1>6, <2>2, <3>1, <3>3, <4>1, <4>2, <4>3 DEF Begin, DriveInv
    <3>4. QED
      BY <3>2, <3>3
  <2>3. QED
    BY <2>1, <2>2
<1>7. ASSUME NEW l \in Layers, CallThrough(l) PROVE DriveInv'
  BY <1>7, DriveFrame DEF CallThrough, Fails
<1>8. ASSUME NEW l \in Layers, CallReference(l) PROVE DriveInv'
  <2>1. Len(snaps') = Len(snaps)
    <3>1. snaps \in Seq(SUBSET Layers)
      BY DEF TypeOK
    <3>2. QED
      BY <1>8, <3>1, AddFacts DEF CallReference
  <2>2. QED
    BY <1>8, <2>1 DEF CallReference, DriveInv
<1>9. ASSUME NEW l \in Layers, ReferenceRaises(l) PROVE DriveInv'
  BY <1>9, DriveFrame DEF ReferenceRaises, Fails
<1>10. CASE EngineRaises \/ FlushFails \/ EndOther
  BY <1>10, DriveFrame DEF EngineRaises, FlushFails, EndOther, Fails
<1>11. CASE EndForward
  <2>1. /\ pc = "drive" /\ fw = "running" /\ stepOpen /\ requestStep = completed + 1
        /\ requestStep <= Total /\ Len(snaps) = requestStep /\ ~fresh
    BY <1>11 DEF EndForward, DriveInv
  <2>2. CASE ~EndAccepted(requestStep)
    BY <1>11, <2>1, <2>2, DriveFrame DEF EndForward, Fails
  <2>3. CASE EndAccepted(requestStep)
    BY <1>11, <2>1, <2>3 DEF EndForward, DriveInv
  <2>4. QED
    BY <2>2, <2>3
<1>12. CASE OutOfBudget \/ Handle \/ AbortStep \/ Finally \/ Check \/ CleanedUp \/ Leave
  BY <1>12, DriveFrame DEF OutOfBudget, Handle, AbortStep, Finally, Check, CleanedUp, Leave
<1>13. CASE UNCHANGED vars
  BY <1>13, DriveFrame DEF vars
<1>14. QED
  BY <1>1, <1>2, <1>3, <1>4, <1>5, <1>6, <1>7, <1>8, <1>9, <1>10, <1>11, <1>12, <1>13 DEF Next
-----------------------------------------------------------------------------
(* What was computed, and what the ledger says of it.                      *)

\* An action that touches neither, and does not accept a run.
LEMMA LogFrame ==
  ASSUME LogInv, UNCHANGED <<truth, ledger>>,
         \/ verdict' \notin {"none", "accepted"}
         \/ verdict' = verdict /\ verdict # "accepted"
         \/ verdict' = verdict /\ UNCHANGED <<snaps, completed, reqId>>
  PROVE  LogInv'
<1>1. ASSUME NEW i, RowIsTrue(i) PROVE RowIsTrue(i)'
  BY <1>1 DEF RowIsTrue
<1>2. ASSUME UNCHANGED <<snaps, completed, reqId>>, Validate PROVE Validate'
  <2>1. ASSUME NEW k \in 1..Total PROVE StepCovered(k)'
    <3>1. StepCovered(k)
      BY <1>2 DEF Validate
    <3>2. LedgerRows(k)' = LedgerRows(k)
      BY DEF LedgerRows
    <3>3. QED
      BY <1>2, <3>1, <3>2 DEF StepCovered
  <2>2. QED
    BY <1>2, <2>1 DEF Validate
<1>3. CASE ~HasReference
  BY <1>3 DEF LogInv, HasReference
<1>4. CASE HasReference
  <2>1. CASE verdict' \notin {"none", "accepted"}
    BY <2>1 DEF LogInv
  <2>2. CASE verdict' = verdict /\ verdict \in {"none", "accepted"}
    <3>1. Len(truth') = Len(ledger') /\ \A i \in DOMAIN ledger : RowIsTrue(i)
      BY <1>4, <2>2 DEF LogInv
    <3>2. \A i \in DOMAIN ledger' : RowIsTrue(i)'
      BY <1>1, <3>1
    <3>3. verdict' = "accepted" => Validate'
      BY <1>2, <1>4, <2>2 DEF LogInv
    <3>4. QED
      BY <3>1, <3>2, <3>3 DEF LogInv
  <2>3. QED
    BY <2>1, <2>2
<1>5. QED
  BY <1>3, <1>4

LEMMA DenseFrame ==
  ASSUME DenseOnlyForTarget, UNCHANGED truth
  PROVE  DenseOnlyForTarget'
  BY DEF DenseOnlyForTarget

\* Every action but the calls of layers and the verdict.
LEMMA QuietFrame ==
  ASSUME TypeOK, ControlInv,
         \/ \E l \in Layers : AttachLayer(l)
         \/ \E t \in Slots : CaptureSlot(t)
         \/ InstallFails \/ Submit \/ SubmitFails
         \/ Scheduled \/ Preempt \/ EmptyStep \/ OtherScheduled
         \/ Begin \/ EndForward \/ FlushFails \/ EndOther \/ EngineRaises
         \/ OutOfBudget \/ Handle \/ AbortStep \/ Finally \/ CleanedUp \/ Leave
         \/ UNCHANGED vars
  PROVE  /\ UNCHANGED <<truth, ledger>>
         /\ \/ verdict' \notin {"none", "accepted"}
            \/ verdict' = verdict /\ verdict # "accepted"
            \/ verdict' = verdict /\ UNCHANGED <<snaps, completed, reqId>>
<1> USE DEF wrapVars, capVars, refVars, engVars, batchVars
<1>1. CASE \/ \E l \in Layers : AttachLayer(l)
           \/ \E t \in Slots : CaptureSlot(t)
           \/ InstallFails \/ Submit \/ SubmitFails
  BY <1>1 DEF AttachLayer, CaptureSlot, InstallFails, Submit, SubmitFails, ControlInv
<1>2. CASE Scheduled \/ Preempt \/ EmptyStep \/ OtherScheduled
  BY <1>2 DEF Scheduled, Preempt, EmptyStep, OtherScheduled
<1>3. CASE Begin \/ EndForward
  BY <1>3, ReturnedTyped DEF Begin, EndForward, Fails, ControlInv
<1>4. CASE FlushFails \/ EndOther \/ EngineRaises
  BY <1>4 DEF FlushFails, EndOther, EngineRaises, Fails, ControlInv
<1>5. CASE OutOfBudget \/ Handle \/ AbortStep \/ Finally \/ CleanedUp \/ Leave
  BY <1>5 DEF OutOfBudget, Handle, AbortStep, Finally, CleanedUp, Leave
<1>6. CASE UNCHANGED vars
  BY <1>6 DEF vars
<1>7. QED
  BY <1>1, <1>2, <1>3, <1>4, <1>5, <1>6

\* The one action that adds a row: the row is true.
LEMMA ReferenceRow ==
  ASSUME TypeOK, ControlInv, DriveInv, LogInv, DenseOnlyForTarget,
         NEW l \in Layers, CallReference(l)
  PROVE  LogInv' /\ DenseOnlyForTarget'
<1> DEFINE dense == curStep \in 1..(Total - 1)
           row == Row(l, IF dense THEN "overrode" ELSE "passthrough")
           comp == [layer |-> l, reqs |-> real.reqs, start |-> real.start, len |-> real.len,
                    by |-> IF dense THEN "dense" ELSE "original"]
<1>1. /\ enabled /\ pc = "drive" /\ HasReference /\ verdict = "none" /\ fw = "running"
  BY DEF CallReference, Targeted, Turn, ControlInv
<1>2. /\ requestStep = completed + 1 /\ requestStep <= Total /\ curStep = completed
      /\ curReq = Main /\ real.reqs = {Main}
      /\ real.start = StartOf(requestStep) /\ real.len = LenOf(requestStep)
  BY <1>1 DEF DriveInv, CallReference, LayerAccepted
<1>3. /\ curStep \in Nat /\ requestStep = curStep + 1 /\ curStep \in 0..(Total - 1)
      /\ dense <=> requestStep # 1
  BY <1>2, NatFacts, Constants
<1>4. /\ ledger' = Append(ledger, row) /\ truth' = Append(truth, comp) /\ verdict' = verdict
  BY <1>1 DEF CallReference, Computed, Overrides
<1>5. /\ ledger \in Seq(Rows) /\ truth \in Seq(Computations) /\ Len(truth) = Len(ledger)
      /\ row \in Rows /\ comp \in Computations
  <2>1. row \in Rows
    <3>1. CASE dense
      BY <3>1, RowTyped
    <3>2. CASE ~dense
      BY <3>2, RowTyped
    <3>3. QED
      BY <3>1, <3>2
  <2>2. comp \in Computations
    BY NatFacts, <1>2 DEF TypeOK, Computations, Batches, Requests
  <2>3. QED
    BY <1>1, <2>1, <2>2 DEF TypeOK, LogInv
<1>6. /\ Len(ledger') = Len(ledger) + 1 /\ Len(truth') = Len(ledger) + 1
      /\ \A i \in 1..Len(ledger) : ledger'[i] = ledger[i] /\ truth'[i] = truth[i]
      /\ ledger'[Len(ledger) + 1] = row /\ truth'[Len(ledger) + 1] = comp
  <2>1. /\ Len(Append(ledger, row)) = Len(ledger) + 1
        /\ \A i \in 1..Len(ledger) : Append(ledger, row)[i] = ledger[i]
        /\ Append(ledger, row)[Len(ledger) + 1] = row
    BY <1>5, AppendFacts
  <2>2. /\ Len(Append(truth, comp)) = Len(truth) + 1
        /\ \A i \in 1..Len(truth) : Append(truth, comp)[i] = truth[i]
        /\ Append(truth, comp)[Len(truth) + 1] = comp
    BY <1>5, AppendFacts
  <2>3. QED
    BY <1>4, <1>5, <2>1, <2>2
<1>7. DOMAIN ledger' = 1..(Len(ledger) + 1) /\ DOMAIN truth' = 1..(Len(ledger) + 1)
      /\ DOMAIN ledger = 1..Len(ledger) /\ DOMAIN truth = 1..Len(ledger) /\ Len(ledger) \in Nat
  <2>1. ledger' \in Seq(Rows) /\ truth' \in Seq(Computations)
    BY <1>4, <1>5, AppendFacts
  <2>2. QED
    BY <1>5, <1>6, <2>1
<1>8. /\ comp = [layer |-> l, reqs |-> {Main}, start |-> StartOf(requestStep),
                 len |-> LenOf(requestStep),
                 by |-> IF requestStep = 1 THEN "original" ELSE "dense"]
      /\ row = [layer |-> l, step |-> curStep, req |-> Main,
                action |-> IF requestStep = 1 THEN "passthrough" ELSE "overrode"]
  BY <1>2, <1>3 DEF Row
<1>9. \A i \in DOMAIN ledger' : RowIsTrue(i)'
  <2> SUFFICES ASSUME NEW i \in 1..(Len(ledger) + 1) PROVE RowIsTrue(i)'
    BY <1>7
  <2>1. CASE i \in 1..Len(ledger)
    <3>1. RowIsTrue(i)
      BY <1>1, <1>7, <2>1 DEF LogInv
    <3>2. QED
      BY <1>6, <2>1, <3>1 DEF RowIsTrue
  <2>2. CASE i = Len(ledger) + 1
    <3>1. ledger'[i] = row /\ truth'[i] = comp
      BY <1>6, <2>2
    <3>2. ledger'[i].layer = l /\ ledger'[i].step = curStep
      BY <1>8, <3>1
    <3>3. curStep \in 0..(Total - 1) /\ requestStep = curStep + 1
      BY <1>3, Constants
    <3>4. QED
      BY <1>8, <3>1, <3>2, <3>3 DEF RowIsTrue
  <2>3. QED
    BY <1>7, <2>1, <2>2
<1>10. LogInv'
  BY <1>1, <1>4, <1>6, <1>9 DEF LogInv
<1>11. DenseOnlyForTarget'
  <2>1. ASSUME NEW i \in 1..Len(ledger), truth'[i].by = "dense"
        PROVE  /\ truth'[i].reqs = {Main} /\ truth'[i].start >= PromptLen /\ truth'[i].len = 1
    BY <1>6, <1>7, <2>1 DEF DenseOnlyForTarget
  <2>2. ASSUME comp.by = "dense"
        PROVE  /\ comp.reqs = {Main} /\ comp.start >= PromptLen /\ comp.len = 1
    <3>1. requestStep # 1 /\ requestStep >= 2
      BY <1>2, <1>3, <1>8, <2>2
    <3>2. StartOf(requestStep) >= PromptLen /\ LenOf(requestStep) = 1
      BY <3>1, <1>3, Constants DEF StartOf, LenOf
    <3>3. QED
      BY <1>8, <3>2
  <2>3. QED
    BY <1>6, <1>7, <2>1, <2>2 DEF DenseOnlyForTarget
<1>12. QED
  BY <1>10, <1>11

LEMMA LogStep ==
  TypeOK /\ ControlInv /\ DriveInv /\ OriginalsBack /\ LogInv /\ DenseOnlyForTarget /\ [Next]_vars
    => LogInv' /\ DenseOnlyForTarget'
<1> SUFFICES ASSUME TypeOK, ControlInv, DriveInv, OriginalsBack, LogInv, DenseOnlyForTarget,
                    [Next]_vars
             PROVE  LogInv' /\ DenseOnlyForTarget'
  OBVIOUS
<1> USE DEF wrapVars, capVars, refVars, engVars, batchVars
<1>1. ASSUME NEW l \in Layers, CallThrough(l) PROVE LogInv' /\ DenseOnlyForTarget'
  <2>1. fw = "running" /\ pc \in {"drive", "aborting", "cleanup"}
    BY <1>1 DEF CallThrough, Turn, ControlInv
  <2>2. DenseOnlyForTarget'
    <3>1. CASE pc = "drive"
      <4>1. /\ truth' = Append(truth, [layer |-> l, reqs |-> real.reqs, start |-> real.start,
                                       len |-> real.len, by |-> "original"])
            /\ truth \in Seq(Computations)
            /\ [layer |-> l, reqs |-> real.reqs, start |-> real.start,
                len |-> real.len, by |-> "original"] \in Computations
        BY <1>1, <3>1 DEF CallThrough, Computed, TypeOK, Batches, Computations
      <4> DEFINE comp == [layer |-> l, reqs |-> real.reqs, start |-> real.start,
                          len |-> real.len, by |-> "original"]
      <4>2. /\ DOMAIN Append(truth, comp) = 1..(Len(truth) + 1) /\ DOMAIN truth = 1..Len(truth)
            /\ \A i \in 1..Len(truth) : Append(truth, comp)[i] = truth[i]
            /\ Append(truth, comp)[Len(truth) + 1] = comp /\ Len(truth) \in Nat
        BY <4>1, AppendFacts
      <4>3. \A i \in 1..(Len(truth) + 1) : i \in 1..Len(truth) \/ i = Len(truth) + 1
        BY <4>2
      <4>4. comp.by # "dense"
        OBVIOUS
      <4>5. QED
        BY <4>1, <4>2, <4>3, <4>4 DEF DenseOnlyForTarget
    <3>2. CASE pc # "drive"
      BY <1>1, <3>2, DenseFrame DEF CallThrough, Computed
    <3>3. QED
      BY <3>1, <3>2
  <2>3. LogInv'
    <3>1. CASE ~HasReference
      BY <3>1 DEF LogInv, HasReference
    <3>2. CASE HasReference /\ pc = "drive"
      BY <1>1, <2>1, <3>2 DEF CallThrough, DriveInv, Intercepts, Targeted
    <3>3. CASE HasReference /\ pc = "aborting"
      <4>1. verdict = "raised" /\ verdict' = verdict
        BY <1>1, <3>3 DEF ControlInv, CallThrough, Fails
      <4>2. QED
        BY <4>1 DEF LogInv
    <3>4. CASE HasReference /\ pc = "cleanup"
      <4>1. at[l] = "orig"
        BY <3>4, Constants DEF OriginalsBack
      <4>2. ~Intercepts(l) /\ ~Observes(l) /\ ~Refused(l)
        BY <4>1 DEF Intercepts, Observes, Refused
      <4>3. UNCHANGED <<truth, ledger, snaps, completed, reqId, verdict>>
        BY <1>1, <3>4, <4>2 DEF CallThrough, Computed
      <4>4. QED
        BY <4>3, LogFrame
    <3>5. QED
      BY <2>1, <3>1, <3>2, <3>3, <3>4
  <2>4. QED
    BY <2>2, <2>3
<1>2. ASSUME NEW l \in Layers, CallReference(l) PROVE LogInv' /\ DenseOnlyForTarget'
  BY <1>2, ReferenceRow
<1>3. ASSUME NEW l \in Layers, ReferenceRaises(l) PROVE LogInv' /\ DenseOnlyForTarget'
  <2>1. pc = "drive" /\ verdict' = "raised" /\ truth' = truth
    BY <1>3 DEF ReferenceRaises, Targeted, Turn, Fails, ControlInv
  <2>2. QED
    BY <2>1, DenseFrame DEF LogInv
<1>4. CASE Check
  <2>1. /\ pc = "check" /\ verdict = "none" /\ verdict' \in {"accepted", "rejected"}
        /\ verdict' = "accepted" => (HasReference => Validate)
        /\ UNCHANGED <<truth, ledger, snaps, completed, reqId>>
    BY <1>4 DEF Check, ControlInv, ChecksPass
  <2>2. LogInv'
    BY <2>1 DEF LogInv, RowIsTrue, Validate, StepCovered, LedgerRows, HasReference
  <2>3. QED
    BY <2>1, <2>2, DenseFrame
<1>5. CASE \/ \E l \in Layers : AttachLayer(l)
           \/ \E t \in Slots : CaptureSlot(t)
           \/ InstallFails \/ Submit \/ SubmitFails
           \/ Scheduled \/ Preempt \/ EmptyStep \/ OtherScheduled
           \/ Begin \/ EndForward \/ FlushFails \/ EndOther \/ EngineRaises
           \/ OutOfBudget \/ Handle \/ AbortStep \/ Finally \/ CleanedUp \/ Leave
           \/ UNCHANGED vars
  BY <1>5, QuietFrame, LogFrame, DenseFrame
<1>6. QED
  BY <1>1, <1>2, <1>3, <1>4, <1>5 DEF Next

\* A validated ledger of true rows leaves nothing out and adds nothing.
LEMMA CoveredByLedger == TypeOK /\ LogInv => AcceptedIsCovered
<1> SUFFICES ASSUME TypeOK, LogInv, verdict = "accepted", HasReference
             PROVE  /\ Len(truth) = Total * Cardinality(Layers)
                    /\ {truth[i] : i \in DOMAIN truth} =
                         {[layer |-> l, reqs |-> {Main}, start |-> StartOf(k), len |-> LenOf(k),
                           by |-> IF k = 1 THEN "original" ELSE "dense"] : l \in Layers, k \in 1..Total}
  BY DEF AcceptedIsCovered
<1> DEFINE Comp(l, k) == [layer |-> l, reqs |-> {Main}, start |-> StartOf(k), len |-> LenOf(k),
                          by |-> IF k = 1 THEN "original" ELSE "dense"]
<1>1. /\ Len(truth) = Len(ledger) /\ Validate
      /\ \A i \in DOMAIN ledger : RowIsTrue(i)
  BY DEF LogInv
<1>2. DOMAIN truth = DOMAIN ledger
  <2>1. ledger \in Seq(Rows) /\ truth \in Seq(Computations)
    BY DEF TypeOK
  <2>2. QED
    BY <1>1, <2>1
<1>3. ASSUME NEW i \in DOMAIN truth
      PROVE  \E l \in Layers, k \in 1..Total : truth[i] = Comp(l, k)
  <2>1. RowIsTrue(i)
    BY <1>1, <1>2
  <2>2. ledger[i].step + 1 \in 1..Total /\ ledger[i].layer \in Layers
    BY <2>1, Constants DEF RowIsTrue
  <2>3. truth[i] = Comp(ledger[i].layer, ledger[i].step + 1)
    BY <2>1 DEF RowIsTrue
  <2>4. QED
    BY <2>2, <2>3
<1>4. ASSUME NEW l \in Layers, NEW k \in 1..Total
      PROVE  \E i \in DOMAIN truth : truth[i] = Comp(l, k)
  <2> DEFINE row == [layer |-> l, step |-> k - 1, req |-> reqId,
                     action |-> IF k = 1 THEN "passthrough" ELSE "overrode"]
  <2>1. row \in {ledger[i] : i \in LedgerRows(k)}
    BY <1>1 DEF Validate, StepCovered
  <2>2. PICK i \in LedgerRows(k) : ledger[i] = row
    BY <2>1
  <2>3. i \in DOMAIN ledger /\ ledger[i].layer = l /\ ledger[i].step = k - 1
    BY <2>2 DEF LedgerRows
  <2>4. RowIsTrue(i) /\ ledger[i].step + 1 = k
    BY <1>1, <2>3
  <2>5. truth[i] = Comp(l, k)
    BY <2>3, <2>4 DEF RowIsTrue
  <2>6. QED
    BY <1>2, <2>3, <2>5
<1>5. Len(truth) = Total * Cardinality(Layers)
  BY <1>1 DEF Validate
<1>6. {truth[i] : i \in DOMAIN truth} = {Comp(l, k) : l \in Layers, k \in 1..Total}
  <2> HIDE DEF Comp
  <2>1. ASSUME NEW x \in {truth[i] : i \in DOMAIN truth}
        PROVE  x \in {Comp(l, k) : l \in Layers, k \in 1..Total}
    BY <1>3, <2>1
  <2>2. ASSUME NEW x \in {Comp(l, k) : l \in Layers, k \in 1..Total}
        PROVE  x \in {truth[i] : i \in DOMAIN truth}
    <3>1. PICK l \in Layers, k \in 1..Total : x = Comp(l, k)
      BY <2>2
    <3>2. QED
      BY <1>4, <3>1
  <2>3. QED
    BY <2>1, <2>2
<1>7. QED
  BY <1>5, <1>6

-----------------------------------------------------------------------------
(* The theorems.                                                           *)

LEMMA InitRun == Init => RunInv
<1> SUFFICES ASSUME Init PROVE RunInv
  OBVIOUS
<1>1. WrapInv /\ ControlInv
  BY Constants DEF Init, WrapInv, ControlInv
<1>2. DriveInv /\ OriginalsBack
  BY DEF Init, DriveInv, OriginalsBack
<1>3. LogInv /\ DenseOnlyForTarget
  BY DEF Init, LogInv, DenseOnlyForTarget
<1>4. QED
  BY <1>1, <1>2, <1>3 DEF RunInv

LEMMA RunStep == TypeOK /\ RunInv /\ [Next]_vars => TypeOK' /\ RunInv'
  BY TypeStep, WrapStep, ControlStep, DriveStep, LogStep DEF RunInv

\* The state of the run keeps its types, and its inductive invariant holds.
THEOREM RunInvariant == Spec => [](TypeOK /\ RunInv)
<1>1. Init => TypeOK /\ RunInv
  BY InitType, InitRun
<1>2. (TypeOK /\ RunInv) /\ [Next]_vars => (TypeOK /\ RunInv)'
  BY RunStep
<1>3. QED
  BY <1>1, <1>2, PTL DEF Spec

\* Every variable of a run keeps its type.
THEOREM RunTypeCorrect == Spec => []TypeOK
  BY RunInvariant, PTL

\* Every attribute that was wrapped holds its original when the run is over,
\* whichever step of it failed, and in the reference arm before it is judged.
THEOREM OriginalsComeBack == Spec => []OriginalsBack
<1>1. RunInv => OriginalsBack
  BY DEF RunInv
<1>2. QED
  BY <1>1, RunInvariant, PTL

\* The dense reference computes only decode tokens of the request of the run.
THEOREM DenseIsForTarget == Spec => []DenseOnlyForTarget
<1>1. RunInv => DenseOnlyForTarget
  BY DEF RunInv
<1>2. QED
  BY <1>1, RunInvariant, PTL

\* An accepted run of the reference arm was computed once per forward and
\* layer, at the right positions and by the right implementation.
THEOREM AcceptedRunIsCovered == Spec => []AcceptedIsCovered
<1>1. TypeOK /\ RunInv => AcceptedIsCovered
  BY CoveredByLedger DEF RunInv
<1>2. QED
  BY <1>1, RunInvariant, PTL

\* An open step is inside a forward, and all counters name it the same.
THEOREM CountersAlwaysAgree == Spec => []CountersAgree
<1>1. TypeOK /\ RunInv => CountersAgree
  <2> SUFFICES ASSUME TypeOK, RunInv, stepOpen PROVE CountersAgree
    BY DEF CountersAgree
  <2>1. fw = "running" /\ armed /\ pc = "drive" /\ Len(records) = requestStep
    BY DEF RunInv, ControlInv
  <2>2. QED
    BY <2>1 DEF RunInv, DriveInv, CountersAgree
<1>2. QED
  BY <1>1, RunInvariant, PTL
=============================================================================
