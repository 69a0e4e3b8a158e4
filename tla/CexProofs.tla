------------------------------- MODULE CexProofs -------------------------------
(***************************************************************************)
(* Proofs about Cex, for every width of the counts and every program.      *)
(***************************************************************************)
EXTENDS Cex, SequenceTheorems, TLAPS

USE CexAssumption

Cxs == [true_count : Counts, false_count : Counts]

(* The sixteen conditions are truth values.                                *)
LEMMA HoldsTrueOrFalse == \A code \in Codes : Holds(code) \in BOOLEAN
<1>. USE DEF Condition
<1>1. /\ Condition[1] \in BOOLEAN /\ Condition[2] \in BOOLEAN
      /\ Condition[3] \in BOOLEAN /\ Condition[4] \in BOOLEAN
  BY SMT
<1>2. /\ Condition[5] \in BOOLEAN /\ Condition[6] \in BOOLEAN
      /\ Condition[7] \in BOOLEAN /\ Condition[8] \in BOOLEAN
  BY SMT
<1>3. /\ Condition[9] \in BOOLEAN /\ Condition[10] \in BOOLEAN
      /\ Condition[11] \in BOOLEAN /\ Condition[12] \in BOOLEAN
  BY SMT
<1>4. /\ Condition[13] \in BOOLEAN /\ Condition[14] \in BOOLEAN
      /\ Condition[15] \in BOOLEAN /\ Condition[16] \in BOOLEAN
  BY SMT
<1>. HIDE DEF Condition
<1>5. ASSUME NEW n \in 1 .. 16 PROVE Condition[n] \in BOOLEAN
  <2>1. \/ n = 1 \/ n = 2 \/ n = 3 \/ n = 4 \/ n = 5 \/ n = 6 \/ n = 7 \/ n = 8
        \/ n = 9 \/ n = 10 \/ n = 11 \/ n = 12 \/ n = 13 \/ n = 14 \/ n = 15 \/ n = 16
    OBVIOUS
  <2>. QED
    BY <1>1, <1>2, <1>3, <1>4, <2>1
<1>. QED
  BY <1>5 DEF Holds

LEMMA RestOfPlan ==
    ASSUME plan \in Seq(BOOLEAN)
    PROVE  /\ Rest \in Seq(BOOLEAN)
           /\ Len(plan) \in Nat /\ (plan = <<>> <=> Len(plan) = 0)
           /\ Len(Rest) = IF Len(plan) = 0 THEN 0 ELSE Len(plan) - 1
           /\ \A k \in 1 .. Len(Rest) : Rest[k] = plan[k + 1]
<1>1. Len(plan) \in Nat /\ (plan = <<>> <=> Len(plan) = 0)
  BY EmptySeq, LenProperties
<1>2. CASE plan = <<>>
  <2>1. Rest = <<>> /\ Len(Rest) = 0 /\ Rest \in Seq(BOOLEAN)
    BY <1>2, EmptySeq DEF Rest
  <2>. QED
    BY <1>1, <1>2, <2>1
<1>3. CASE plan # <<>>
  <2>1. Rest = Tail(plan)
    BY <1>3 DEF Rest
  <2>2. /\ Tail(plan) \in Seq(BOOLEAN) /\ Len(Tail(plan)) = Len(plan) - 1
        /\ \A k \in 1 .. Len(Tail(plan)) : Tail(plan)[k] = plan[k + 1]
    BY <1>3, HeadTailProperties
  <2>. QED
    BY <1>1, <1>3, <2>1, <2>2
<1>. QED
  BY <1>2, <1>3

LEMMA PassedCounts ==
    ASSUME cex \in Cxs
    PROVE  Passed \in Cxs
  BY DEF Passed, Cxs, Counts
-----------------------------------------------------------------------------
(* Types.                                                                  *)

LEMMA PartedTyped ==
    ASSUME NEW t \in Counts, NEW f \in Counts, NEW holds \in BOOLEAN
    PROVE  /\ Parted(t, f, holds) \in Seq(BOOLEAN)
           /\ Len(Parted(t, f, holds)) = t + f
           /\ \A k \in 1 .. t + f : Parted(t, f, holds)[k] = ((k <= t) = holds)
<1>1. t + f \in Nat
  BY DEF Counts
<1>2. Parted(t, f, holds) \in [1 .. t + f -> BOOLEAN]
  <2>1. \A k \in 1 .. t + f : ((k <= t) = holds) \in BOOLEAN
    BY SMT
  <2>. QED
    BY <2>1, Zenon DEF Parted
<1>3. Parted(t, f, holds) \in Seq(BOOLEAN)
  BY <1>1, <1>2, SeqDef
<1>4. Len(Parted(t, f, holds)) = t + f
  BY <1>1, <1>2, <1>3, LenProperties
<1>. QED
  BY <1>3, <1>4 DEF Parted

LEMMA TypeInvariant == TypeOK /\ [Next]_vars => TypeOK'
<1>. SUFFICES ASSUME TypeOK, [Next]_vars
              PROVE  TypeOK'
  OBVIOUS
<1>0. cex \in Cxs /\ plan \in Seq(BOOLEAN) /\ Passed \in Cxs /\ Rest \in Seq(BOOLEAN)
  BY PassedCounts, RestOfPlan DEF TypeOK, Cxs
<1>1. ASSUME NEW code \in Codes, NEW p \in Parts, ExecConditional(code, p[1], p[2])
      PROVE  TypeOK'
  <2>1. p[1] \in Counts /\ p[2] \in Counts /\ Holds(code) \in BOOLEAN
    BY HoldsTrueOrFalse
  <2>2. plan' \in Seq(BOOLEAN)
    BY <1>1, <2>1, PartedTyped DEF ExecConditional
  <2>3. cex' \in Cxs
    BY <1>0, <1>1, <2>1 DEF ExecConditional, Cxs
  <2>. QED
    BY <1>1, <2>2, <2>3 DEF ExecConditional, TypeOK, Cxs
<1>2. ASSUME NEW flags \in Flags, Instruction(flags)
      PROVE  TypeOK'
  BY <1>0, <1>2 DEF Instruction, TypeOK, Cxs
<1>3. CASE Skip
  BY <1>0, <1>3 DEF Skip, Blocked, TypeOK, Cxs, Counts
<1>4. CASE Branch
  BY <1>4 DEF Branch, TypeOK, Counts
<1>5. CASE UNCHANGED vars
  BY <1>5 DEF vars, TypeOK
<1>. QED
  BY <1>1, <1>2, <1>3, <1>4, <1>5 DEF Next

(* The counts stay counts: none is taken below 0.                          *)
THEOREM TypeCorrect == Spec => []TypeOK
<1>1. Init => TypeOK
  BY DEF Init, TypeOK, Flags, Bit, Counts
<1>. QED
  BY <1>1, TypeInvariant, PTL DEF Spec
-----------------------------------------------------------------------------
(* Flat programs.  While the true count is above 0 or the condition held,  *)
(* the plan is the rest of the true part and then the false part, of the   *)
(* lengths counted; if it did not hold, the false count is what is left of *)
(* the true part and the rest runs.                                        *)

Truthful ==
    /\ Len(plan) = cex.true_count + cex.false_count
    /\ \A k \in 1 .. Len(plan) : plan[k] <=> k <= cex.true_count

Falsified ==
    /\ cex.true_count = 0
    /\ cex.false_count <= Len(plan)
    /\ \A k \in 1 .. Len(plan) : plan[k] <=> k > cex.false_count

PlanInv == Truthful \/ Falsified

LEMMA PlanDecides == TypeOK /\ PlanInv => BlockedAsPlanned
<1>. SUFFICES ASSUME TypeOK, PlanInv
              PROVE  BlockedAsPlanned
  OBVIOUS
<1>1. /\ cex.true_count \in Nat /\ cex.false_count \in Nat /\ Len(plan) \in Nat
      /\ plan = <<>> <=> Len(plan) = 0
  BY EmptySeq DEF TypeOK, Counts
<1>. QED
  BY <1>1 DEF PlanInv, Truthful, Falsified, BlockedAsPlanned, Blocked

LEMMA PlanInvariant == TypeOK /\ PlanInv /\ [Next /\ Flat]_vars => PlanInv'
<1>. SUFFICES ASSUME TypeOK, PlanInv, [Next /\ Flat]_vars
              PROVE  PlanInv'
  OBVIOUS
<1>0. /\ cex.true_count \in Nat /\ cex.false_count \in Nat /\ Len(plan) \in Nat
      /\ cex \in Cxs /\ plan \in Seq(BOOLEAN)
  BY DEF TypeOK, Counts, Cxs
<1>1. ASSUME NEW code \in Codes, NEW p \in Parts, ExecConditional(code, p[1], p[2]), Flat
      PROVE  PlanInv'
  <2>. DEFINE t == p[1]
              f == p[2]
  <2>1. t \in Counts /\ f \in Counts /\ t \in Nat /\ f \in Nat /\ Holds(code) \in BOOLEAN
    BY HoldsTrueOrFalse DEF Counts
  <2>2. plan = <<>> /\ (t = f \/ Holds(code)) /\ ~Blocked
    BY <1>1 DEF Flat, ExecConditional
  <2>3. /\ Len(plan') = t + f
        /\ \A k \in 1 .. t + f : plan'[k] = ((k <= t) = Holds(code))
    BY <1>1, <2>1, PartedTyped DEF ExecConditional
  <2>4. CASE Holds(code)
    <3>1. cex'.true_count = t /\ cex'.false_count = f
      BY <1>1, <2>4 DEF ExecConditional
    <3>. QED
      BY <2>1, <2>3, <2>4, <3>1 DEF PlanInv, Truthful
  <2>5. CASE ~Holds(code)
    <3>1. cex.true_count = 0
      BY <1>0, <2>2, EmptySeq DEF PlanInv, Truthful, Falsified
    <3>2. cex'.true_count = 0 /\ cex'.false_count = f
      BY <1>0, <1>1, <2>5, <3>1 DEF ExecConditional, Passed, Cxs
    <3>3. ASSUME NEW k \in 1 .. t + f
          PROVE  plan'[k] <=> k > f
      <4>1. plan'[k] = ((k <= t) = FALSE)
        BY <2>1, <2>3, <2>5
      <4>2. ((k <= t) = FALSE) <=> k > f
        BY <2>1, <2>2, <2>5
      <4>. QED
        BY <4>1, <4>2, Zenon
    <3>. QED
      BY <2>1, <2>3, <3>2, <3>3 DEF PlanInv, Falsified
  <2>. QED
    BY <2>4, <2>5
<1>2. ASSUME NEW flags \in Flags, Instruction(flags)
      PROVE  PlanInv'
  <2>1. /\ cex'.false_count = cex.false_count
        /\ cex'.true_count = IF cex.true_count > 0 THEN cex.true_count - 1 ELSE 0
        /\ plan' = Rest /\ ~Blocked
    BY <1>0, <1>2 DEF Instruction, Passed, Cxs
  <2>2. CASE Truthful
    <3>1. Truthful'
      BY <1>0, <2>1, <2>2, RestOfPlan DEF Truthful, Blocked
    <3>. QED
      BY <3>1 DEF PlanInv
  <2>3. CASE Falsified
    <3>1. Falsified'
      BY <1>0, <2>1, <2>3, RestOfPlan DEF Falsified, Blocked
    <3>. QED
      BY <3>1 DEF PlanInv
  <2>. QED
    BY <2>2, <2>3 DEF PlanInv
<1>3. CASE Skip
  <2>1. /\ cex'.false_count = cex.false_count - 1 /\ cex'.true_count = cex.true_count
        /\ plan' = Rest /\ Blocked
    BY <1>0, <1>3 DEF Skip, Cxs
  <2>2. CASE Truthful
    <3>1. Truthful'
      BY <1>0, <2>1, <2>2, RestOfPlan DEF Truthful, Blocked
    <3>. QED
      BY <3>1 DEF PlanInv
  <2>3. CASE Falsified
    <3>1. Falsified'
      BY <1>0, <2>1, <2>3, RestOfPlan DEF Falsified, Blocked
    <3>. QED
      BY <3>1 DEF PlanInv
  <2>. QED
    BY <2>2, <2>3 DEF PlanInv
<1>4. CASE Branch
  <2>1. cex'.true_count = 0 /\ cex'.false_count = 0 /\ Len(plan') = 0
    BY <1>4 DEF Branch
  <2>. QED
    BY <2>1 DEF PlanInv, Truthful
<1>5. CASE UNCHANGED vars
  BY <1>5 DEF vars, PlanInv, Truthful, Falsified
<1>. QED
  BY <1>1, <1>2, <1>3, <1>4, <1>5 DEF Next

(* In a flat program exactly the instructions due to be skipped are        *)
(* blocked.                                                                *)
THEOREM BlockedAsPlannedCorrect == FlatSpec => []BlockedAsPlanned
<1>1. Init => TypeOK /\ PlanInv
  <2>1. Init => TypeOK
    BY DEF Init, TypeOK, Flags, Bit, Counts
  <2>2. Init => PlanInv
    BY DEF Init, PlanInv, Truthful
  <2>. QED
    BY <2>1, <2>2
<1>2. TypeOK /\ [Next /\ Flat]_vars => TypeOK'
  BY TypeInvariant
<1>. QED
  BY <1>1, <1>2, PlanInvariant, PlanDecides, PTL DEF FlatSpec
================================================================================
