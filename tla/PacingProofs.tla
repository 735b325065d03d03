---------------------------- MODULE PacingProofs ----------------------------
(***************************************************************************)
(* Proofs about Pacing: the predictor's promises hold for every margin,    *)
(* every MAX_GAP and every sequence of gaps between messages.              *)
(***************************************************************************)
EXTENDS Pacing, TLAPS

\* The inductive invariant.  SteadyIsFollowed alone is not inductive: three
\* ticks of rounding could become four.  Under a steady stream the interval is
\* the period itself or the period rounded down to a multiple of four, which
\* Average leaves as it is.
PacingInv ==
  /\ interval \in {NoInterval} \cup (0 .. MaxGap)
  /\ streak \in Nat
  /\ steady \in {Unsteady} \cup Nat
  /\ streak = 0 <=> interval = NoInterval
  /\ steady # Unsteady => /\ interval # NoInterval
                          /\ interval \in {steady, 4 * (steady \div 4)}

\* Rounding: three quarters and a quarter, each rounded down, of two numbers
\* are at most the greater of them, and of a number and its multiple of four
\* they are that multiple.
LEMMA Rounding ==
  ASSUME NEW i \in Nat, NEW g \in Nat
  PROVE  /\ (i \div 4) * 3 + g \div 4 \in Nat
         /\ \A m \in Nat : i <= m /\ g <= m => (i \div 4) * 3 + g \div 4 <= m
         /\ i \in {g, 4 * (g \div 4)} => (i \div 4) * 3 + g \div 4 = 4 * (g \div 4)
         /\ 4 * (g \div 4) \in g - 3 .. g
<1>1. /\ i \div 4 \in Nat /\ 4 * (i \div 4) <= i /\ i <= 4 * (i \div 4) + 3
      /\ g \div 4 \in Nat /\ 4 * (g \div 4) <= g /\ g <= 4 * (g \div 4) + 3
  OBVIOUS
<1>2. (4 * (g \div 4)) \div 4 = g \div 4
  BY <1>1
<1>. QED  BY <1>1, <1>2

\* PacingInv gives both promises of the predictor.
LEMMA PacingInvSuffices == PacingInv => PredictionSound
<1>. SUFFICES ASSUME PacingInv PROVE PredictionSound
  OBVIOUS
<1>1. SpinsAtMostHalf
  <2>. SUFFICES ASSUME interval # NoInterval
                PROVE  2 * (2 * CurrentMargin) <= interval /\ interval \in 0 .. MaxGap
    BY DEF SpinsAtMostHalf, Predicts
  <2>1. interval \in 0 .. MaxGap /\ interval \in Nat /\ Margin \in Nat
    BY PacingAssumption DEF PacingInv
  <2>2. interval \div 4 \in Nat /\ 4 * (interval \div 4) <= interval
    BY <2>1
  <2>3. CurrentMargin \in Nat /\ CurrentMargin <= interval \div 4
    BY <2>1, <2>2 DEF CurrentMargin, MarginFraction
  <2>. QED  BY <2>1, <2>2, <2>3
<1>2. SteadyIsFollowed
  <2>. SUFFICES ASSUME steady # Unsteady PROVE interval \in steady - 3 .. steady
    BY DEF SteadyIsFollowed
  <2>1. steady \in Nat /\ interval \in {steady, 4 * (steady \div 4)}
    BY DEF PacingInv
  <2>2. 4 * (steady \div 4) \in steady - 3 .. steady
    BY <2>1, Rounding
  <2>. QED  BY <2>1, <2>2
<1>. QED  BY <1>1, <1>2 DEF PredictionSound

\* Every message read, by the busy poll or the predicted read, keeps PacingInv.
LEMMA PacingStep == PacingInv /\ [PacingNext]_pacingVars => PacingInv'
<1>. SUFFICES ASSUME PacingInv, [PacingNext]_pacingVars PROVE PacingInv'
  OBVIOUS
<1>1. CASE UNCHANGED pacingVars
  BY <1>1 DEF PacingInv, pacingVars
<1>2. CASE PacingNext
  <2>1. PICK gap \in Gaps : Record(gap)
    BY <1>2 DEF PacingNext, ReadPaced
  <2>2. gap \in Nat /\ MaxGap \in Nat
    BY PacingAssumption
  <2>3. CASE ~ last
    BY <2>1, <2>3 DEF PacingInv, Record
  <2>4. CASE last /\ ~ InStep(gap)
    BY <2>1, <2>4 DEF PacingInv, Record, NoInterval, Unsteady
  <2>5. CASE last /\ InStep(gap) /\ interval = NoInterval
    <3>1. interval' = gap /\ gap \in 0 .. MaxGap /\ streak' = streak + 1 /\ steady' = gap
      BY <2>1, <2>2, <2>5 DEF PacingInv, Record, InStep, Average
    <3>. QED  BY <3>1, <2>2 DEF PacingInv, NoInterval, Unsteady
  <2>6. CASE last /\ InStep(gap) /\ interval # NoInterval
    <3>1. interval \in Nat /\ interval <= MaxGap /\ gap <= MaxGap /\ streak # 0
      BY <2>2, <2>6 DEF PacingInv, InStep
    <3>2. /\ interval' = (interval \div 4) * 3 + gap \div 4
          /\ streak' = streak + 1
          /\ steady' = IF steady = gap THEN gap ELSE Unsteady
      BY <2>1, <2>6, <3>1 DEF Record, Average
    <3>3. interval' \in Nat /\ interval' <= MaxGap
      BY <2>2, <3>1, <3>2, Rounding
    <3>4. steady = gap => interval' = 4 * (gap \div 4)
      BY <2>2, <3>1, <3>2, Rounding DEF PacingInv, Unsteady
    <3>. QED  BY <2>2, <3>1, <3>2, <3>3, <3>4 DEF PacingInv, NoInterval, Unsteady
  <2>. QED  BY <2>3, <2>4, <2>5, <2>6
<1>. QED  BY <1>1, <1>2

\* "so a dense stream spins for at most half of each interval" (pacing.rs:14),
\* and a steady stream goes on being predicted, for all constants.
THEOREM PacingIsSound == PacingSpec => []PredictionSound
<1>1. PacingInit => PacingInv
  BY PacingAssumption DEF PacingInit, PacingInv, NoInterval, Unsteady
<1>. QED  BY <1>1, PacingStep, PacingInvSuffices, PTL DEF PacingSpec
=============================================================================
