------------------------------ MODULE Pacing --------------------------------
(***************************************************************************)
(* Reading a socket around the predicted arrival of the next message       *)
(* (core/src/websocket/pacing.rs).  Times are whole ticks since the last   *)
(* message; durations divide rounding down, as Duration does.              *)
(***************************************************************************)
EXTENDS Integers

CONSTANTS
  Gaps,        \* times between two messages
  MaxGap,      \* MAX_GAP
  MinStreak,   \* MIN_STREAK
  Margin,      \* the margin the predictor was made with
  BusyPoll,    \* the spin before each read, 0 for none
  MaxReads     \* bound: reads

ASSUME PacingAssumption ==
  /\ Gaps \subseteq Nat
  /\ {MaxGap, MinStreak, Margin, BusyPoll, MaxReads} \subseteq Nat

VARIABLES
  interval,   \* Predictor::interval, NoInterval for None
  streak,     \* Predictor::streak
  tally,      \* Predictor::tally
  spun,       \* messages read by the busy poll
  last,       \* whether a message has come, Predictor::last
  steady      \* history: the one gap of the current streak, or -1

pacingVars == <<interval, streak, tally, spun, last, steady>>

NoInterval == -1
Unsteady == -1
MarginFraction == 4

PacingInit ==
  /\ interval = NoInterval
  /\ streak = 0
  /\ tally = [blind |-> 0, hit |-> 0, early |-> 0, late |-> 0]
  /\ spun = 0
  /\ last = FALSE
  /\ steady = Unsteady

Reads == tally.blind + tally.hit + tally.early + tally.late + spun

-----------------------------------------------------------------------------
\* Predictor::margin.
CurrentMargin ==
  IF interval = NoInterval \/ Margin < interval \div MarginFraction
  THEN Margin ELSE interval \div MarginFraction

\* Predictor::record, of a message gap ticks after the one before.
InStep(gap) ==
  gap <= MaxGap /\ (interval # NoInterval => gap <= interval * 4)

\* mutant: the weights of the running interval do not add up to one
AverageLight(gap) ==
  IF interval = NoInterval THEN gap ELSE (interval \div 4) * 2 + gap \div 4

Average(gap) ==
  IF interval = NoInterval THEN gap ELSE (interval \div 4) * 3 + gap \div 4

Record(gap) ==
  /\ last' = TRUE
  /\ IF ~ last THEN UNCHANGED <<interval, streak, steady>>
     ELSE IF InStep(gap)
     THEN /\ interval' = Average(gap)
          /\ streak' = streak + 1
          /\ steady' = IF streak = 0 \/ steady = gap THEN gap ELSE Unsteady
     ELSE /\ interval' = NoInterval
          /\ streak' = 0
          /\ steady' = Unsteady

\* Predictor::next_due is some time.
Predicts == Margin > 0 /\ streak >= MinStreak /\ interval # NoInterval

\* read_predicted: what a read is counted as when its message comes gap ticks
\* after the last one.
Outcomes(gap) ==
  IF ~ Predicts THEN {"blind"}
  ELSE IF gap < interval - CurrentMargin THEN {"early"}
  ELSE IF gap <= interval + CurrentMargin THEN {"hit"} ELSE {"late"}

\* read_paced: the busy poll, and then the predicted read; either records.
ReadPaced(gap) ==
  /\ Reads < MaxReads
  /\ IF BusyPoll > 0 /\ gap <= BusyPoll
     THEN spun' = spun + 1 /\ UNCHANGED tally
     ELSE /\ tally' = [o \in DOMAIN tally |->
                         IF o \in Outcomes(gap) THEN tally[o] + 1 ELSE tally[o]]
          /\ UNCHANGED spun
  /\ Record(gap)

PacingNext == \E gap \in Gaps : ReadPaced(gap)

PacingSpec == PacingInit /\ [][PacingNext]_pacingVars

-----------------------------------------------------------------------------
\* "so a dense stream spins for at most half of each interval" (pacing.rs:14):
\* the window the reader spins in, from margin before to margin after the due
\* time, is at most half the period, and the period is a gap of a stream that
\* has not paused, whatever messages came before.
SpinsAtMostHalf ==
  Predicts => /\ 2 * (2 * CurrentMargin) <= interval
              /\ interval \in 0 .. MaxGap

\* The running interval follows a steady stream although every division rounds
\* down: it never falls short of the period by more than three ticks, so a
\* stream in step goes on being predicted.
SteadyIsFollowed ==
  steady # Unsteady => interval \in steady - 3 .. steady

\* The prediction costs at most half of the time and is of use: it spins for
\* less than half an interval, and it follows a sender that keeps its pace.
PredictionSound == SpinsAtMostHalf /\ SteadyIsFollowed
=============================================================================
