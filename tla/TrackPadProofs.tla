--------------------------- MODULE TrackPadProofs ---------------------------
(***************************************************************************)
(* Proofs about TrackPad for any finger movements and any bound on the     *)
(* totals, whatever the scheduling of the two threads.                     *)
(***************************************************************************)
EXTENDS TrackPad, TLAPS

\* A leaf goes to the SMT solver unless it names another prover.
USE SMTT(30)

\* Math.round() gives a whole number of pixels.
LEMMA RoundType == ASSUME NEW h \in Int PROVE Round(h) \in Int
BY DEF Round

\* Whatever the total, the two bounds of the code leave a delta that a byte
\* holds.
LEMMA DeltaFits == ASSUME NEW h \in Int PROVE Delta(h) \in -127..127
<1>1. ASSUME NEW v \in Int PROVE -Clamp(v) \in -127..127
  <2>1. CASE v > 127
    BY <2>1 DEF Clamp
  <2>2. CASE v < -127
    <3>1. ~(v > 127)
      BY <2>2
    <3>2. Clamp(v) = -127
      BY <2>2, <3>1 DEF Clamp
    <3>3. \A m \in Int : m + 127 = 0 => -m \in -127..127
      OBVIOUS
    <3>4. Clamp(v) \in Int /\ Clamp(v) + 127 = 0
      BY <3>2
    <3> QED
      BY <3>3, <3>4
  <2>3. CASE ~(v > 127) /\ ~(v < -127)
    <3>1. Clamp(v) = v
      BY <2>3 DEF Clamp
    <3> QED
      BY <2>3, <3>1
  <2> QED
    BY <2>1, <2>2, <2>3
<1>2. -Round(h) \in Int
  BY RoundType
<1> QED
  BY <1>1, <1>2 DEF Delta

-----------------------------------------------------------------------------
(* Types.                                                                   *)

\* Nothing has moved at first.
LEMMA InitType == Init => TypeOK
BY DEF Init, TypeOK

\* Every step of the two threads keeps the types.
LEMMA StepType == TypeOK /\ [Next]_vars => TypeOK'
<1> SUFFICES ASSUME TypeOK, [Next]_vars PROVE TypeOK'
  OBVIOUS
<1> USE DEF TypeOK, Goto, Still
<1>1. CASE UNCHANGED vars
  BY <1>1 DEF vars
<1>2. ASSUME NEW step \in Steps, MoveRead(step) PROVE TypeOK'
  BY <1>2 DEF MoveRead
<1>3. CASE MoveWrite
  BY <1>3 DEF MoveWrite
<1>4. CASE onStop \/ waitUntilStop \/ onStart
  <2>1. CASE onStop
    BY <2>1, ZenonT(30) DEF onStop
  <2>2. CASE waitUntilStop
    BY <2>2 DEF waitUntilStop
  <2>3. CASE onStart
    BY <2>3 DEF onStart
  <2> QED
    BY <1>4, <2>1, <2>2, <2>3
<1>5. ASSUME NEW otherMoved \in BOOLEAN, Check(otherMoved) PROVE TypeOK'
  BY <1>5 DEF Check
<1>6. CASE TestFraction
  BY <1>6 DEF TestFraction, Test
<1>7. CASE RaiseFraction
  BY <1>7 DEF RaiseFraction
<1>8. CASE RoundAndSend
  <2>1. mRunningTotalX \in Int
    BY TrackPadAssumption
  <2>2. sent' \in -127..127
    BY <1>8, <2>1, DeltaFits DEF RoundAndSend
  <2> QED
    BY <1>8, <2>2 DEF RoundAndSend
<1>9. CASE Reset
  BY <1>9 DEF Reset, ResetTotal
<1> QED
  BY <1>1, <1>2, <1>3, <1>4, <1>5, <1>6, <1>7, <1>8, <1>9 DEF Next, Sender

\* The byte that setMouseBytes() gets never wraps, whatever the finger did.
THEOREM DeltaNeverWraps == Spec => []TypeOK
BY InitType, StepType, PTL DEF Spec

-----------------------------------------------------------------------------
(* onStop() and the sender's thread.                                       *)

\* onStop() blocks in waitUntilStop() only without mLock, which the sender may
\* need to come to its end, and only after mKeepRunning was cleared; it
\* returns when the thread is dead, and nothing starts another one.
StopHandshake ==
  /\ activity = "stopping" => mLock = "free"
  /\ activity # "started" => ~mKeepRunning
  /\ activity = "stopped" => pc = "dead"
  /\ pc = "dead" => ~mKeepRunning

\* Every step of either thread keeps it.
LEMMA StepHandshake == TypeOK /\ StopHandshake /\ [Next]_vars => StopHandshake'
<1> SUFFICES ASSUME TypeOK, StopHandshake, [Next]_vars PROVE StopHandshake'
  OBVIOUS
<1> USE DEF StopHandshake, Goto, Still
<1>1. CASE UNCHANGED vars
  BY <1>1 DEF vars
<1>2. ASSUME NEW step \in Steps, MoveRead(step) PROVE StopHandshake'
  BY <1>2 DEF MoveRead
<1>3. CASE MoveWrite
  BY <1>3 DEF MoveWrite
<1>4. CASE onStop \/ waitUntilStop \/ onStart
  BY <1>4 DEF onStop, waitUntilStop, onStart
<1>5. ASSUME NEW otherMoved \in BOOLEAN, Check(otherMoved) PROVE StopHandshake'
  BY <1>5 DEF Check, Runs
<1>6. CASE TestFraction
  BY <1>6 DEF TestFraction, Test
<1>7. CASE RaiseFraction \/ RoundAndSend \/ Reset
  BY <1>7 DEF RaiseFraction, RoundAndSend, Reset
<1> QED
  BY <1>1, <1>2, <1>3, <1>4, <1>5, <1>6, <1>7 DEF Next, Sender

\* The handshake holds in every state: onStop() cannot deadlock on mLock.
THEOREM StopIsSafe == Spec => []StopHandshake
<1>1. Init => StopHandshake
  BY DEF Init, StopHandshake
<1> QED
  BY <1>1, StepHandshake, DeltaNeverWraps, PTL DEF Spec

\* What ThreadWhileUp is refuted with: a view that came back after onStop() has
\* no thread, and never gets one (TrackPad starts its thread when it is made).
THEOREM DeadForGood ==
  Spec => [][pc = "dead" \/ activity = "stopped" => pc' = "dead"]_vars
<1>1. StopHandshake /\ [Next]_vars
        => [pc = "dead" \/ activity = "stopped" => pc' = "dead"]_vars
  BY DEF Next, StopHandshake, MoveRead, MoveWrite, onStop, waitUntilStop,
         onStart, Sender, Check, TestFraction, Test, RaiseFraction,
         RoundAndSend, Reset, Goto, vars
<1> QED
  BY <1>1, StopIsSafe, PTL DEF Spec

\* How many steps of its own the sender still takes, at most, before it looks at
\* mKeepRunning and ends.
StepsLeft ==
  CASE pc = "dead" -> 0 [] pc = "loop" -> 1 [] pc = "reset" -> 2
    [] pc = "round" -> 3 [] pc = "lower" -> 4 [] pc = "below_zero" -> 5
    [] pc = "above_minus_one" -> 6 [] pc = "raise" -> 7
    [] pc = "above_zero" -> 8 [] pc = "below_one" -> 9

\* While onStop() waits, the sender never has to wait itself, each of its steps
\* brings it nearer to its end, nothing throws it back, and the wait is over
\* once it is there.
StopAdvances ==
  [][activity = "stopping" =>
       \/ /\ Sender /\ UNCHANGED <<activity, mLock>>
          /\ StepsLeft' < StepsLeft
       \/ StepsLeft = 0 /\ activity' = "stopped"]_vars

\* The counter counts down from nine: what is left of StopReturns to fairness is
\* only that the sender's thread is scheduled nine more times.
THEOREM StopIsBounded ==
  Spec => [](StepsLeft \in 0..9 /\ (activity = "stopping" => mLock = "free"))
            /\ StopAdvances
<1>1. TypeOK => StepsLeft \in 0..9
  BY DEF TypeOK, StepsLeft
<1>2. StopHandshake => (activity = "stopping" => mLock = "free")
  BY DEF StopHandshake
<1>3. TypeOK /\ StopHandshake /\ [Next]_vars =>
        [activity = "stopping" =>
           \/ /\ Sender /\ UNCHANGED <<activity, mLock>>
              /\ StepsLeft' < StepsLeft
           \/ StepsLeft = 0 /\ activity' = "stopped"]_vars
  <2> SUFFICES ASSUME TypeOK, StopHandshake, Next, activity = "stopping"
               PROVE  \/ /\ Sender /\ UNCHANGED <<activity, mLock>>
                         /\ StepsLeft' < StepsLeft
                      \/ StepsLeft = 0 /\ activity' = "stopped"
    OBVIOUS
  <2>1. ~mKeepRunning /\ mLock = "free"
    BY DEF StopHandshake
  <2>2. CASE Sender
    <3>1. UNCHANGED <<activity, mLock>>
      BY <2>2 DEF Sender, Check, TestFraction, Test, RaiseFraction,
                  RoundAndSend, Reset, Still
    <3>2. StepsLeft' < StepsLeft
      BY <2>1, <2>2 DEF Sender, Check, Runs, TestFraction, Test, RaiseFraction,
                        RoundAndSend, Reset, Goto, StepsLeft
    <3> QED
      BY <2>2, <3>1, <3>2
  <2>3. CASE waitUntilStop
    BY <2>3 DEF waitUntilStop, StepsLeft
  <2> QED
    BY <2>1, <2>2, <2>3 DEF Next, MoveRead, MoveWrite, onStop, onStart
<1> QED
  BY <1>1, <1>2, <1>3, DeltaNeverWraps, StopIsSafe, PTL DEF Spec, StopAdvances

\* How many steps of its own the sender still takes, at most, before it resets
\* a total that is not zero.
StepsToTake == IF pc = "loop" THEN 9 ELSE StepsLeft - 1

\* While a total is not zero and the sender is to run, the sender is alive, each
\* of its steps brings it nearer to the reset, and a finger that keeps moving
\* does not throw it back.
TakeAdvances ==
  [][mRunningTotalX # 0 /\ mKeepRunning =>
       \/ mRunningTotalX' = 0 \/ ~mKeepRunning'
       \/ Sender /\ StepsToTake' < StepsToTake
       \/ ~Sender /\ StepsToTake' = StepsToTake]_vars

\* The counter counts down from nine to one, the reset: what is left of
\* TotalIsTaken to fairness is that the sender's thread is scheduled nine more
\* times, the last time while mLock is free.
THEOREM TakeIsBounded ==
  Spec => [](mKeepRunning => StepsToTake \in 1..9) /\ TakeAdvances
<1>1. TypeOK /\ StopHandshake => (mKeepRunning => StepsToTake \in 1..9)
  BY DEF TypeOK, StopHandshake, StepsLeft, StepsToTake
<1>2. TypeOK /\ StopHandshake /\ [Next]_vars =>
        [mRunningTotalX # 0 /\ mKeepRunning =>
           \/ mRunningTotalX' = 0 \/ ~mKeepRunning'
           \/ Sender /\ StepsToTake' < StepsToTake
           \/ ~Sender /\ StepsToTake' = StepsToTake]_vars
  <2> SUFFICES ASSUME TypeOK, StopHandshake, Next,
                      mRunningTotalX # 0, mKeepRunning
               PROVE  \/ mRunningTotalX' = 0 \/ ~mKeepRunning'
                      \/ Sender /\ StepsToTake' < StepsToTake
                      \/ ~Sender /\ StepsToTake' = StepsToTake
    OBVIOUS
  <2>1. CASE Sender
    BY <2>1 DEF Sender, Check, Runs, TestFraction, Test, RaiseFraction,
                RoundAndSend, Reset, ResetTotal, Goto, StepsLeft, StepsToTake
  <2>2. CASE ~Sender
    <3>1. pc' = pc
      BY <2>2, ZenonT(30)
      DEF Next, MoveRead, MoveWrite, onStop, waitUntilStop, onStart
    <3>2. StepsToTake' = StepsToTake
      BY <3>1 DEF StepsLeft, StepsToTake
    <3> QED
      BY <2>2, <3>2
  <2> QED
    BY <2>1, <2>2
<1> QED
  BY <1>1, <1>2, DeltaNeverWraps, StopIsSafe, PTL DEF Spec, TakeAdvances
=============================================================================
