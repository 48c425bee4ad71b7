------------------------------ MODULE TrackPad ------------------------------
(***************************************************************************)
(* TrackPad.java: onTouchEvent() adds finger movements to a running total  *)
(* under mLock, and the MouseSender thread sends the total and resets it,  *)
(* taking mLock only for the reset.                                        *)
(*                                                                         *)
(* One axis is modelled; the code treats the other in the same way, and it *)
(* matters here only because either axis makes the sender send both.       *)
(* Distances are in half pixels, so that fractions of a pixel occur.  The  *)
(* velocities the sender computes are never used and are left out.         *)
(***************************************************************************)
EXTENDS Integers

CONSTANTS
  Steps,   \* finger movements between two events, in half pixels
  Totals   \* the running totals touches may build up (bound)

ASSUME TrackPadAssumption == Steps \subseteq Int /\ Totals \subseteq Int

VARIABLES
  mRunningTotalX,
  mLock,         \* who holds it: "free" or "ui" (the reset is one step)
  sum,           \* the UI thread's mRunningTotalX + step, not yet stored
  mKeepRunning,
  pc,            \* where MouseSender.run() is
  seen,          \* history: the total that was rounded
  sent,          \* the delta last passed to setMouseBytes()
  activity       \* "started", "stopping" (in waitUntilStop()) or "stopped"

vars == <<mRunningTotalX, mLock, sum, mKeepRunning, pc, seen, sent, activity>>

Init ==
  /\ mRunningTotalX = 0
  /\ mLock = "free"
  /\ sum = 0
  /\ mKeepRunning = TRUE
  /\ pc = "loop"
  /\ seen = 0
  /\ sent = 0
  /\ activity = "started"

-----------------------------------------------------------------------------
(* Rounding and clamping, in half pixels to pixels.                        *)

\* Math.round(): floor(x + 1/2).
Round(h) == (h + 1) \div 2

\* Mutant: the clamp is left out.
ClampNot(v) == v

Clamp(v) == IF v > 127 THEN 127 ELSE IF v < -127 THEN -127 ELSE v

\* -xVel, where xVel is clamped after the first negation.
Delta(h) == -Clamp(-Round(h))

-----------------------------------------------------------------------------
(* The UI thread.                                                          *)

\* ACTION_MOVE: += reads the total and stores it later, both under mLock.
MoveRead(step) ==
  /\ activity = "started"
  /\ mLock = "free"
  /\ mRunningTotalX + step \in Totals
  /\ mLock' = "ui"
  /\ sum' = mRunningTotalX + step
  /\ UNCHANGED <<mRunningTotalX, mKeepRunning, pc, seen, sent, activity>>

MoveWrite ==
  /\ mLock = "ui"
  /\ mRunningTotalX' = sum
  /\ mLock' = "free"
  /\ sum' = 0
  /\ UNCHANGED <<mKeepRunning, pc, seen, sent, activity>>

\* onStop(): stopSendingThread(), then waitUntilStop() blocks the UI thread.
onStop ==
  /\ activity = "started"
  /\ mLock = "free"
  /\ mKeepRunning' = FALSE
  /\ activity' = "stopping"
  /\ UNCHANGED <<mRunningTotalX, mLock, sum, pc, seen, sent>>

waitUntilStop ==
  /\ activity = "stopping"
  /\ pc = "dead"
  /\ activity' = "stopped"
  /\ UNCHANGED <<mRunningTotalX, mLock, sum, mKeepRunning, pc, seen, sent>>

\* onStart() and onResume() find the same view and start no thread.
onStart ==
  /\ activity = "stopped"
  /\ activity' = "started"
  /\ UNCHANGED <<mRunningTotalX, mLock, sum, mKeepRunning, pc, seen, sent>>

-----------------------------------------------------------------------------
(* MouseSender.run()                                                       *)

Goto(from, to) == pc = from /\ pc' = to

Still == UNCHANGED <<mLock, sum, mKeepRunning, activity>>

\* Mutant: the flag is not looked at.
RunsForever == TRUE

Runs == mKeepRunning

\* while (mKeepRunning), then the test without the lock; otherMoved is the
\* other axis' half of it.
Check(otherMoved) ==
  /\ Goto("loop", IF ~Runs THEN "dead"
                  ELSE IF mRunningTotalX # 0 \/ otherMoved THEN "below_one"
                  ELSE "loop")
  /\ UNCHANGED <<mRunningTotalX, seen, sent>>
  /\ Still

\* "total < 1 && total > 0", then "total > -1 && total < 0": four reads of the
\* shared total, none of them under mLock, so each may see another value.
Test(from, holds, yes, no) ==
  /\ Goto(from, IF holds THEN yes ELSE no)
  /\ UNCHANGED <<mRunningTotalX, seen, sent>>
  /\ Still

TestFraction ==
  \/ Test("below_one", mRunningTotalX < 2, "above_zero", "above_minus_one")
  \/ Test("above_zero", mRunningTotalX > 0, "raise", "above_minus_one")
  \/ Test("above_minus_one", mRunningTotalX > -2, "below_zero", "round")
  \/ Test("below_zero", mRunningTotalX < 0, "lower", "round")

\* The total becomes one pixel, whatever it is by now.
RaiseFraction ==
  /\ \/ Goto("raise", "above_minus_one") /\ mRunningTotalX' = 2
     \/ Goto("lower", "round") /\ mRunningTotalX' = -2
  /\ UNCHANGED <<seen, sent>>
  /\ Still

RoundAndSend ==
  /\ Goto("round", "reset")
  /\ seen' = mRunningTotalX
  /\ sent' = Delta(mRunningTotalX)
  /\ UNCHANGED mRunningTotalX
  /\ Still

\* Mutant: the total is not reset after it was sent.
KeptTotal == mRunningTotalX

ResetTotal == 0

\* The only step of the sender under mLock.
Reset ==
  /\ Goto("reset", "loop")
  /\ mLock = "free"
  /\ mRunningTotalX' = ResetTotal
  /\ UNCHANGED <<seen, sent>>
  /\ Still

Sender ==
  \/ \E otherMoved \in BOOLEAN : Check(otherMoved)
  \/ TestFraction
  \/ RaiseFraction
  \/ RoundAndSend
  \/ Reset

Next ==
  \/ \E step \in Steps : MoveRead(step)
  \/ MoveWrite
  \/ onStop
  \/ waitUntilStop
  \/ onStart
  \/ Sender

Spec == Init /\ [][Next]_vars

\* The threads are scheduled.  Strong fairness for the sender: a Java monitor
\* promises no order, but the UI thread holds mLock only for the length of a
\* handler and leaves it between two touch events.  The finger owes nothing.
Fairness ==
  /\ SF_vars(Sender)
  /\ WF_vars(MoveWrite)
  /\ WF_vars(waitUntilStop)

FairSpec == Spec /\ Fairness

-----------------------------------------------------------------------------
(* Properties                                                              *)

\* Types; in particular (byte) -xVel never wraps: the delta fits -127..127.
TypeOK ==
  /\ mRunningTotalX \in Totals \cup {-2, 0, 2}
  /\ mLock \in {"free", "ui"}
  /\ sum \in Totals \cup {0}
  /\ mKeepRunning \in BOOLEAN
  /\ pc \in {"loop", "below_one", "above_zero", "raise", "above_minus_one",
             "below_zero", "lower", "round", "reset", "dead"}
  /\ seen \in Totals \cup {-2, 0, 2}
  /\ sent \in -127..127
  /\ activity \in {"started", "stopping", "stopped"}

\* Movements do not pile up: as long as the sender is not told to stop, a
\* total that is not zero is taken and reset, each time anew.
TotalIsTaken ==
  mRunningTotalX # 0 /\ mKeepRunning ~> mRunningTotalX = 0 \/ ~mKeepRunning

\* waitUntilStop() in onStop() returns: the UI thread does not hang on a
\* sender that waits for mLock or never looks at mKeepRunning.
StopReturns == activity = "stopping" ~> activity = "stopped"

\* The totals are to be accessed "in a threadsafe manner": the reset throws
\* away only what was sent.
ResetOnlySent == [][pc = "reset" /\ pc' = "loop" => mRunningTotalX = seen]_vars

\* "There is a thread sending the mouse actions while this view is up and
\* running".
ThreadWhileUp == activity = "started" => pc # "dead"
=============================================================================
