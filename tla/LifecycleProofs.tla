-------------------------- MODULE LifecycleProofs --------------------------
(***************************************************************************)
(* Proofs about Lifecycle for any number of WorkerClass objects, main      *)
(* activities and characters, and any depth of the activity stack.         *)
(***************************************************************************)
EXTENDS Lifecycle, TLAPS, SequenceTheorems

\* A leaf goes to Zenon unless it names another prover.
USE ZenonT(30)

Lives == {"none", "saved", "created", "started", "resumed", "paused",
          "stopped"}
Conditions == {"unused", "created", "running", "stopping", "stopped", "revived"}
Results == {"connect", "badAddress", "file", "enabled", "refused"}

\* Types of what the proof looks at.
Fields ==
    /\ stack \in Seq(Covers) /\ results \in Seq(Results)
    /\ main \in [life : Lives, chat : Workers \cup {Null}, views : BOOLEAN,
                 disp : BOOLEAN, auto : {Null, "off", "on"},
                 ending : {"no", "finish", "relaunch", "anew"},
                 restore : BOOLEAN]
    /\ singleton \in [born : BOOLEAN, service : Workers \cup {Null}]
    /\ worker \in [Workers -> Conditions]
    /\ past \in [asked : BOOLEAN, tenFirst : BOOLEAN, mains : {0, 1, 2},
                 killed : BOOLEAN]

Excused == past.asked \/ past.tenFirst

\* A singleton without a service was made by an activity that had none.
SingletonExcused == singleton.born /\ singleton.service = Null => Excused

\* A main activity past onStart has a service, or asked for Bluetooth.
ChatExcused ==
    /\ main.life \in {"started", "resumed", "paused", "stopped"}
    /\ main.chat = Null
    => past.asked

\* Whoever can send has a singleton to send through.
Born == main.disp \/ main.life = "resumed" \/ task.step # "idle"
            => singleton.born

\* A request for Bluetooth is not forgotten while its answer is outstanding.
AskedKnown == AskedOutstanding => past.asked

NoFields == main.life \in {"none", "saved"} => ~main.disp

\* A service runs only if its activity was resumed: onDestroy can stop it.
RunningIsMain ==
    ~past.asked => \A w \in Workers :
        worker[w] = "running" => w = main.chat /\ main.disp

\* Before the first main activity only the ten-key pad makes a singleton.
FirstMain ==
    past.mains = 0 => /\ main.life \in {"none", "saved"}
                      /\ singleton.born => past.tenFirst

\* The singleton of a process with one main activity has its service.
ServesMain ==
    singleton.born /\ main.life \notin {"none", "saved"}
        => singleton.service = main.chat \/ Excused \/ past.mains = 2

\* The inductive invariant.
LInv ==
    /\ Fields /\ SingletonExcused /\ ChatExcused /\ Born /\ AskedKnown
    /\ NoFields /\ RunningIsMain /\ FirstMain /\ ServesMain
    /\ NullServiceHasCause

\* The first launch: nothing exists yet.
LEMMA InitInv == Init => LInv
BY LifecycleAssumption, SMTT(30)
   DEF Init, LInv, Fields, SingletonExcused, ChatExcused, Born, AskedKnown,
       NoFields, RunningIsMain, FirstMain, ServesMain, NullServiceHasCause,
       Excused, AskedOutstanding, NoMain, NoSingleton, NoPast, NoTask, Lives,
       Conditions, Covers, Results, Null

\* Steps that touch none of the fields of the invariant but the task and the
\* crash: a byte is sent, or neither gets worse.
LEMMA FrameInv ==
    ASSUME LInv, Running,
           UNCHANGED <<stack, results, main, singleton, worker, past>>,
           task'.step # "idle" => task.step # "idle",
           \/ crash' # "nullService"
           \/ sendByte /\ singleton.born
    PROVE  LInv'
BY SMTT(30) DEF LInv, Fields, SingletonExcused, ChatExcused, Born, AskedKnown,
       NoFields, RunningIsMain, FirstMain, ServesMain, NullServiceHasCause,
       Excused, AskedOutstanding, Running, sendByte

\* What setupChat leaves behind: a service that does not run yet, and no
\* other that did not run before.
LEMMA SetupChatFacts ==
    ASSUME Fields, NEW life \in Lives, setupChat(life)
    PROVE  /\ worker' \in [Workers -> Conditions]
           /\ \A w \in Workers : worker'[w] = "running" => worker[w] = "running"
           /\ \E w \in Workers : main' = [main EXCEPT !.chat = w,
                                              !.views = TRUE, !.life = life]
<1>1. PICK w \in Workers :
        /\ worker' = Collected([worker EXCEPT ![w] = "created"],
                               {w, singleton.service})
        /\ main' = [main EXCEPT !.chat = w, !.views = TRUE, !.life = life]
  BY DEF setupChat
<1> QED
  BY <1>1 DEF Fields, Conditions, Collected

\* Every callback, every step of the file task and everything the user and
\* Android do keeps the invariant.
LEMMA StepInv == LInv /\ [Next]_vars => LInv'
<1> SUFFICES ASSUME LInv, [Next]_vars PROVE LInv'
  OBVIOUS
<1>0. CASE UNCHANGED vars
  BY <1>0, SMTT(30)
  DEF vars, LInv, Fields, SingletonExcused, ChatExcused, Born, AskedKnown,
      NoFields, RunningIsMain, FirstMain, ServesMain, NullServiceHasCause,
      Excused, AskedOutstanding
<1>1. CASE ListDestroyed
  BY <1>1, FrameInv DEF ListDestroyed, LInv, Born, Running, sendByte
<1>2. CASE FileByte
  BY <1>2, FrameInv DEF FileByte, LInv, Born, Running, sendByte
<1>3. CASE FileTest
  BY <1>3, FrameInv
  DEF FileTest, Returned, NoTask, LInv, Born, Running, sendByte
<1>4. CASE FileFails
  BY <1>4, FrameInv
  DEF FileFails, Returned, NoTask, LInv, Born, Running, sendByte
<1>5. CASE onPostExecute
  BY <1>5, FrameInv DEF onPostExecute, LInv, Born, Running, sendByte, TaskReset, NoTask
<1>6. CASE TypeCharacter
  BY <1>6, FrameInv DEF TypeCharacter, LInv, Born, Running, sendByte, InMain, Untouched
<1>7. CASE PressButton
  BY <1>7, FrameInv DEF PressButton, LInv, Born, Running, sendByte, InMain, Untouched
<1>8. CASE doDiscovery
  BY <1>8, FrameInv DEF doDiscovery, LInv, Born, Running, sendByte
<1>9. CASE onReceive
  BY <1>9, FrameInv DEF onReceive, LInv, Born, Running, sendByte
<1>10. CASE TenKeyPress
  BY <1>10, FrameInv DEF TenKeyPress, LInv, Born, Running, sendByte
<1>11. CASE CancelFile
  BY <1>11, FrameInv DEF CancelFile, LInv, Born, Running, sendByte, InMain
<1>12. CASE GoHome
  BY <1>12, FrameInv DEF GoHome, LInv, Born, Running, sendByte
<1>13. CASE BluetoothOff
  BY <1>13, FrameInv DEF BluetoothOff, LInv, Born, Running, sendByte
<1> USE LifecycleAssumption
        DEF LInv, Fields, SingletonExcused, ChatExcused, Born, AskedKnown,
            NoFields, RunningIsMain, FirstMain, ServesMain,
            NullServiceHasCause, Excused, AskedOutstanding, Running, Lives,
            Conditions, Results, Covers, Null
<1>14. CASE RestoreText
  BY <1>14 DEF RestoreText
<1>15. CASE ResultConnect
  BY <1>15, SMTT(30) DEF ResultConnect, Returning, BeforeResume
<1>16. CASE ResultFile
  BY <1>16, SMTT(30) DEF ResultFile, Returning, BeforeResume
<1>17. CASE onResume
  BY <1>17 DEF onResume, BeforeResume, getSingleton, NeedsStart
<1>18. CASE onPause
  BY <1>18 DEF onPause
<1>19. CASE onStop
  BY <1>19 DEF onStop
<1>20. CASE ToggleAutoSend
  BY <1>20, SMTT(30) DEF ToggleAutoSend, InMain, Untouched
<1>21. CASE MenuItem
  BY <1>21, SMTT(30) DEF MenuItem, InMain
<1>22. CASE LeaveMain
  BY <1>22 DEF LeaveMain, InMain, Untouched
<1>23. CASE Rotate
  BY <1>23 DEF Rotate, InMain, Untouched
<1>24. CASE FileChosen
  BY <1>24, SMTT(30) DEF FileChosen, Top, Pop
<1>25. CASE Back
  BY <1>25, SMTT(30) DEF Back, Top, Pop
<1>26. CASE Launch
  BY <1>26, SMTT(30) DEF Launch
<1>27. CASE KillProcess
  BY <1>27 DEF KillProcess, NoMain, NoSingleton, NoTask, NoPast
<1>28. CASE onCreate
  <2>1. past' \in [asked : BOOLEAN, tenFirst : BOOLEAN, mains : {0, 1, 2},
                   killed : BOOLEAN]
    <3>1. past.mains \in {0, 1, 2}
      OBVIOUS
    <3> QED
      BY <1>28, <3>1, SMTT(30) DEF onCreate
  <2>2. /\ main' \in [life : Lives, chat : Workers \cup {Null},
                      views : BOOLEAN, disp : BOOLEAN,
                      auto : {Null, "off", "on"},
                      ending : {"no", "finish", "relaunch", "anew"},
                 restore : BOOLEAN]
        /\ main'.chat = Null /\ ~main'.disp /\ main'.life = "created"
    BY <1>28 DEF onCreate, NoMain
  <2>3. /\ past'.mains # 0
        /\ past.mains # 0 => past'.mains = 2
        /\ past'.asked = past.asked /\ past'.tenFirst = past.tenFirst
    <3>1. past.mains \in {0, 1, 2}
      OBVIOUS
    <3> QED
      BY <1>28, <3>1, SMTT(30) DEF onCreate
  <2> QED
    BY <1>28, <2>1, <2>2, <2>3, SMTT(30) DEF onCreate
<1>29. CASE onStart
  <2>1. CASE adapter = "off"
    <3>1. /\ past' = [past EXCEPT !.asked = TRUE]
          /\ main' = [main EXCEPT !.life = "started"]
          /\ stack' = Append(stack, "enable")
          /\ UNCHANGED <<results, singleton, worker, task, crash>>
          /\ main.life \in {"created", "stopped"}
      BY <1>29, <2>1 DEF onStart
    <3>2. stack' \in Seq(Covers)
      BY <3>1, SMTT(30)
    <3>3. Fields' /\ past'.asked
      BY <3>1, <3>2
    <3> QED
      BY <3>1, <3>3
  <2>2. CASE adapter = "on" /\ ~NeedsService
    BY <1>29, <2>2, SMTT(30) DEF onStart, NeedsService
  <2>3. CASE adapter = "on" /\ NeedsService
    <3>1. setupChat("started")
      BY <1>29, <2>3 DEF onStart
    <3>2. PICK w \in Workers : main' = [main EXCEPT !.chat = w,
                                   !.views = TRUE, !.life = "started"]
      BY <3>1, SetupChatFacts
    <3>3. /\ worker' \in [Workers -> Conditions]
          /\ \A x \in Workers : worker'[x] = "running" => worker[x] = "running"
      BY <3>1, SetupChatFacts
    <3>4. UNCHANGED <<stack, past, results, singleton, task, crash>>
      BY <1>29, <2>3 DEF onStart
    <3>5. main.chat = Null /\ main.life \in {"created", "stopped"}
      BY <1>29, <2>3 DEF onStart, NeedsService
    <3>6. Fields'
      BY <3>2, <3>3, <3>4
    <3>7. ServesMain'
      BY <3>2, <3>4, <3>5
    <3>8. RunningIsMain'
      BY <3>3, <3>4, <3>5, SMTT(30)
    <3> QED
      BY <3>2, <3>4, <3>5, <3>6, <3>7, <3>8, SMTT(30)
  <2> QED
    BY <1>29, <2>1, <2>2, <2>3 DEF onStart
<1>30. CASE ResultEnableBt
  <2>1. /\ UNCHANGED <<stack, past, singleton, task, crash>>
        /\ results # <<>> /\ results' = Tail(results)
        /\ main.life \in {"started", "paused"}
    BY <1>30 DEF ResultEnableBt, Returning, BeforeResume
  <2>2. results' \in Seq(Results) /\ AskedKnown'
    BY <2>1, SMTT(30)
  <2>3. CASE Head(results) = "refused"
    <3>1. main' = [main EXCEPT !.ending = "finish"] /\ worker' = worker
      BY <1>30, <2>3 DEF ResultEnableBt
    <3>2. Fields'
      BY <2>1, <2>2, <3>1
    <3>3. ServesMain' /\ RunningIsMain'
      BY <2>1, <3>1
    <3> QED
      BY <2>1, <2>2, <3>1, <3>2, <3>3
  <2>4. CASE Head(results) = "enabled"
    <3>1. past.asked
      BY <2>1, <2>4, SMTT(30)
    <3>2. setupChat(main.life)
      BY <1>30, <2>4 DEF ResultEnableBt
    <3> PICK w \in Workers : main' = [main EXCEPT !.chat = w,
                                   !.views = TRUE, !.life = main.life]
      BY <3>2, SetupChatFacts
    <3>3. worker' \in [Workers -> Conditions]
      BY <3>2, SetupChatFacts
    <3>4. Fields'
      BY <2>1, <2>2, <3>3
    <3> QED
      BY <2>1, <2>2, <3>1, <3>3, <3>4
  <2> QED
    BY <1>30, <2>3, <2>4 DEF ResultEnableBt
<1>31. CASE onDestroy
  <2>1. /\ main' \in [life : Lives, chat : Workers \cup {Null},
                      views : BOOLEAN, disp : BOOLEAN,
                      auto : {Null, "off", "on"},
                      ending : {"no", "finish", "relaunch", "anew"},
                 restore : BOOLEAN]
        /\ main'.life \in {"none", "saved"} /\ ~main'.disp
    BY <1>31 DEF onDestroy, NoMain
  <2>2. worker' \in [Workers -> Conditions] /\ RunningIsMain'
    BY <1>31 DEF onDestroy, Collected, ServiceStopped
  <2>3. results' \in Seq(Results) /\ AskedKnown'
    BY <1>31, SMTT(30) DEF onDestroy
  <2> QED
    BY <1>31, <2>1, <2>2, <2>3 DEF onDestroy
<1>32. CASE TenKeyResume
  <2>1. Fields'
    BY <1>32 DEF TenKeyResume, getSingleton
  <2> QED
    BY <1>32, <2>1, SMTT(30) DEF TenKeyResume, getSingleton
<1>33. CASE AnswerEnable
  <2>1. stack' \in Seq(Covers)
    BY <1>33, SMTT(30) DEF AnswerEnable, Top, Pop
  <2>2. results' \in Seq(Results)
    <3>1. PICK answer \in {"enabled", "refused"} :
            results' = Append(results, answer)
      BY <1>33 DEF AnswerEnable
    <3> QED
      BY <3>1, SMTT(30)
  <2>3. past.asked
    BY <1>33, SMTT(30) DEF AnswerEnable, Top
  <2> QED
    BY <1>33, <2>1, <2>2, <2>3, SMTT(30) DEF AnswerEnable
<1>34. CASE onItemClick
  <2>1. CASE UNCHANGED <<stack, results>>
    BY <1>34, <2>1, SMTT(30) DEF onItemClick
  <2>2. ASSUME NEW address \in {"connect", "badAddress"},
               results' = Append(results, address), stack' = Pop
        PROVE  LInv'
    <3>1. stack' \in Seq(Covers) /\ results' \in Seq(Results)
      BY <1>34, <2>2, SMTT(30) DEF onItemClick, Top, Pop
    <3>2. \A i \in DOMAIN results' : results'[i] = "enabled"
             => \E j \in DOMAIN results : results[j] = "enabled"
      BY <2>2, SMTT(30)
    <3>3. \A i \in DOMAIN stack' : i \in DOMAIN stack /\ stack'[i] = stack[i]
      BY <1>34, <2>2, SMTT(30) DEF onItemClick, Top, Pop
    <3>4. AskedKnown'
      BY <1>34, <3>2, <3>3, SMTT(30) DEF onItemClick
    <3> QED
      BY <1>34, <2>2, <3>1, <3>4, SMTT(30) DEF onItemClick
  <2> QED
    BY <1>34, <2>1, <2>2 DEF onItemClick
<1>35. CASE Up
  <2>1. /\ main' \in [life : Lives, chat : Workers \cup {Null},
                      views : BOOLEAN, disp : BOOLEAN,
                      auto : {Null, "off", "on"},
                      ending : {"no", "finish", "relaunch", "anew"},
                      restore : BOOLEAN]
        /\ main'.life \in {"none", "stopped"}
        /\ main'.life = "none" => ~main'.disp /\ main.life = "saved"
        /\ main'.life = "stopped" => main.life = "stopped"
                                     /\ main'.chat = main.chat
                                     /\ main'.disp = main.disp
    BY <1>35 DEF Up, NoMain
  <2>2. /\ stack' \in Seq(Covers) /\ results' \in Seq(Results) /\ AskedKnown'
    BY <1>35, SMTT(30) DEF Up
  <2>3. RunningIsMain'
    BY <1>35, <2>1 DEF Up
  <2> QED
    BY <1>35, <2>1, <2>2, <2>3 DEF Up
<1>36. CASE CancelledThreadsEnd
  <2>1. PICK w \in Workers, after \in {"stopped", "revived"} :
          worker' = Collected([worker EXCEPT ![w] = after],
                              {main.chat, singleton.service})
    BY <1>36 DEF CancelledThreadsEnd
  <2>2. /\ worker' \in [Workers -> Conditions]
        /\ \A x \in Workers : worker'[x] = "running" => worker[x] = "running"
    BY <2>1 DEF Collected
  <2>3. UNCHANGED <<stack, results, main, singleton, task, crash, past>>
    BY <1>36 DEF CancelledThreadsEnd
  <2>4. Fields'
    <3> HIDE DEF Lives, Conditions, Results, Covers, LInv, NullServiceHasCause
    <3>1. Fields
      BY DEF LInv
    <3> QED
      BY <2>2, <2>3, <3>1, SMTT(30)
  <2>5. RunningIsMain'
    BY <2>2, <2>3
  <2>6. /\ SingletonExcused' /\ ChatExcused' /\ Born' /\ AskedKnown'
        /\ NoFields' /\ FirstMain' /\ ServesMain'
    BY <2>3
  <2>7. NullServiceHasCause'
    BY <2>3
  <2> HIDE DEF Fields, SingletonExcused, ChatExcused, Born, AskedKnown, NoFields,
               RunningIsMain, FirstMain, ServesMain, NullServiceHasCause
  <2> QED
    BY <2>4, <2>5, <2>6, <2>7 DEF LInv
<1> QED
  BY <1>0, <1>1, <1>2, <1>3, <1>4, <1>5, <1>6, <1>7, <1>8, <1>9, <1>10,
     <1>11, <1>12, <1>13, <1>14, <1>15, <1>16, <1>17, <1>18, <1>19, <1>20,
     <1>21, <1>22, <1>23, <1>24, <1>25, <1>26, <1>27, <1>28, <1>29, <1>30,
     <1>31, <1>32, <1>33, <1>34, <1>35, <1>36
  DEF Next, Callbacks, FileTask, User

\* The invariant holds in every state of the app.
THEOREM LifecycleInvariant == Spec => []LInv
BY InitInv, StepInv, PTL DEF Spec

\* sendByte (DispatcherSingleton) dereferences a null service only after a
\* request to enable Bluetooth, or after the ten-key pad came first.
THEOREM NullServiceCause == Spec => []NullServiceHasCause
<1>1. LInv => NullServiceHasCause
  BY DEF LInv
<1> QED
  BY <1>1, LifecycleInvariant, PTL

\* Where Bluetooth was never asked for, onDestroy leaves no service behind that
\* it has not told to stop().  (What stop() leaves behind is another matter.)
THEOREM OthersAreStopped == Spec => []OthersStopped
<1>1. LInv => OthersStopped
  BY DEF LInv, RunningIsMain, OthersStopped
<1> QED
  BY <1>1, LifecycleInvariant, PTL

\* getSingleton hands the first main activity of a process its own service.
THEOREM SingletonServes == Spec => []SingletonServesMain
<1>1. LInv => SingletonServesMain
  BY SMTT(30) DEF LInv, Fields, Born, ServesMain, Excused, InMain, SingletonServesMain
<1> QED
  BY <1>1, LifecycleInvariant, PTL

-----------------------------------------------------------------------------
(* What the user chose on a list, and the callback it is delivered to.     *)

\* One of X is in the sequence s.
Holds(s, X) == \E i \in DOMAIN s : s[i] \in X

\* What Append, Tail and dropping the last element do to it.
LEMMA AppendHolds ==
    ASSUME NEW S, NEW s \in Seq(S), NEW e \in S, NEW X
    PROVE  Holds(Append(s, e), X) <=> e \in X \/ Holds(s, X)
<1>1. /\ Len(s) \in Nat /\ DOMAIN s = 1..Len(s)
      /\ DOMAIN Append(s, e) = 1..Len(s) + 1
      /\ \A i \in 1..Len(s) : Append(s, e)[i] = s[i]
      /\ Append(s, e)[Len(s) + 1] = e
  BY LenProperties, AppendProperties, SMTT(30)
<1> QED
  BY <1>1, SMTT(30) DEF Holds

\* The first answer is delivered: the rest still holds the others.
LEMMA TailHolds ==
    ASSUME NEW S, NEW s \in Seq(S), s # <<>>, NEW X
    PROVE  Holds(s, X) <=> Head(s) \in X \/ Holds(Tail(s), X)
<1> DEFINE n == Len(s)
<1>1. n \in Nat \ {0} /\ DOMAIN s = 1..n /\ Head(s) = s[1]
  BY LenProperties, EmptySeq, SMTT(30)
<1>2. /\ DOMAIN Tail(s) = 1..n - 1
      /\ \A i \in 1..n - 1 : Tail(s)[i] = s[i + 1]
  BY LenProperties, HeadTailProperties
<1> HIDE DEF n
<1>3. ASSUME NEW i \in 1..n, s[i] \in X, i # 1
      PROVE  Holds(Tail(s), X)
  <2>1. i - 1 \in 1..n - 1 /\ (i - 1) + 1 = i
    BY <1>1, <1>3, SMTT(30)
  <2> QED
    BY <1>2, <1>3, <2>1 DEF Holds
<1>4. ASSUME NEW i \in 1..n - 1, Tail(s)[i] \in X
      PROVE  Holds(s, X)
  <2>1. i + 1 \in 1..n
    BY <1>1, SMTT(30)
  <2> QED
    BY <1>1, <1>2, <1>4, <2>1 DEF Holds
<1> QED
  BY <1>1, <1>2, <1>3, <1>4, SMTT(30) DEF Holds

\* The top of the activity stack is left.
LEMMA PopHolds ==
    ASSUME NEW S, NEW s \in Seq(S), s # <<>>, NEW X
    PROVE  Holds(s, X) <=> \/ s[Len(s)] \in X
                           \/ Holds(SubSeq(s, 1, Len(s) - 1), X)
<1> DEFINE n == Len(s)
           t == SubSeq(s, 1, n - 1)
<1>1. n \in Nat \ {0} /\ DOMAIN s = 1..n
  BY LenProperties, EmptySeq
<1>2. DOMAIN t = 1..n - 1 /\ \A i \in 1..n - 1 : t[i] = s[i]
  BY <1>1, SMTT(30)
<1> HIDE DEF n, t
<1>3. ASSUME NEW i \in 1..n, s[i] \in X, i # n
      PROVE  Holds(t, X)
  <2>1. i \in 1..n - 1
    BY <1>1, <1>3, SMTT(30)
  <2> QED
    BY <1>2, <1>3, <2>1 DEF Holds
<1>4. ASSUME NEW i \in 1..n - 1, t[i] \in X
      PROVE  Holds(s, X)
  <2>1. i \in 1..n
    BY <1>1, SMTT(30)
  <2> QED
    BY <1>1, <1>2, <1>4, <2>1 DEF Holds
<1>5. n \in 1..n
  BY <1>1, SMTT(30)
<1>6. Holds(s, X) <=> s[n] \in X \/ Holds(t, X)
  BY <1>1, <1>2, <1>3, <1>4, <1>5 DEF Holds
<1> QED
  BY <1>6 DEF n, t

\* An empty sequence holds nothing.
LEMMA EmptyHolds == ASSUME NEW X PROVE ~Holds(<<>>, X)
BY SMTT(30) DEF Holds

\* A list or the ten-key pad is opened from the bare main activity: only the
\* system's Bluetooth dialog is ever put on top of something.
ChosenFirst == \A i \in DOMAIN stack : stack[i] # "enable" => i = 1

ListType ==
    list \in [life : {"none", "up", "dying"}, scan : BOOLEAN, none : BOOLEAN]

\* A device list on the stack has not been destroyed.
ListIsUp == Holds(stack, {"devices"}) => list.life = "up"

\* Nothing is left of an app whose main activity is gone.
NothingLeft == main.life = "none" => results = <<>> /\ (front => stack = <<>>)

\* onActivityResult comes before onResume, except in an activity that ends.
Delivered == main.life = "resumed" /\ main.ending = "no" => results = <<>>

\* An activity is relaunched, or replaced, from under nothing.
Relaunched ==
    main.ending \in {"relaunch", "anew"} \/ (main.life = "saved" /\ ~past.killed)
        => stack = <<>> /\ results = <<>>

\* onResume set the dispatcher and the trackpad view.
Shown == main.life \in {"resumed", "paused", "stopped"} => main.disp

\* Only a missing adapter ends an activity in onCreate.
NoAdapter == main.life = "created" /\ main.ending # "no" => adapter = "absent"

\* An activity without a service is waiting for the answer of the dialog.
Answered ==
    /\ ~past.killed /\ main.ending = "no" /\ main.chat = Null
    /\ main.life \in {"started", "resumed", "paused", "stopped"}
    => Holds(stack, {"enable"}) \/ Holds(results, {"enabled", "refused"})

\* A choice is made, and delivered, over an activity that has its fields.
ChoiceFinds ==
    /\ ~past.killed /\ main.life # "none"
    /\ Holds(stack, {"devices", "files"}) \/ Holds(results, {"connect", "file"})
    => main.chat # Null /\ main.disp

\* No list is opened while a chosen device is still to be connected to.
OneChoice == Holds(stack, {"devices"}) => ~Holds(results, {"connect"})

\* DiscoveryEnds, in these terms.
Discovery ==
    /\ discovering => list.life # "none" \/ past.killed
    /\ Holds(results, {"connect"}) => ~discovering

\* The inductive invariant of the choices.
CInv ==
    /\ ChosenFirst /\ ListType /\ ListIsUp /\ NothingLeft /\ Delivered
    /\ Relaunched /\ Shown /\ NoAdapter /\ Answered /\ ChoiceFinds /\ OneChoice
    /\ Discovery /\ CallbacksFindTheirFields

\* Before the application is launched there is nothing to choose.
LEMMA InitChoice == Init => CInv
BY EmptyHolds, SMTT(30)
   DEF Init, CInv, ChosenFirst, ListType, ListIsUp, NothingLeft, Delivered,
       Relaunched, Shown, NoAdapter, Answered, ChoiceFinds, OneChoice,
       Discovery, CallbacksFindTheirFields, NoMain, NoList, NoPast

\* Steps that leave the activities, their results and the list alone.
LEMMA FrameChoice ==
    ASSUME CInv,
           UNCHANGED <<adapter, front, stack, results, main, list, discovering,
                       past>>,
           crash' \notin {"noChat", "noDispatcher", "noAdapter"}
    PROVE  CInv'
BY SMTT(30) DEF CInv, ChosenFirst, ListType, ListIsUp, NothingLeft, Delivered,
       Relaunched, Shown, NoAdapter, Answered, ChoiceFinds, OneChoice,
       Discovery, CallbacksFindTheirFields

\* A list or the ten-key pad on top is all that is on the stack.
LEMMA ChosenAlone ==
    ASSUME stack \in Seq(Covers), ChosenFirst,
           Top \in {"devices", "files", "tenkey"}
    PROVE  stack # <<>> /\ Top = stack[Len(stack)] /\ Pop = <<>>
<1>1. stack # <<>> /\ Top = stack[Len(stack)]
  BY DEF Top
<1>2. Len(stack) \in Nat \ {0} /\ DOMAIN stack = 1..Len(stack)
  BY <1>1, LenProperties, EmptySeq
<1>3. Len(stack) = 1
  BY <1>1, <1>2, SMTT(30) DEF ChosenFirst
<1> QED
  BY <1>1, <1>3, SMTT(30) DEF Pop

\* Every step keeps it, given the types.
LEMMA StepChoice == Fields /\ CInv /\ [Next]_vars => CInv'
<1> SUFFICES ASSUME Fields, CInv, [Next]_vars PROVE CInv'
  OBVIOUS
<1> DEFINE Frame == /\ UNCHANGED <<adapter, front, stack, results, main, list,
                                   discovering, past>>
                    /\ crash' \notin {"noChat", "noDispatcher", "noAdapter"}
<1>0. CASE UNCHANGED vars
  BY <1>0, SMTT(30) DEF vars, CInv, ChosenFirst, ListType, ListIsUp, NothingLeft,
       Delivered, Relaunched, Shown, NoAdapter, Answered, ChoiceFinds,
       OneChoice, Discovery, CallbacksFindTheirFields
<1>1. CASE FileTask \/ TypeCharacter \/ PressButton \/ TenKeyPress \/ CancelFile
           \/ CancelledThreadsEnd
  <2>1. Frame
    BY <1>1 DEF FileTask, FileByte, FileTest, FileFails, onPostExecute,
         TypeCharacter, PressButton, TenKeyPress, CancelFile,
         CancelledThreadsEnd, InMain, Untouched, Running, sendByte
  <2> QED
    BY <2>1, FrameChoice
<1>2. UNCHANGED stack => ChosenFirst'
  BY DEF CInv, ChosenFirst
<1> USE DEF Running, CInv, ListType, ListIsUp, NothingLeft,
       Delivered, Relaunched, Shown, NoAdapter, Answered, ChoiceFinds,
       OneChoice, Discovery, CallbacksFindTheirFields
<1>3. CASE onCreate
  <2>1. (stack = <<>> /\ results = <<>>) \/ past.killed
    BY <1>3 DEF onCreate, Visible, Fields
  <2>2. past' = [past EXCEPT !.mains = past'.mains]
    BY <1>3 DEF onCreate, Fields
  <2>3. past'.killed = past.killed
    BY <2>2 DEF Fields
  <2> QED
    BY <1>2, <1>3, <2>1, <2>3, EmptyHolds DEF onCreate, NoMain
<1>4. CASE RestoreText
  BY <1>2, <1>4, SMTT(30) DEF RestoreText, Fields
<1>5. CASE onResume
  BY <1>2, <1>5, SMTT(30) DEF onResume, BeforeResume, Returning, Fields
<1>6. CASE onPause
  BY <1>2, <1>6 DEF onPause, Fields
<1>7. CASE onStop
  BY <1>2, <1>7, SMTT(30) DEF onStop, Fields
<1>8. CASE onDestroy
  <2>1. /\ main'.ending = "no" /\ main'.life \in {"none", "saved"}
        /\ main'.life = "saved" <=> main.ending = "relaunch"
        /\ UNCHANGED <<adapter, stack, list, discovering, past>>
    BY <1>8 DEF onDestroy, NoMain
  <2>2. CallbacksFindTheirFields'
    BY <1>8, <2>1 DEF onDestroy
  <2>3. CASE main.ending = "relaunch"
    BY <1>2, <1>8, <2>1, <2>2, <2>3, EmptyHolds, SMTT(30) DEF onDestroy
  <2>4. CASE main.ending # "relaunch"
    <3>1. results' = <<>> /\ main'.life = "none" /\ (front' => stack = <<>>)
      BY <1>8, <2>1, <2>4 DEF onDestroy
    <3> QED
      BY <1>2, <2>1, <2>2, <3>1, EmptyHolds
  <2> QED
    BY <2>3, <2>4
<1>9. CASE TenKeyResume
  <2>1. past'.killed = past.killed
    BY <1>9 DEF TenKeyResume, Fields
  <2> QED
    BY <1>2, <1>9, <2>1 DEF TenKeyResume
<1>10. CASE ListDestroyed
  BY <1>2, <1>10 DEF ListDestroyed, NoList
<1>11. CASE ToggleAutoSend
  BY <1>2, <1>11 DEF ToggleAutoSend, InMain, Untouched, Fields
<1>12. CASE LeaveMain
  BY <1>2, <1>12 DEF LeaveMain, InMain, Untouched, Fields
<1>13. CASE Rotate
  BY <1>2, <1>13 DEF Rotate, InMain, Untouched, Fields
<1>14. CASE doDiscovery
  <2>1. Holds(stack, {"devices"})
    <3>1. stack # <<>> /\ stack[Len(stack)] = "devices"
      BY <1>14, ChosenAlone DEF doDiscovery, Fields
    <3> QED
      BY <3>1, PopHolds DEF Fields
  <2> QED
    BY <1>2, <1>14, <2>1 DEF doDiscovery
<1>15. CASE onReceive
  BY <1>2, <1>15 DEF onReceive
<1>16. CASE GoHome
  BY <1>2, <1>16 DEF GoHome
<1>17. CASE BluetoothOff
  BY <1>2, <1>17, SMTT(30) DEF BluetoothOff
<1>18. CASE Launch
  <2>1. ChosenFirst' /\ (stack' = stack \/ (stack' = <<>> /\ main.life = "none"))
    <3>1. stack' = stack \/ (stack' = <<>> /\ main.life = "none")
      BY <1>18 DEF Launch
    <3>2. stack' = <<>> => ChosenFirst'
      BY SMTT(30) DEF ChosenFirst
    <3> QED
      BY <1>2, <3>1, <3>2
  <2> QED
    BY <1>18, <2>1, EmptyHolds DEF Launch
<1>19. CASE KillProcess
  <2>1. /\ past'.killed
        /\ main'.life = IF main.life = "none" THEN "none" ELSE "saved"
        /\ main'.ending = "no"
    BY <1>19 DEF KillProcess, NoMain, NoPast
  <2>2. ListType' /\ ListIsUp'
    BY <1>19 DEF KillProcess, NoList, Holds
  <2> QED
    BY <1>2, <1>19, <2>1, <2>2, SMTT(30) DEF KillProcess
<1>20. CASE ResultConnect \/ ResultFile \/ ResultEnableBt
  <2>1. /\ results # <<>> /\ results' = Tail(results)
        /\ main.life \in {"started", "paused"} /\ main.ending = "no"
        /\ UNCHANGED <<adapter, front, stack, list, discovering, past>>
    BY <1>20 DEF ResultConnect, ResultFile, ResultEnableBt, Returning,
         BeforeResume
  <2>2. /\ \A X : Holds(results, X) <=> Head(results) \in X \/ Holds(results', X)
    BY <2>1, TailHolds DEF Fields
  <2>3. CASE ResultConnect
    BY <1>2, <2>1, <2>2, <2>3, SMTT(30) DEF ResultConnect
  <2>4. CASE ResultFile
    BY <1>2, <2>1, <2>2, <2>4, SMTT(30) DEF ResultFile
  <2>5. CASE ResultEnableBt /\ Head(results) = "refused"
    <3>1. /\ main'.life = main.life /\ main'.disp = main.disp
          /\ main'.ending = "finish" /\ main'.chat = main.chat /\ crash' = "no"
      BY <2>1, <2>5 DEF ResultEnableBt, Returning, BeforeResume, Fields
    <3> QED
      BY <1>2, <2>1, <2>2, <3>1
  <2>6. CASE ResultEnableBt /\ Head(results) = "enabled"
    <3>1. setupChat(main.life) /\ crash' = "no"
      BY <2>1, <2>6 DEF ResultEnableBt, Returning, BeforeResume
    <3>2. PICK w \in Workers : main' = [main EXCEPT !.chat = w,
                                   !.views = TRUE, !.life = main.life]
      BY <3>1, SetupChatFacts DEF Fields
    <3>3. w # Null
      BY LifecycleAssumption
    <3> QED
      BY <1>2, <2>1, <2>2, <3>1, <3>2, <3>3 DEF Fields
  <2> QED
    BY <1>20, <2>3, <2>4, <2>5, <2>6 DEF ResultEnableBt
<1>21. CASE onStart
  <2>1. /\ main.life \in {"created", "stopped"} /\ main.ending = "no"
        /\ crash' = "no"
        /\ UNCHANGED <<adapter, front, results, list, discovering>>
    BY <1>21 DEF onStart
  <2>2. CASE adapter = "off"
    <3>1. /\ stack' = Append(stack, "enable") /\ past'.killed = past.killed
          /\ main' = [main EXCEPT !.life = "started"]
      BY <1>21, <2>2 DEF onStart, Fields
    <3>2. \A X : Holds(stack', X) <=> "enable" \in X \/ Holds(stack, X)
      BY <3>1, AppendHolds, SMTT(30) DEF Fields, Covers
    <3>3. ChosenFirst'
      BY <3>1, AppendProperties, LenProperties, SMTT(30) DEF ChosenFirst, Fields, Covers
    <3> QED
      BY <2>1, <3>1, <3>2, <3>3 DEF Fields
  <2>3. CASE adapter = "on" /\ ~NeedsService
    BY <1>2, <1>21, <2>1, <2>3, SMTT(30) DEF onStart, NeedsService, Fields
  <2>4. CASE adapter = "on" /\ NeedsService
    <3>1. setupChat("started") /\ UNCHANGED <<stack, past>>
      BY <1>21, <2>4 DEF onStart
    <3>2. PICK w \in Workers : main' = [main EXCEPT !.chat = w,
                                   !.views = TRUE, !.life = "started"]
      BY <3>1, SetupChatFacts DEF Lives
    <3>3. w # Null
      BY LifecycleAssumption
    <3> QED
      BY <1>2, <2>1, <3>1, <3>2, <3>3 DEF Fields
  <2> QED
    BY <1>21, <2>2, <2>3, <2>4 DEF onStart
<1>22. CASE MenuItem
  <2>1. PICK c \in Covers \ {"enable"} :
          /\ stack' = Append(stack, c)
          /\ \/ c = "devices"
                /\ list' = [life |-> "up", scan |-> TRUE, none |-> FALSE]
             \/ c # "devices" /\ list' = list
    BY <1>22 DEF MenuItem
  <2>2. /\ stack = <<>> /\ results = <<>> /\ main.life = "resumed"
        /\ main.ending = "no" /\ crash' \in {"no", "noFolder"}
        /\ UNCHANGED <<adapter, front, results, main, discovering, past>>
    BY <1>22 DEF MenuItem, InMain
  <2>3. \A X : Holds(stack', X) <=> c \in X
    BY <2>1, <2>2, AppendHolds, EmptyHolds DEF Fields
  <2>4. ChosenFirst'
    BY <2>1, <2>2, SMTT(30) DEF ChosenFirst
  <2>5. past.killed \/ (main.chat # Null /\ main.disp)
    BY <2>2, EmptyHolds
  <2>6. \A X : ~Holds(results', X)
    BY <2>2, EmptyHolds
  <2>7. ListType' /\ ListIsUp'
    <3>1. CASE c = "devices"
      <4>1. list' = [life |-> "up", scan |-> TRUE, none |-> FALSE]
        BY <2>1, <3>1
      <4>2. list'.life = "up"
        BY <4>1
      <4>3. ListType'
        BY <4>1
      <4> QED
        BY <4>2, <4>3
    <3>2. CASE c # "devices"
      <4>1. ~Holds(stack', {"devices"})
        BY <2>3, <3>2
      <4> QED
        BY <2>1, <3>2, <4>1
    <3> QED
      BY <3>1, <3>2
  <2>8. Discovery'
    BY <2>1, <2>2, <2>6, SMTT(30)
  <2> QED
    BY <2>2, <2>4, <2>5, <2>6, <2>7, <2>8
<1>23. CASE AnswerEnable
  <2>1. PICK answer \in {"enabled", "refused"} :
          results' = Append(results, answer)
    BY <1>23 DEF AnswerEnable
  <2>2. /\ stack # <<>> /\ stack[Len(stack)] = "enable" /\ stack' = Pop
        /\ main.life = "paused" /\ crash' = "no"
        /\ UNCHANGED <<front, main, list, discovering, past>>
    BY <1>23 DEF AnswerEnable, Top
  <2>3. \A X : Holds(results', X) <=> answer \in X \/ Holds(results, X)
    <3>1. answer \in Results
      BY DEF Results
    <3> QED
      BY <2>1, <3>1, AppendHolds DEF Fields
  <2>4. \A X : Holds(stack, X) <=> "enable" \in X \/ Holds(stack', X)
    BY <2>2, PopHolds, SMTT(30) DEF Fields, Pop
  <2>5. ChosenFirst'
    BY <2>2, SMTT(30) DEF ChosenFirst, Fields, Pop
  <2> QED
    BY <2>1, <2>2, <2>3, <2>4, <2>5
<1>24. CASE onItemClick \/ FileChosen \/ Back
  <2>1. /\ Top \in {"devices", "files", "tenkey"}
        /\ main.life \in {"paused", "stopped", "saved"}
        /\ UNCHANGED <<adapter, front, main, past>>
    BY <1>24 DEF onItemClick, FileChosen, Back
  <2>2. stack # <<>> /\ Top = stack[Len(stack)] /\ Pop = <<>>
    BY <2>1, ChosenAlone DEF Fields
  <2>3. \A X : Holds(stack, X) <=> Top \in X
    BY <2>2, PopHolds, EmptyHolds DEF Fields, Pop
  <2>4. stack' = Pop => ChosenFirst' /\ \A X : ~Holds(stack', X)
    BY <2>2, EmptyHolds, SMTT(30) DEF ChosenFirst
  <2>5. CASE Back
    BY <2>1, <2>2, <2>3, <2>4, <2>5 DEF Back
  <2>6. CASE FileChosen
    <3>1. \A X : Holds(results', X) <=> "file" \in X \/ Holds(results, X)
      <4>1. "file" \in Results
        BY DEF Results
      <4> QED
        BY <2>6, <4>1, AppendHolds DEF FileChosen, Fields
    <3> QED
      BY <2>1, <2>2, <2>3, <2>4, <2>6, <3>1, SMTT(30) DEF FileChosen
  <2>7. CASE onItemClick /\ UNCHANGED <<stack, results, list>>
    BY <1>2, <2>7 DEF onItemClick, DiscoveryAfterClick
  <2>8. CASE onItemClick /\ ~UNCHANGED <<stack, results, list>>
    <3>1. PICK address \in {"connect", "badAddress"} :
            results' = Append(results, address)
      BY <2>8 DEF onItemClick
    <3>2. \A X : Holds(results', X) <=> address \in X \/ Holds(results, X)
      <4>1. address \in Results
        BY DEF Results
      <4> QED
        BY <3>1, <4>1, AppendHolds DEF Fields
    <3>3. /\ list' = [list EXCEPT !.life = "dying"] /\ stack' = Pop
          /\ crash' = "no" /\ discovering' = FALSE
          /\ Top = "devices" /\ main.life = "paused"
      BY <2>8 DEF onItemClick, DiscoveryAfterClick
    <3>4. ListType' /\ Discovery'
      BY <3>3
    <3>5. past.killed \/ (main.chat # Null /\ main.disp)
      BY <2>3, <3>3, SMTT(30)
    <3> QED
      BY <2>1, <2>2, <2>4, <3>2, <3>3, <3>4, <3>5
  <2> QED
    BY <1>24, <2>5, <2>6, <2>7, <2>8
<1>25. CASE Up
  <2>1. /\ stack' = <<>> /\ results' = <<>> /\ crash' = "no"
        /\ UNCHANGED <<adapter, front, list, discovering, past>>
        /\ main'.life \in {"none", "stopped"}
        /\ main'.life = "none" => main'.ending = "no"
        /\ main'.life = "stopped" => main.life = "stopped"
                                     /\ main'.disp = main.disp
                                     /\ main'.ending = "anew"
    BY <1>25 DEF Up, NoMain, Fields
  <2>2. ChosenFirst'
    BY <2>1, SMTT(30) DEF ChosenFirst
  <2> QED
    BY <2>1, <2>2, EmptyHolds
<1> QED
  BY <1>0, <1>1, <1>3, <1>4, <1>5, <1>6, <1>7, <1>8, <1>9, <1>10, <1>11,
     <1>12, <1>13, <1>14, <1>15, <1>16, <1>17, <1>18, <1>19, <1>20, <1>21,
     <1>22, <1>23, <1>24, <1>25
  DEF Next, Callbacks, User

\* The invariant of the choices holds in every state of the app.
THEOREM ChoiceInvariant == Spec => []CInv
<1>1. LInv => Fields
  BY DEF LInv
<1> QED
  BY <1>1, InitChoice, StepChoice, LifecycleInvariant, PTL DEF Spec

\* connectDevice finds mChatService and sendFile finds mDispatcher, unless the
\* process died in between; onStop and onDestroy find the trackpad view.
THEOREM FieldsFound == Spec => []CallbacksFindTheirFields
<1>1. CInv => CallbacksFindTheirFields
  BY DEF CInv
<1> QED
  BY <1>1, ChoiceInvariant, PTL

\* DeviceListActivity leaves no discovery behind, and none runs when
\* onActivityResult connects to the chosen device.
THEOREM DiscoveryStops == Spec => []DiscoveryEnds
<1>1. CInv => DiscoveryEnds
  BY DEF CInv, Discovery, DiscoveryEnds, Holds
<1> QED
  BY <1>1, ChoiceInvariant, PTL
-----------------------------------------------------------------------------
(* The file task.                                                          *)

\* A task that runs has a character, or the end of the file, left to read.
TaskInv ==
    /\ inst \in 0..MaxMains
    /\ task \in [step : {"idle", "running", "sleeping", "done"},
                 left : 0..MaxChars, canceled : BOOLEAN, dialog : 0..MaxMains]
    /\ task.step = "running" => task.left > 0

\* Steps of the file task left, at most, until onPostExecute has reset it.
StepsLeft ==
    CASE task.step = "idle"     -> 0
      [] task.step = "done"     -> 1
      [] task.step = "running"  -> 2 * task.left + 1
      [] task.step = "sleeping" -> 2 * task.left + 2

\* The steps that touch neither the task nor the number of main activities.
LEMMA TaskUntouched ==
    ASSUME Next, ~FileTask, ~onCreate, ~ResultFile, ~CancelFile, ~KillProcess
    PROVE  UNCHANGED <<task, inst>>
BY DEF Next, Callbacks, User, onStart, RestoreText, ResultConnect,
       ResultEnableBt, onResume, onPause, onStop, onDestroy, TenKeyResume,
       ListDestroyed, TypeCharacter, PressButton, ToggleAutoSend, MenuItem,
       LeaveMain, Rotate, AnswerEnable, doDiscovery, onReceive, onItemClick,
       FileChosen, TenKeyPress, Back, Up, GoHome, Launch, BluetoothOff,
       CancelledThreadsEnd, Untouched

\* A task whose background half is over.
LEMMA ReturnedTask ==
    ASSUME TaskInv
    PROVE  /\ Returned \in [step : {"idle", "running", "sleeping", "done"},
                            left : 0..MaxChars, canceled : BOOLEAN,
                            dialog : 0..MaxMains]
           /\ Returned.step = "done"
<1>1. 0 \in 0..MaxChars
  BY LifecycleAssumption, SMTT(30)
<1> QED
  BY <1>1 DEF TaskInv, Returned, NoTask

\* Every step keeps it.
LEMMA StepTask == TaskInv /\ [Next]_vars => TaskInv'
<1> SUFFICES ASSUME TaskInv, [Next]_vars PROVE TaskInv'
  OBVIOUS
<1> USE LifecycleAssumption DEF TaskInv
<1>1. CASE UNCHANGED <<task, inst>>
  BY <1>1
<1>2. CASE FileByte
  <2>1. task.left - 1 \in 0..MaxChars
    BY <1>2, SMTT(30) DEF FileByte
  <2> QED
    BY <1>2, <2>1 DEF FileByte
<1>3. CASE FileTest
  BY <1>3, ReturnedTask, SMTT(30) DEF FileTest, MoreToRead
<1>4. CASE FileFails
  BY <1>4, ReturnedTask, SMTT(30) DEF FileFails
<1>5. NoTask \in [step : {"idle", "running", "sleeping", "done"},
                  left : 0..MaxChars, canceled : BOOLEAN, dialog : 0..MaxMains]
        /\ NoTask.step = "idle"
  BY SMTT(30) DEF NoTask
<1>6. CASE onPostExecute \/ KillProcess
  BY <1>5, <1>6 DEF onPostExecute, TaskReset, KillProcess
<1>7. CASE onCreate
  BY <1>7, SMTT(30) DEF onCreate
<1>8. CASE ResultFile
  <2>1. CASE task' = task
    BY <1>8, <2>1 DEF ResultFile
  <2>2. ASSUME NEW n \in 1..MaxChars,
               task' = [step |-> "running", left |-> n, canceled |-> FALSE,
                        dialog |-> inst]
        PROVE  TaskInv'
    BY <1>8, <2>2, SMTT(30) DEF ResultFile
  <2> QED
    BY <1>8, <2>1, <2>2 DEF ResultFile
<1>9. CASE CancelFile
  <2>1. 0 \in 0..MaxMains
    BY SMTT(30)
  <2> QED
    BY <1>9, <2>1 DEF CancelFile
<1> QED
  BY <1>1, <1>2, <1>3, <1>4, <1>6, <1>7, <1>8, <1>9, TaskUntouched
  DEF vars, FileTask

\* The task never reads past the end of its file, whatever is cancelled,
\* rotated, hidden or killed meanwhile.
THEOREM TaskInBounds == Spec => []TaskInv
<1>1. Init => TaskInv
  BY LifecycleAssumption, SMTT(30) DEF Init, NoTask, TaskInv
<1> QED
  BY <1>1, StepTask, PTL DEF Spec

\* Once started the file task only comes nearer to its end: each of its own
\* steps does, unless an exception ends the process, and no callback, no second
\* file and nothing that the user does throws it back or replaces it.
TaskAdvances ==
    [][Running /\ task.step # "idle" =>
         \/ FileTask /\ (StepsLeft' < StepsLeft \/ crash' # "no")
         \/ ~FileTask /\ (StepsLeft' = StepsLeft \/ task'.step = "idle")]_vars

\* What FileTaskEnds leaves to fairness is that the task is scheduled: its
\* steps are counted down.
THEOREM TaskIsBounded ==
    Spec => [](StepsLeft \in 0..2 * MaxChars + 2) /\ TaskAdvances
<1>1. TaskInv => StepsLeft \in 0..2 * MaxChars + 2
  BY LifecycleAssumption, SMTT(30) DEF TaskInv, StepsLeft
<1>2. TaskInv /\ [Next]_vars =>
        [Running /\ task.step # "idle" =>
           \/ FileTask /\ (StepsLeft' < StepsLeft \/ crash' # "no")
           \/ ~FileTask /\ (StepsLeft' = StepsLeft \/ task'.step = "idle")]_vars
  <2> SUFFICES ASSUME TaskInv, Next, Running, task.step # "idle"
               PROVE  /\ FileTask => StepsLeft' < StepsLeft \/ crash' # "no"
                      /\ ~FileTask => StepsLeft' = StepsLeft \/ task'.step = "idle"
    OBVIOUS
  <2>1. CASE FileTask
    <3> SUFFICES StepsLeft' < StepsLeft \/ crash' # "no"
      BY <2>1
    <3>1. CASE FileByte
      BY <3>1, LifecycleAssumption, SMTT(30) DEF FileByte, TaskInv, StepsLeft
    <3>2. CASE FileTest \/ FileFails
      <4>1. \/ task' = Returned
            \/ task' = [task EXCEPT !.step = "running"] /\ task.step = "sleeping"
        BY <3>2 DEF FileTest, FileFails
      <4>2. task.step \in {"running", "sleeping"}
        BY <3>2 DEF FileTest, FileFails
      <4> QED
        BY <4>1, <4>2, ReturnedTask, LifecycleAssumption, SMTT(30)
        DEF TaskInv, StepsLeft
    <3>3. CASE onPostExecute
      BY <3>3, SMTT(30) DEF onPostExecute, TaskReset, NoTask, StepsLeft
    <3> QED
      BY <2>1, <3>1, <3>2, <3>3 DEF FileTask
  <2>2. CASE ~FileTask
    <3>1. CASE task' = task
      BY <2>2, <3>1 DEF StepsLeft
    <3>2. CASE CancelFile
      <4>1. task'.step = task.step /\ task'.left = task.left
        BY <3>2 DEF CancelFile, TaskInv
      <4> QED
        BY <2>2, <4>1 DEF StepsLeft
    <3>3. CASE KillProcess
      BY <2>2, <3>3 DEF KillProcess, NoTask
    <3>4. CASE onCreate \/ ResultFile
      BY <3>1, <3>4 DEF onCreate, ResultFile
    <3> QED
      BY <2>2, <3>1, <3>2, <3>3, <3>4, TaskUntouched DEF FileTask
  <2> QED
    BY <2>1, <2>2
<1> QED
  BY <1>1, <1>2, TaskInBounds, PTL DEF Spec, TaskAdvances

-----------------------------------------------------------------------------
(* Types.                                                                  *)

\* The fields that no other invariant is about.
OtherFields ==
    /\ adapter \in {"absent", "off", "on"} /\ front \in BOOLEAN
    /\ discovering \in BOOLEAN
    /\ crash \in {"no", "noAdapter", "nullService", "restoredText", "badRow",
                  "noFolder", "goneDialog", "noChat", "noDispatcher"}

\* The activity stack is bounded.
Shallow == Len(stack) =< MaxDepth

\* Every step keeps their types.
LEMMA StepOther == Fields /\ OtherFields /\ [Next]_vars => OtherFields'
<1> SUFFICES ASSUME Fields, OtherFields, [Next]_vars PROVE OtherFields'
  OBVIOUS
<1> USE DEF OtherFields
<1>1. CASE UNCHANGED vars
  BY <1>1 DEF vars
<1>2. CASE Callbacks
  BY <1>2
  DEF Callbacks, onCreate, onStart, RestoreText, ResultConnect, ResultFile,
      ResultEnableBt, onResume, onPause, onStop, onDestroy, TenKeyResume,
      ListDestroyed
<1>3. CASE FileTask
  BY <1>3 DEF FileTask, FileByte, FileTest, FileFails, onPostExecute, sendByte
<1>4. CASE User
  BY <1>4
  DEF User, TypeCharacter, PressButton, ToggleAutoSend, MenuItem, LeaveMain,
      Rotate, AnswerEnable, doDiscovery, onReceive, onItemClick,
      DiscoveryAfterClick, FileChosen, TenKeyPress, Back, Up, CancelFile,
      GoHome, Launch, BluetoothOff, KillProcess, Untouched, sendByte
<1>5. CASE CancelledThreadsEnd
  BY <1>5 DEF CancelledThreadsEnd
<1> QED
  BY <1>1, <1>2, <1>3, <1>4, <1>5 DEF Next

\* A sequence without its last element is one shorter.
LEMMA FrontLength ==
    ASSUME NEW S, NEW s \in Seq(S), Len(s) # 0
    PROVE  Len(SubSeq(s, 1, Len(s) - 1)) = Len(s) - 1
<1>1. Len(s) \in Nat /\ \A i \in 1..Len(s) : s[i] \in S
  BY LenProperties, ElementOfSeq
<1>2. PICK n \in Int : n = Len(s) - 1
  BY <1>1, SMTT(30)
<1>3. 1 \in Int /\ \A i \in 1..n : i \in 1..Len(s)
  BY <1>1, <1>2, SMTT(30)
<1>4. \A i \in 1..n : s[i] \in S
  BY <1>1, <1>3
<1>5. Len(SubSeq(s, 1, n)) = IF 1 <= n THEN n - 1 + 1 ELSE 0
  BY <1>3, <1>4, SubSeqProperties, SMTT(30)
<1>6. (IF 1 <= n THEN n - 1 + 1 ELSE 0) = n
  BY <1>1, <1>2, SMTT(30)
<1> QED
  BY <1>2, <1>5, <1>6

\* Every step keeps the bound.
LEMMA StepShallow == Fields /\ Shallow /\ [Next]_vars => Shallow'
<1> SUFFICES ASSUME Fields, Shallow, [Next]_vars PROVE Shallow'
  OBVIOUS
<1> USE LifecycleAssumption DEF Shallow
<1>1. CASE UNCHANGED stack
  BY <1>1
<1>2. stack \in Seq(Covers) /\ Len(stack) \in Nat
  BY LenProperties DEF Fields
<1>3. ASSUME NEW c \in Covers, stack' = Append(stack, c), Len(stack) < MaxDepth
      PROVE  Shallow'
  <2>1. Len(stack') = Len(stack) + 1
    BY <1>2, <1>3, AppendProperties
  <2> QED
    BY <1>2, <1>3, <2>1, SMTT(30)
<1>4. CASE stack' = Pop /\ stack # <<>>
  <2>1. Len(stack) # 0
    BY <1>2, <1>4, EmptySeq
  <2>2. Len(Pop) = Len(stack) - 1
    BY <1>2, <2>1, FrontLength DEF Pop
  <2> QED
    BY <1>2, <1>4, <2>2, SMTT(30)
<1>5. CASE stack' = <<>>
  BY <1>5, EmptySeq, SMTT(30)
<1>6. CASE onStart
  <2>1. "enable" \in Covers
    BY DEF Covers
  <2> QED
    BY <1>1, <1>3, <1>6, <2>1 DEF onStart
<1>7. CASE MenuItem
  BY <1>3, <1>7 DEF MenuItem
<1>8. CASE AnswerEnable \/ onItemClick \/ FileChosen \/ Back
  <2>1. stack' = stack \/ (stack' = Pop /\ Top # "main")
    BY <1>8 DEF AnswerEnable, onItemClick, FileChosen, Back
  <2> QED
    BY <1>1, <1>4, <2>1 DEF Top
<1>9. CASE Launch \/ Up
  BY <1>1, <1>5, <1>9 DEF Launch, Up
<1> QED
  BY <1>1, <1>6, <1>7, <1>8, <1>9
  DEF Next, vars, Callbacks, User, FileTask, onCreate, RestoreText,
      ResultConnect, ResultFile, ResultEnableBt, onResume, onPause, onStop,
      onDestroy, TenKeyResume, ListDestroyed, FileByte, FileTest, FileFails,
      onPostExecute, TypeCharacter, PressButton, ToggleAutoSend, LeaveMain,
      Rotate, doDiscovery, onReceive, TenKeyPress, CancelFile, GoHome,
      BluetoothOff, KillProcess, CancelledThreadsEnd, Untouched

\* The fields of the activities, the singleton, the services and the file task
\* keep their types.
THEOREM LifecycleTypes == Spec => []TypeOK
<1>1. Init => OtherFields /\ Shallow
  <2>1. Init => Shallow
    BY LifecycleAssumption, EmptySeq, SMTT(30) DEF Init, Shallow
  <2> QED
    BY <2>1, LifecycleAssumption DEF Init, OtherFields
<1>2. LInv => Fields
  BY DEF LInv
<1>3. Spec => [](OtherFields /\ Shallow)
  BY <1>1, <1>2, StepOther, StepShallow, LifecycleInvariant, PTL DEF Spec
<1>4. CInv => ListType
  BY DEF CInv
<1>5. Fields /\ OtherFields /\ Shallow /\ ListType /\ TaskInv => TypeOK
  <2>1. \A n \in {0, 1, 2} : n \in 0..2
    BY SMTT(30)
  <2>2. Fields => past \in [asked : BOOLEAN, tenFirst : BOOLEAN, mains : 0..2,
                            killed : BOOLEAN]
    BY <2>1 DEF Fields
  <2> QED
    BY <2>2
    DEF Fields, OtherFields, Shallow, ListType, TaskInv, TypeOK, Lives, Results,
        Conditions
<1> QED
  BY <1>2, <1>3, <1>4, <1>5, LifecycleInvariant, ChoiceInvariant, TaskInBounds,
     PTL
=============================================================================
