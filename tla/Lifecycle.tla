----------------------------- MODULE Lifecycle -----------------------------
(***************************************************************************)
(* The life of the application around the radio: the callbacks Android     *)
(* makes on MouseAndKeyboardActivity and the activities it covers itself   *)
(* with, the DispatcherSingleton that all of them share, the WorkerClass   *)
(* objects the main activity creates, and the one SendFileTask.            *)
(*                                                                         *)
(* One action is one callback on the main thread (the background half of   *)
(* the file task runs between them).  The order in which callbacks come is *)
(* Android's and is in the guards: onCreate, onStart, the restoring of the *)
(* view state, the results, onResume; onPause, onStop, onDestroy.  An      *)
(* activity that asks for another one in onStart is still resumed before   *)
(* it is paused.  A WorkerClass is reduced to whether it was created,      *)
(* started and stopped; module WorkerClass has the rest.                   *)
(***************************************************************************)
EXTENDS Naturals, Sequences, FiniteSets

CONSTANTS
    Workers,     \* WorkerClass objects of one process
    Adapters,    \* what the adapter may be at launch: "absent", "off", "on"
    MaxMains,    \* main activities created, over all processes
    MaxDepth,    \* activities on top of the main one
    MaxChars     \* reads of a file, the one that finds its end included

Null == "null"

ASSUME LifecycleAssumption ==
    /\ Null \notin Workers
    /\ Adapters \subseteq {"absent", "off", "on"}
    /\ MaxMains \in Nat /\ MaxDepth \in Nat \ {0} /\ MaxChars \in Nat \ {0}

NoSingleton == [born |-> FALSE, service |-> Null]

VARIABLES
    adapter,     \* BluetoothAdapter.getDefaultAdapter(), isEnabled()
    front,       \* our task is in the foreground
    stack,       \* what covers the main activity, topmost last
    main,        \* MouseAndKeyboardActivity: its fields and where it is
    inst,        \* number of main activities created so far
    results,     \* results on their way to onActivityResult
    singleton,   \* DispatcherSingleton.mSingleton and its mChatService
    worker,      \* every WorkerClass of this process
    task,        \* mActiveSendFileTask and mFileSendingDialog
    list,        \* DeviceListActivity: its rows and whether it is destroyed
    discovering, \* the adapter is discovering
    crash,       \* the exception that ended the process, or "no"
    past         \* history: what this process has been through

vars == <<adapter, front, stack, main, inst, results, singleton,
          worker, task, list, discovering, crash, past>>

NoMain == [life |-> "none", chat |-> Null, views |-> FALSE, disp |-> FALSE,
           auto |-> Null, ending |-> "no", restore |-> FALSE]
NoTask == [step |-> "idle", left |-> 0, canceled |-> FALSE, dialog |-> 0]
NoList == [life |-> "none", scan |-> FALSE, none |-> FALSE]
NoPast == [asked |-> FALSE, tenFirst |-> FALSE, mains |-> 0, killed |-> FALSE]

Covers == {"enable", "devices", "files", "tenkey"}

\* Types of the fields; a SendFileTask never counts below the end of its file.
TypeOK ==
    /\ adapter \in {"absent", "off", "on"} /\ front \in BOOLEAN
    /\ stack \in Seq(Covers) /\ Len(stack) =< MaxDepth
    /\ main \in [life : {"none", "saved", "created", "started", "resumed",
                         "paused", "stopped"},
                 chat : Workers \cup {Null}, views : BOOLEAN, disp : BOOLEAN,
                 auto : {Null, "off", "on"},
                 ending : {"no", "finish", "relaunch", "anew"}, restore : BOOLEAN]
    /\ inst \in 0..MaxMains
    /\ results \in Seq({"connect", "badAddress", "file", "enabled", "refused"})
    /\ singleton \in [born : BOOLEAN, service : Workers \cup {Null}]
    /\ worker \in [Workers -> {"unused", "created", "running", "stopping",
                              "stopped", "revived"}]
    /\ task \in [step : {"idle", "running", "sleeping", "done"}, left : 0..MaxChars,
                 canceled : BOOLEAN, dialog : 0..MaxMains]
    /\ list \in [life : {"none", "up", "dying"}, scan : BOOLEAN,
                 none : BOOLEAN]
    /\ discovering \in BOOLEAN
    /\ crash \in {"no", "noAdapter", "nullService", "restoredText", "badRow",
                  "noFolder", "goneDialog", "noChat", "noDispatcher"}
    /\ past \in [asked : BOOLEAN, tenFirst : BOOLEAN, mains : 0..2,
                 killed : BOOLEAN]

Init ==
    /\ adapter \in Adapters
    /\ front = FALSE /\ stack = <<>> /\ main = NoMain /\ inst = 0
    /\ results = <<>> /\ singleton = NoSingleton
    /\ worker = [w \in Workers |-> "unused"]
    /\ task = NoTask /\ list = NoList /\ discovering = FALSE
    /\ crash = "no" /\ past = NoPast

-----------------------------------------------------------------------------
(* What the activities can see of each other.                              *)
TenKeyUp == \E i \in DOMAIN stack : stack[i] = "tenkey"
Visible == front /\ ~TenKeyUp
Top == IF stack = <<>> THEN "main" ELSE stack[Len(stack)]
Pop == SubSeq(stack, 1, Len(stack) - 1)
Running == crash = "no"

\* The user has the main activity before them and can touch it.
InMain == Running /\ front /\ stack = <<>> /\ main.life = "resumed"
          /\ main.ending = "no"

\* Mutant: the constructor does not keep the service.
getSingletonUnserved(chatService) ==
    singleton' = [born |-> TRUE, service |-> Null]

\* getSingleton: the service argument counts for the first caller only.
getSingleton(chatService) ==
    singleton' = IF singleton.born THEN singleton
                 ELSE [born |-> TRUE, service |-> chatService]

\* sendByte dereferences the singleton's service, whatever it is.
sendByte ==
    /\ crash' = IF singleton.service = Null THEN "nullService" ELSE crash

\* setupChat: listeners on the views, and always a new WorkerClass.  The name
\* of an object that has no threads and that nothing refers to is free again.
Collected(ws, refs) ==
    [w \in Workers |-> IF ws[w] \in {"running", "stopping", "revived"}
                          \/ w \in refs THEN ws[w]
                       ELSE "unused"]
setupChat(life) ==
    /\ \E w \in Workers : worker[w] = "unused"
    /\ LET w == CHOOSE x \in Workers : worker[x] = "unused"
       IN  /\ worker' = Collected([worker EXCEPT ![w] = "created"],
                                  {w, singleton.service})
           /\ main' = [main EXCEPT !.chat = w, !.views = TRUE, !.life = life]

-----------------------------------------------------------------------------
(* MouseAndKeyboardActivity, in the order Android calls it.                *)

\* onCreate: without an adapter the activity finishes itself at once.
onCreate ==
    /\ Running /\ main.life \in {"none", "saved"} /\ Visible /\ inst < MaxMains
    /\ main' = [NoMain EXCEPT !.life = "created",
                              !.restore = (main.life = "saved"),
                              !.ending = IF adapter = "absent" THEN "finish"
                                         ELSE "no"]
    /\ inst' = inst + 1
    /\ past' = [past EXCEPT !.mains = IF @ = 2 THEN 2 ELSE @ + 1]
    /\ UNCHANGED <<adapter, front, stack, results, singleton, worker, task,
                   list, discovering, crash>>

\* Mutant: the test for a missing service is inverted.
HasService == main.chat # Null

NeedsService == main.chat = Null

\* onStart: ask for Bluetooth, or set the chat up if that was not done yet.
onStart ==
    /\ Running /\ main.life \in {"created", "stopped"} /\ main.ending = "no"
    /\ Visible
    /\ \/ /\ adapter = "off" /\ Len(stack) < MaxDepth
          /\ stack' = Append(stack, "enable")
          /\ main' = [main EXCEPT !.life = "started"]
          /\ past' = [past EXCEPT !.asked = TRUE]
          /\ UNCHANGED worker
       \/ /\ adapter = "on" /\ ~NeedsService
          /\ main' = [main EXCEPT !.life = "started"]
          /\ UNCHANGED <<stack, worker, past>>
       \/ /\ adapter = "on" /\ NeedsService
          /\ setupChat("started")
          /\ UNCHANGED <<stack, past>>
    /\ UNCHANGED <<adapter, front, inst, results, singleton, task, list,
                   discovering, crash>>

\* Android restores the text box of a re-created activity, be it empty: the
\* listener that setupChat installed then unboxes mAutoSend, which is null until
\* onResume sets it.
RestoreText ==
    /\ Running /\ main.life = "started" /\ main.restore
    /\ main' = [main EXCEPT !.restore = FALSE]
    /\ crash' = IF main.views /\ main.auto = Null THEN "restoredText" ELSE crash
    /\ UNCHANGED <<adapter, front, stack, inst, results, singleton,
                   worker, task, list, discovering, past>>

\* Results come right before onResume, also before the onResume of an
\* activity that has just asked for another one.
BeforeResume == /\ Running /\ front /\ ~main.restore
                /\ \/ main.life = "started" /\ Visible
                   \/ main.life = "paused" /\ stack = <<>>
Returning == BeforeResume /\ main.ending = "no" /\ results # <<>>

\* connectDevice: getRemoteDevice throws on a malformed address, and
\* mChatService may be null.
ResultConnect ==
    /\ Returning /\ Head(results) \in {"connect", "badAddress"}
    /\ results' = Tail(results)
    /\ crash' = IF Head(results) = "badAddress" THEN "badRow"
                ELSE IF main.chat = Null THEN "noChat" ELSE crash
    /\ UNCHANGED <<adapter, front, stack, main, inst, singleton, worker,
                   task, list, discovering, past>>

\* mDispatcher.sendFile: onResume has not set the field of an activity that
\* was just re-created; refused while a task is active, else a dialog and a
\* task.
ResultFile ==
    /\ Returning /\ Head(results) = "file"
    /\ results' = Tail(results)
    /\ \/ ~main.disp /\ crash' = "noDispatcher" /\ task' = task
       \/ main.disp /\ task.step # "idle" /\ UNCHANGED <<task, crash>>
       \/ /\ main.disp /\ task.step = "idle" /\ crash' = crash
          /\ \E n \in 1..MaxChars :
                task' = [step |-> "running", left |-> n, canceled |-> FALSE,
                         dialog |-> inst]
    /\ UNCHANGED <<adapter, front, stack, main, inst, singleton, worker,
                   list, discovering, past>>

ResultEnableBt ==
    /\ Returning /\ results' = Tail(results)
    /\ \/ /\ Head(results) = "enabled" /\ setupChat(main.life)
       \/ /\ Head(results) = "refused"
          /\ main' = [main EXCEPT !.ending = "finish"]
          /\ UNCHANGED worker
    /\ UNCHANGED <<adapter, front, stack, inst, singleton, task, list,
                   discovering, crash, past>>

\* Mutant: only a service that was stopped is started.
NeedsRestart(w) == worker[w] = "stopped"

\* getState() == STATE_NONE.
NeedsStart(w) == worker[w] \in {"created", "stopped"}

\* onResume; an activity that asked for Bluetooth in onStart gets here too.
onResume ==
    /\ BeforeResume /\ ~Returning
    /\ main.life = "paused" => main.ending = "no"
    /\ main' = [main EXCEPT !.life = "resumed", !.auto = "off", !.disp = TRUE]
    /\ worker' = [w \in Workers |->
                     IF w = main.chat /\ NeedsStart(w) THEN "running"
                     ELSE worker[w]]
    /\ getSingleton(main.chat)
    /\ UNCHANGED <<adapter, front, stack, inst, results, task, list,
                   discovering, crash, past>>

onPause ==
    /\ Running /\ main.life = "resumed"
    /\ ~front \/ stack # <<>> \/ main.ending # "no"
    /\ main' = [main EXCEPT !.life = "paused"]
    /\ UNCHANGED <<adapter, front, stack, inst, results, singleton,
                   worker, task, list, discovering, crash, past>>

\* onStop waits for the trackpad thread; mTrackPadView was set by onResume.
onStop ==
    /\ Running /\ main.life = "paused"
    /\ ~Visible \/ main.ending # "no"
    /\ main' = [main EXCEPT !.life = "stopped"]
    /\ crash' = IF main.disp THEN crash ELSE "noAdapter"
    /\ UNCHANGED <<adapter, front, stack, inst, results, singleton,
                   worker, task, list, discovering, past>>

\* Mutant: onDestroy does not stop the service.
ServiceKept == worker

\* The last thing onDestroy does, if the trackpad did not fail it.  A service
\* that was started is left by its cancelled threads only later.
ServiceStopped ==
    [w \in Workers |->
        IF main.disp /\ w = main.chat
        THEN IF worker[w] = "running" THEN "stopping" ELSE "stopped"
        ELSE worker[w]]

\* The threads that stop() cancelled end.  If a ConnectThread or ConnectedThread
\* was among them, its error path starts the service again.
CancelledThreadsEnd ==
    /\ Running
    /\ \E w \in Workers :
          /\ worker[w] = "stopping"
          /\ \E after \in {"stopped", "revived"} :
                worker' = Collected([worker EXCEPT ![w] = after],
                                    {main.chat, singleton.service})
    /\ UNCHANGED <<adapter, front, stack, main, inst, results, singleton, task,
                   list, discovering, crash, past>>

\* onDestroy: the trackpad thread again, then the service; a relaunched
\* activity is created again from its saved state, one that "up" replaces
\* without it.
onDestroy ==
    /\ Running
    /\ \/ main.life = "stopped" /\ main.ending # "no"
       \/ main.life = "created" /\ main.ending = "finish"
    /\ crash' = IF main.disp THEN crash ELSE "noAdapter"
    /\ worker' = Collected(ServiceStopped, {singleton.service})
    /\ main' = [NoMain EXCEPT !.life = IF main.ending = "relaunch" THEN "saved"
                                       ELSE "none"]
    /\ front' = (front /\ main.ending \in {"relaunch", "anew"})
    /\ results' = IF main.ending = "relaunch" THEN results ELSE <<>>
    /\ UNCHANGED <<adapter, stack, inst, singleton, task, list,
                   discovering, past>>

-----------------------------------------------------------------------------
(* What the user does in the main activity.                                *)

Untouched == UNCHANGED <<adapter, front, stack, inst, results, singleton,
                         worker, task, list, discovering, past>>

\* A character typed in auto-send mode: the text listener sends it at once.
TypeCharacter ==
    /\ InMain /\ task.dialog # inst /\ main.views /\ main.auto = "on"
    /\ sendByte
    /\ main' = main /\ Untouched

\* The send button, the mouse buttons and the delete button all end in
\* sendByte; they have listeners once setupChat ran.
PressButton ==
    /\ InMain /\ task.dialog # inst /\ main.views
    /\ sendByte
    /\ main' = main /\ Untouched

\* The check box of the menu.
ToggleAutoSend ==
    /\ InMain /\ task.dialog # inst
    /\ main' = [main EXCEPT !.auto = IF @ = "on" THEN "off" ELSE "on"]
    /\ crash' = crash /\ Untouched

\* The other menu items push an activity.  FileListActivity.onCreate fails on
\* a folder it can neither create nor list.
MenuItem ==
    /\ InMain /\ task.dialog # inst /\ Len(stack) < MaxDepth
    /\ \E c \in Covers \ {"enable"} :
          /\ c = "devices" => list.life = "none"
          /\ stack' = Append(stack, c)
          /\ \/ c = "devices"
                /\ list' = [life |-> "up", scan |-> TRUE, none |-> FALSE]
                /\ UNCHANGED <<singleton, crash>>
             \/ c = "files" /\ crash' \in {crash, "noFolder"}
                /\ UNCHANGED <<singleton, list>>
             \/ c = "tenkey" /\ UNCHANGED <<singleton, list, crash>>
    /\ UNCHANGED <<adapter, front, main, inst, results, worker, task,
                   discovering, past>>

\* Back on the main activity, or a rotation, which re-creates it: the
\* manifest handles "orientation" but not the screen size.
LeaveMain ==
    /\ InMain /\ task.dialog # inst
    /\ main' = [main EXCEPT !.ending = "finish"]
    /\ crash' = crash /\ Untouched

Rotate ==
    /\ InMain /\ inst < MaxMains
    /\ main' = [main EXCEPT !.ending = "relaunch"]
    /\ crash' = crash /\ Untouched

-----------------------------------------------------------------------------
(* The activities on top.                                                  *)

\* The system's dialog answers the request to enable Bluetooth.
AnswerEnable ==
    /\ Running /\ front /\ Top = "enable" /\ main.life = "paused"
    /\ stack' = Pop
    /\ \/ adapter' = "on" /\ results' = Append(results, "enabled")
       \/ adapter' = adapter
          /\ results' = Append(results, IF adapter = "on" THEN "enabled"
                                        ELSE "refused")
    /\ UNCHANGED <<front, main, inst, singleton, worker, task, list,
                   discovering, crash, past>>

\* The scan button, which hides itself.
doDiscovery ==
    /\ Running /\ front /\ Top = "devices" /\ list.scan
    /\ discovering' = TRUE
    /\ list' = [list EXCEPT !.scan = FALSE]
    /\ UNCHANGED <<adapter, front, stack, main, inst, results, singleton,
                   worker, task, crash, past>>

\* mReceiver: discovery ends, and a list of new devices that is still empty
\* gets the row "No devices found".
onReceive ==
    /\ Running /\ discovering /\ list.life = "up"
    /\ discovering' = FALSE
    /\ \E none \in BOOLEAN : list' = [list EXCEPT !.none = none]
    /\ UNCHANGED <<adapter, front, stack, main, inst, results, singleton,
                   worker, task, crash, past>>

\* Mutant: discovery goes on after the click.
DiscoveryAfterClickKept == discovering

DiscoveryAfterClick == FALSE

\* onItemClick takes the last 17 characters of whatever row was clicked: a
\* device, "No devices have been paired" or the shorter "No devices found".
onItemClick ==
    /\ Running /\ front /\ Top = "devices" /\ main.life = "paused"
    /\ discovering' = DiscoveryAfterClick
    /\ \/ /\ list.none /\ crash' = "badRow"
          /\ UNCHANGED <<stack, results, list>>
       \/ /\ \E address \in {"connect", "badAddress"} :
                results' = Append(results, address)
          /\ stack' = Pop
          /\ list' = [list EXCEPT !.life = "dying"]
          /\ UNCHANGED crash
    /\ UNCHANGED <<adapter, front, main, inst, singleton, worker, task,
                   past>>

\* DeviceListActivity.onDestroy comes once the main activity is resumed.
ListDestroyed ==
    /\ Running /\ list.life = "dying"
    /\ discovering' = FALSE
    /\ list' = NoList
    /\ UNCHANGED <<adapter, front, stack, main, inst, results, singleton,
                   worker, task, crash, past>>

FileChosen ==
    /\ Running /\ front /\ Top = "files" /\ main.life = "paused"
    /\ stack' = Pop /\ results' = Append(results, "file")
    /\ UNCHANGED <<adapter, front, main, inst, singleton, worker, task,
                   list, discovering, crash, past>>

\* TenKeyActivity.onResume: it relies on the service being there already.
TenKeyResume ==
    /\ Running /\ front /\ Top = "tenkey" /\ main.life \in {"saved", "stopped"}
    /\ getSingleton(Null)
    /\ past' = [past EXCEPT !.tenFirst = @ \/ ~singleton.born]
    /\ UNCHANGED <<adapter, front, stack, main, inst, results, worker,
                   task, list, discovering, crash>>

TenKeyPress ==
    /\ Running /\ front /\ Top = "tenkey" /\ main.life \in {"saved", "stopped"}
    /\ singleton.born
    /\ sendByte
    /\ UNCHANGED <<adapter, front, stack, main, inst, results, singleton,
                   worker, task, list, discovering, past>>

\* Back on a list or on the ten-key pad.
Back ==
    /\ Running /\ front /\ Top \in {"devices", "files", "tenkey"}
    /\ main.life \in {"paused", "stopped", "saved"}
    /\ stack' = Pop
    /\ list' = IF Top = "devices" THEN [list EXCEPT !.life = "dying"] ELSE list
    /\ UNCHANGED <<adapter, front, main, inst, results, singleton,
                   worker, task, discovering, crash, past>>

\* "Up" on the ten-key pad: navigateUpFromSameTask clears the task down to the
\* main activity, and since the manifest gives that the standard launch mode,
\* Android ends it as well and starts another one in its place.
Up ==
    /\ Running /\ front /\ Top = "tenkey" /\ inst < MaxMains
    /\ main.life \in {"stopped", "saved"}
    /\ stack' = <<>>
    /\ main' = IF main.life = "saved" THEN NoMain
               ELSE [main EXCEPT !.ending = "anew"]
    /\ results' = <<>>
    /\ UNCHANGED <<adapter, front, inst, singleton, worker, task, list,
                   discovering, crash, past>>

-----------------------------------------------------------------------------
(* SendFileTask.                                                           *)

\* One character in the background; sendKeyboard ends in sendByte.  The read
\* that finds the end of the file is sent as well.
FileByte ==
    /\ Running /\ task.step = "running"
    /\ sendByte
    /\ task' = [task EXCEPT !.left = @ - 1, !.step = "sleeping"]
    /\ UNCHANGED <<adapter, front, stack, main, inst, results, singleton,
                   worker, list, discovering, past>>

\* doInBackground has returned; only the dialog matters from here.
Returned == [NoTask EXCEPT !.step = "done", !.dialog = task.dialog]

\* while (!canceled && charToSend != -1)
MoreToRead == task.left > 0 /\ ~task.canceled

FileTest ==
    /\ Running /\ task.step = "sleeping"
    /\ task' = IF MoreToRead THEN [task EXCEPT !.step = "running"] ELSE Returned
    /\ UNCHANGED <<adapter, front, stack, main, inst, results, singleton,
                   worker, list, discovering, crash, past>>

\* The file cannot be opened or read.
FileFails ==
    /\ Running /\ task.step = "running"
    /\ task' = Returned
    /\ UNCHANGED <<adapter, front, stack, main, inst, results, singleton,
                   worker, list, discovering, crash, past>>

\* The dialog's Cancel button, and Back on the dialog, which only hides it.
CancelFile ==
    /\ InMain /\ task.step \in {"running", "sleeping"} /\ task.dialog = inst
    /\ \/ task' = [task EXCEPT !.canceled = TRUE]
       \/ task' = [task EXCEPT !.dialog = 0]
    /\ UNCHANGED <<adapter, front, stack, main, inst, results, singleton,
                   worker, list, discovering, crash, past>>

\* Mutant: the dialog is forgotten but not the task.
OnlyDialogReset == [task EXCEPT !.dialog = 0]

\* mActiveSendFileTask and mFileSendingDialog are null again.
TaskReset == NoTask

\* onPostExecute: dismissing a dialog whose activity is gone throws, and then
\* the fields are not reset.
DialogGone == task.dialog # 0 /\ (task.dialog # inst \/ main.life \in {"none", "saved"})
onPostExecute ==
    /\ Running /\ task.step = "done"
    /\ IF DialogGone THEN crash' = "goneDialog" /\ task' = task
       ELSE crash' = crash /\ task' = TaskReset
    /\ UNCHANGED <<adapter, front, stack, main, inst, results, singleton,
                   worker, list, discovering, past>>

-----------------------------------------------------------------------------
(* Android and the user outside the application.                           *)

GoHome ==
    /\ Running /\ front /\ main.ending = "no"
    /\ main.life \in {"resumed", "paused", "stopped"}
    /\ front' = FALSE
    /\ UNCHANGED <<adapter, stack, main, inst, results, singleton,
                   worker, task, list, discovering, crash, past>>

\* The launcher brings the task back, or starts it if nothing is left of it.
Launch ==
    /\ Running /\ ~front /\ main.life \in {"none", "saved", "stopped"}
    /\ main.life = "none" => inst < MaxMains
    /\ front' = TRUE
    /\ stack' = IF main.life = "none" THEN <<>> ELSE stack
    /\ UNCHANGED <<adapter, main, inst, results, singleton, worker, task,
                   list, discovering, crash, past>>

\* Bound: once in a process, and not after it asked for Bluetooth.
BluetoothOff ==
    /\ Running /\ ~front /\ adapter = "on" /\ adapter' = "off"
    /\ ~past.asked
    /\ discovering' = FALSE
    /\ UNCHANGED <<front, stack, main, inst, results, singleton, worker,
                   task, list, crash, past>>

\* A request for Bluetooth that is not answered, or not delivered, yet.
AskedOutstanding == \/ \E i \in DOMAIN stack : stack[i] = "enable"
                    \/ \E i \in DOMAIN results : results[i] = "enabled"

\* A process in the background may be killed; Android keeps the activity
\* stack, the view state and the undelivered results, and nothing else.
\* Bound: it is killed once.
KillProcess ==
    /\ Running /\ ~front /\ main.life \in {"none", "stopped"} /\ ~past.killed
    /\ main' = [NoMain EXCEPT !.life = IF main.life = "none" THEN "none"
                                       ELSE "saved"]
    /\ singleton' = NoSingleton
    /\ worker' = [w \in Workers |-> "unused"]
    /\ task' = NoTask
    /\ past' = [NoPast EXCEPT !.killed = TRUE, !.asked = AskedOutstanding]
    /\ list' = IF "devices" \in {stack[i] : i \in DOMAIN stack}
               THEN [list EXCEPT !.scan = TRUE, !.none = FALSE]
               ELSE NoList
    /\ UNCHANGED <<adapter, front, stack, inst, results, discovering,
                   crash>>

Callbacks == onCreate \/ onStart \/ RestoreText \/ ResultConnect \/ ResultFile
             \/ ResultEnableBt \/ onResume \/ onPause \/ onStop \/ onDestroy
             \/ TenKeyResume \/ ListDestroyed
FileTask == FileByte \/ FileTest \/ FileFails \/ onPostExecute
User == TypeCharacter \/ PressButton \/ ToggleAutoSend \/ MenuItem \/ LeaveMain
        \/ Rotate \/ AnswerEnable \/ doDiscovery \/ onReceive \/ onItemClick
        \/ FileChosen \/ TenKeyPress \/ Back \/ Up \/ CancelFile \/ GoHome \/ Launch
        \/ BluetoothOff \/ KillProcess

Next == Callbacks \/ FileTask \/ User \/ CancelledThreadsEnd

\* Android goes on calling the callbacks that are due, and the file task's
\* thread and its post to the main thread run.
Spec == Init /\ [][Next]_vars /\ WF_vars(Callbacks) /\ WF_vars(FileTask)

-----------------------------------------------------------------------------
(* Properties.                                                             *)

\* sendByte meets a null service only in a process whose main activity had to
\* ask for Bluetooth (its onResume precedes the answer), or in which the
\* ten-key pad was restored before the main activity.  No other order of
\* callbacks, results and process deaths leads there.
NullServiceHasCause == crash = "nullService" => past.asked \/ past.tenFirst

\* connectDevice finds a service and a chosen file finds the dispatcher,
\* unless the process died between the choice and its delivery: the menu is
\* out of reach until the request to enable Bluetooth is answered, and results
\* are delivered in order.  onStop and onDestroy always find the trackpad
\* view, unless onCreate finished the activity for want of an adapter.
CallbacksFindTheirFields ==
    /\ crash \in {"noChat", "noDispatcher"} => past.killed
    /\ crash = "noAdapter" => adapter = "absent"

\* In a process that never asked for Bluetooth, every WorkerClass that was
\* started, except the one of the main activity that exists now, has been told
\* to stop().  (Asking replaces the service of an activity that had one and
\* stops none.)  That stop() is not the end of it is OnlyMainListens.
OthersStopped ==
    ~past.asked => \A w \in Workers : worker[w] = "running" => w = main.chat

\* "Stop the Bluetooth chat services": the comment in onDestroy.  In a process
\* that never asked for Bluetooth only the present main activity's service
\* runs.
OnlyMainListens ==
    ~past.asked => \A w \in Workers :
                      worker[w] \in {"running", "revived"} => w = main.chat

\* What the user does in the main activity goes to that activity's own
\* service, unless the process asked for Bluetooth, saw the ten-key pad
\* first, or had an earlier main activity that made the singleton.
SingletonServesMain ==
    InMain => \/ singleton.service = main.chat
              \/ past.asked \/ past.tenFirst \/ past.mains > 1

\* Discovery goes on only while the device list exists (or after its process
\* was killed), and has been cancelled by the time a chosen device is
\* connected to.
DiscoveryEnds ==
    /\ discovering => list.life # "none" \/ past.killed
    /\ (\E i \in DOMAIN results : results[i] = "connect") => ~discovering

\* Once started, a file task ends and leaves the singleton ready for another
\* one, or the process is gone.
FileTaskEnds == task.step = "running" ~> task.step = "idle" \/ ~Running

\* Granting Bluetooth leads to a started service, unless the user leaves.
EnabledIsServed ==
    (Returning /\ Head(results) = "enabled")
        ~> (\E w \in Workers : w = main.chat /\ worker[w] = "running")
           \/ ~front \/ ~Running

\* "As long as the object has been initialized, it is null safe": the comment
\* on getSingleton.
NullSafe == singleton.born => singleton.service # Null
=============================================================================
