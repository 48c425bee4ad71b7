---------------------------- MODULE WorkerClass ----------------------------
(***************************************************************************)
(* The Bluetooth connection manager of the Android application             *)
(* (MightyMouse/src/com/vos/MightyMouse/WorkerClass.java) together with    *)
(* the Handler of the activity that shows its state.                       *)
(*                                                                         *)
(* A ConnectThread owns one BluetoothSocket and hands it to the            *)
(* ConnectedThread that takes over, so both are named by that socket.      *)
(* Names come from the finite pools Sockets and AcceptThreads and are      *)
(* reused once nothing refers to them: the pools bound how many threads    *)
(* live at the same time, never how long the application runs.             *)
(*                                                                         *)
(* Every synchronized method is one atomic step.  A blocking call and the  *)
(* code after it are different steps, so anything may happen in between.   *)
(***************************************************************************)
EXTENDS Naturals, Sequences

CONSTANTS
  Sockets,        \* names of BluetoothSockets alive at once (bound)
  AcceptThreads,  \* names of AcceptThreads alive at once (bound)
  Writers,        \* threads that call write(): UI, MouseSender, SendFileTask
  None,           \* the Java null
  MaxQueue,       \* bound on the messages waiting in the Handler
  CreateMayFail,  \* may the adapter refuse to create a socket (IOException)?
  AcceptMayFail   \* may accept() throw although nobody closed the socket?

ASSUME NoneAssumption == None \notin Sockets \cup AcceptThreads
ASSUME QueueAssumption == MaxQueue \in Nat
ASSUME FailAssumption == CreateMayFail \in BOOLEAN /\ AcceptMayFail \in BOOLEAN

VARIABLES
  mState,                \* STATE_NONE, STATE_LISTEN, ...
  mConnectThread,        \* the four thread fields, None when null
  mConnectedThread,
  mSecureAcceptThread,
  mInsecureAcceptThread,
  socket,                \* what each BluetoothSocket is doing
  server,                \* what each BluetoothServerSocket is doing
  connectPc,             \* where each ConnectThread.run() is
  connectedPc,           \* where each ConnectedThread.run() is
  acceptPc,              \* where each AcceptThread.run() is
  accepted,              \* AcceptThread's local variable socket
  snapshot,              \* write()'s local variable r
  writing,               \* writers between write()'s lock and its r.write()
  queue,                 \* messages waiting in mHandler
  status,                \* the action bar's subtitle: a title and a peer
  mConnectedDeviceName,  \* the peer named by the last MESSAGE_DEVICE_NAME
  destroyed,             \* onDestroy() has called stop()
  crashed                \* an uncaught NullPointerException ended the process

fields   == <<mState, mConnectThread, mConnectedThread>>
accepts  == <<mSecureAcceptThread, mInsecureAcceptThread, server, acceptPc>>
ui       == <<status, mConnectedDeviceName>>
writes   == <<snapshot, writing>>
life     == <<destroyed, crashed>>
vars     == <<fields, accepts, socket, connectPc, connectedPc, accepted,
              writes, queue, ui, life>>

States      == {"NONE", "LISTEN", "CONNECTING", "CONNECTED"}
SocketState == {"idle", "open", "connected", "lost", "closed", "null"}
ServerState == {"idle", "open", "closed", "null"}
Titles      == {"blank", "not_connected", "connecting", "connected_to"}

\* STATE_CHANGE carries the new state, DEVICE_NAME the peer of the connection
Message == [what : {"STATE_CHANGE"}, arg : States]
             \cup [what : {"DEVICE_NAME"}, arg : Sockets]

TypeOK ==
  /\ mState \in States
  /\ mConnectThread \in Sockets \cup {None}
  /\ mConnectedThread \in Sockets \cup {None}
  /\ mSecureAcceptThread \in AcceptThreads \cup {None}
  /\ mInsecureAcceptThread \in AcceptThreads \cup {None}
  /\ socket \in [Sockets -> SocketState]
  /\ server \in [AcceptThreads -> ServerState]
  /\ connectPc \in
       [Sockets -> {"off", "connecting", "failed", "reset", "handoff"}]
  /\ connectedPc \in [Sockets -> {"off", "reading", "lost", "restart"}]
  /\ acceptPc \in [AcceptThreads -> {"off", "check", "accepting", "accepted"}]
  /\ accepted \in [AcceptThreads -> Sockets \cup {None}]
  /\ snapshot \in [Writers -> Sockets \cup {None}]
  /\ writing \in [Writers -> BOOLEAN]
  /\ queue \in Seq(Message)
  /\ status \in [title : Titles, device : Sockets \cup {None}]
  /\ mConnectedDeviceName \in Sockets \cup {None}
  /\ destroyed \in BOOLEAN
  /\ crashed \in BOOLEAN

Init ==
  /\ mState = "NONE"
  /\ mConnectThread = None
  /\ mConnectedThread = None
  /\ mSecureAcceptThread = None
  /\ mInsecureAcceptThread = None
  /\ socket = [s \in Sockets |-> "idle"]
  /\ server = [a \in AcceptThreads |-> "idle"]
  /\ connectPc = [s \in Sockets |-> "off"]
  /\ connectedPc = [s \in Sockets |-> "off"]
  /\ acceptPc = [a \in AcceptThreads |-> "off"]
  /\ accepted = [a \in AcceptThreads |-> None]
  /\ snapshot = [w \in Writers |-> None]
  /\ writing = [w \in Writers |-> FALSE]
  /\ queue = << >>
  /\ status = [title |-> "blank", device |-> None]
  /\ mConnectedDeviceName = None
  /\ destroyed = FALSE
  /\ crashed = FALSE

-----------------------------------------------------------------------------
(* Objects: which names are free, and what cancel() and setState() do.     *)

\* The thread a field refers to, as a set.
Ref(field) == {field} \ {None}

FreshSocket(s) ==
  /\ connectPc[s] = "off"
  /\ connectedPc[s] = "off"
  /\ s \notin {mConnectThread, mConnectedThread}
  /\ \A a \in AcceptThreads : accepted[a] # s
  /\ \A w \in Writers : snapshot[w] # s

FreshAcceptThread(a) ==
  /\ acceptPc[a] = "off"
  /\ a \notin {mSecureAcceptThread, mInsecureAcceptThread}

\* Mutant: cancel() drops the reference instead of closing the socket.
CancelledToNull(S) == [s \in Sockets |-> IF s \in S THEN None ELSE socket[s]]

\* cancel() of the Connect- and ConnectedThreads in S: close their sockets.
Cancelled(S) == [s \in Sockets |-> IF s \in S THEN "closed" ELSE socket[s]]

\* cancel() of the AcceptThreads in A: close their server sockets.
CancelledServers(A) ==
  [a \in AcceptThreads |-> IF a \in A THEN "closed" ELSE server[a]]

\* Mutant: an established connection is forgotten but not cancelled.
CurrentAttempt == Ref(mConnectThread)

\* The threads that start(), connected() and stop() cancel ...
Current == Ref(mConnectThread) \cup Ref(mConnectedThread)

\* ... and the AcceptThreads that connected() and stop() cancel.
Listening == Ref(mSecureAcceptThread) \cup Ref(mInsecureAcceptThread)

\* cancel() on a thread whose socket is null throws: see NullDereference.
Cancellable(S, A) ==
  /\ \A s \in S : socket[s] # "null"
  /\ \A a \in A : server[a] # "null"

Notify(messages) ==
  /\ Len(queue) + Len(messages) <= MaxQueue
  /\ queue' = queue \o messages

setStateMessage(state) == [what |-> "STATE_CHANGE", arg |-> state]

\* Mutant: leaving STATE_CONNECTED is not recorded.
setStateUnlessConnected(state) ==
  /\ mState' = IF mState = "CONNECTED" THEN mState ELSE state
  /\ Notify(<<setStateMessage(state)>>)

\* Mutant: start() does not end STATE_CONNECTING.
setStateStaysConnecting(state) ==
  /\ mState' = IF mState = "CONNECTING" /\ state = "LISTEN" THEN mState ELSE state
  /\ Notify(<<setStateMessage(state)>>)

setState(state) ==
  /\ mState' = state
  /\ Notify(<<setStateMessage(state)>>)

-----------------------------------------------------------------------------
(* The synchronized methods, as parts of the steps that call them.         *)

\* The AcceptThread a field holds after start(): the old one, or a new one.
StartedAs(field, a) == IF field = None THEN FreshAcceptThread(a) ELSE a = field

start ==
  /\ Cancellable(Current, {})
  /\ socket' = Cancelled(Current)
  /\ mConnectThread' = None
  /\ mConnectedThread' = None
  /\ setState("LISTEN")
  /\ \E a, b \in AcceptThreads :
       LET new == {a, b} \ Listening
       IN /\ a # b
          /\ StartedAs(mSecureAcceptThread, a)
          /\ StartedAs(mInsecureAcceptThread, b)
          /\ mSecureAcceptThread' = a
          /\ mInsecureAcceptThread' = b
          /\ acceptPc' = [t \in AcceptThreads |->
                            IF t \in new THEN "check" ELSE acceptPc[t]]
          /\ \E refused \in SUBSET new :
               /\ refused # {} => CreateMayFail
               /\ server' = [t \in AcceptThreads |->
                               IF t \in refused THEN "null"
                               ELSE IF t \in new THEN "open" ELSE server[t]]

\* Mutant: the state is announced before the name of the device.
StateBeforeName(s) ==
  <<setStateMessage("CONNECTED"), [what |-> "DEVICE_NAME", arg |-> s]>>

\* What connected() tells the activity, in this order.
ConnectedMessages(s) ==
  <<[what |-> "DEVICE_NAME", arg |-> s], setStateMessage("CONNECTED")>>

\* connected(s): s becomes the connection, everything else is cancelled.
connected(s) ==
  /\ Cancellable(Current, Listening)
  /\ socket' = Cancelled(Current)
  /\ server' = CancelledServers(Listening)
  /\ mConnectThread' = None
  /\ mSecureAcceptThread' = None
  /\ mInsecureAcceptThread' = None
  /\ mConnectedThread' = s
  /\ connectedPc' = [connectedPc EXCEPT ![s] = "reading"]
  /\ mState' = "CONNECTED"
  /\ Notify(ConnectedMessages(s))

-----------------------------------------------------------------------------
(* The UI thread: the calls of MouseAndKeyboardActivity.                   *)

\* onResume() starts the service only when its state is STATE_NONE.
Start ==
  /\ ~destroyed
  /\ mState = "NONE"
  /\ start
  /\ UNCHANGED <<connectPc, connectedPc, accepted, writes, ui, life>>

\* connect() cancels an earlier attempt only in STATE_CONNECTING.
ConnectCancels ==
  Ref(mConnectedThread)
    \cup (IF mState = "CONNECTING" THEN Ref(mConnectThread) ELSE {})

\* connect(): a new ConnectThread s towards the device the user chose.
Connect(s) ==
  /\ ~destroyed
  /\ FreshSocket(s)
  /\ Cancellable(ConnectCancels, {})
  /\ \E created \in {"open", "null"} :
       /\ created = "null" => CreateMayFail
       /\ socket' = [Cancelled(ConnectCancels) EXCEPT ![s] = created]
  /\ mConnectThread' = s
  /\ mConnectedThread' = None
  /\ connectPc' = [connectPc EXCEPT ![s] = "connecting"]
  /\ setState("CONNECTING")
  /\ UNCHANGED <<accepts, connectedPc, accepted, writes, ui, life>>

\* onDestroy() calls stop(), and the activity calls nothing afterwards.
Stop ==
  /\ ~destroyed
  /\ Cancellable(Current, Listening)
  /\ socket' = Cancelled(Current)
  /\ server' = CancelledServers(Listening)
  /\ mConnectThread' = None
  /\ mConnectedThread' = None
  /\ mSecureAcceptThread' = None
  /\ mInsecureAcceptThread' = None
  /\ setState("NONE")
  /\ destroyed' = TRUE
  /\ UNCHANGED <<connectPc, connectedPc, acceptPc, accepted, writes, ui,
                 crashed>>

\* The subtitle handleMessage() sets for a state and the remembered peer.
Subtitle(state, device) ==
  [title  |-> CASE state = "CONNECTED"  -> "connected_to"
                [] state = "CONNECTING" -> "connecting"
                [] OTHER                -> "not_connected",
   device |-> IF state = "CONNECTED" THEN device ELSE None]

\* handleMessage(): the activity shows the state, or remembers the name.
HandleMessage ==
  /\ queue # << >>
  /\ queue' = Tail(queue)
  /\ \/ /\ Head(queue).what = "STATE_CHANGE"
        /\ status' = Subtitle(Head(queue).arg, mConnectedDeviceName)
        /\ UNCHANGED mConnectedDeviceName
     \/ /\ Head(queue).what = "DEVICE_NAME"
        /\ mConnectedDeviceName' = Head(queue).arg
        /\ UNCHANGED status
  /\ UNCHANGED <<fields, accepts, socket, connectPc, connectedPc, accepted,
                 writes, life>>

-----------------------------------------------------------------------------
(* write(), called by several threads.                                     *)

\* Under the lock: copy mConnectedThread if the state is STATE_CONNECTED.
WriteSnapshot(w) ==
  /\ ~writing[w]
  /\ mState = "CONNECTED"
  /\ snapshot' = [snapshot EXCEPT ![w] = mConnectedThread]
  /\ writing' = [writing EXCEPT ![w] = TRUE]
  /\ UNCHANGED <<fields, accepts, socket, connectPc, connectedPc, accepted,
                 queue, ui, life>>

\* Outside the lock: r.write().  A dead socket's IOException is only logged.
WriteStream(w) ==
  /\ writing[w]
  /\ snapshot[w] # None
  /\ snapshot' = [snapshot EXCEPT ![w] = None]
  /\ writing' = [writing EXCEPT ![w] = FALSE]
  /\ UNCHANGED <<fields, accepts, socket, connectPc, connectedPc, accepted,
                 queue, ui, life>>

-----------------------------------------------------------------------------
(* ConnectThread.run()                                                     *)

ConnectReturns(s) ==
  /\ connectPc[s] = "connecting"
  /\ socket[s] = "open"
  /\ socket' = [socket EXCEPT ![s] = "connected"]
  /\ connectPc' = [connectPc EXCEPT ![s] = "reset"]
  /\ UNCHANGED <<fields, accepts, connectedPc, accepted, writes, queue, ui,
                 life>>

\* connect() throws: no answer, or the socket was closed by cancel().
ConnectThrows(s) ==
  /\ connectPc[s] = "connecting"
  /\ socket[s] # "null"
  /\ socket' = [socket EXCEPT ![s] = "closed"]
  /\ connectPc' = [connectPc EXCEPT ![s] = "failed"]
  /\ UNCHANGED <<fields, accepts, connectedPc, accepted, writes, queue, ui,
                 life>>

ConnectionFailed(s) ==
  /\ connectPc[s] = "failed"
  /\ start
  /\ connectPc' = [connectPc EXCEPT ![s] = "off"]
  /\ UNCHANGED <<connectedPc, accepted, writes, ui, life>>

\* "Reset the ConnectThread because we're done", whoever it is by now.
ResetConnectThread(s) ==
  /\ connectPc[s] = "reset"
  /\ mConnectThread' = None
  /\ connectPc' = [connectPc EXCEPT ![s] = "handoff"]
  /\ UNCHANGED <<mState, mConnectedThread, accepts, socket, connectedPc,
                 accepted, writes, queue, ui, life>>

ConnectHandoff(s) ==
  /\ connectPc[s] = "handoff"
  /\ connected(s)
  /\ connectPc' = [connectPc EXCEPT ![s] = "off"]
  /\ UNCHANGED <<acceptPc, accepted, writes, ui, life>>

-----------------------------------------------------------------------------
(* ConnectedThread.run()                                                   *)

\* Mutant: read() does not notice that cancel() closed the socket.
ReadThrowsOnLossOnly(s) ==
  /\ connectedPc[s] = "reading"
  /\ socket[s] = "lost"
  /\ connectedPc' = [connectedPc EXCEPT ![s] = "lost"]
  /\ UNCHANGED <<fields, accepts, socket, connectPc, accepted, writes, queue,
                 ui, life>>

ReadThrows(s) ==
  /\ connectedPc[s] = "reading"
  /\ socket[s] \in {"lost", "closed"}
  /\ connectedPc' = [connectedPc EXCEPT ![s] = "lost"]
  /\ UNCHANGED <<fields, accepts, socket, connectPc, accepted, writes, queue,
                 ui, life>>

\* connectionLost() calls start() ...
ConnectionLost(s) ==
  /\ connectedPc[s] = "lost"
  /\ start
  /\ connectedPc' = [connectedPc EXCEPT ![s] = "restart"]
  /\ UNCHANGED <<connectPc, accepted, writes, ui, life>>

\* ... and run() calls start() once more before it ends.
RestartAfterLoss(s) ==
  /\ connectedPc[s] = "restart"
  /\ start
  /\ connectedPc' = [connectedPc EXCEPT ![s] = "off"]
  /\ UNCHANGED <<connectPc, accepted, writes, ui, life>>

-----------------------------------------------------------------------------
(* AcceptThread.run()                                                      *)

\* Mutant: the loop also ends while an outgoing attempt is in progress.
MustEndEarly == mState \in {"CONNECTING", "CONNECTED"}

\* while (mState != STATE_CONNECTED)
MustEnd == mState = "CONNECTED"

AcceptCheck(a) ==
  /\ acceptPc[a] = "check"
  /\ acceptPc' = [acceptPc EXCEPT ![a] =
                    IF MustEnd THEN "off" ELSE "accepting"]
  /\ UNCHANGED <<fields, mSecureAcceptThread, mInsecureAcceptThread, server,
                 socket, connectPc, connectedPc, accepted, writes, queue, ui,
                 life>>

AcceptReturns(a, s) ==
  /\ acceptPc[a] = "accepting"
  /\ server[a] = "open"
  /\ FreshSocket(s)
  /\ socket' = [socket EXCEPT ![s] = "connected"]
  /\ accepted' = [accepted EXCEPT ![a] = s]
  /\ acceptPc' = [acceptPc EXCEPT ![a] = "accepted"]
  /\ UNCHANGED <<fields, mSecureAcceptThread, mInsecureAcceptThread, server,
                 connectPc, connectedPc, writes, queue, ui, life>>

AcceptThrows(a) ==
  /\ acceptPc[a] = "accepting"
  /\ server[a] = "closed" \/ (server[a] = "open" /\ AcceptMayFail)
  /\ acceptPc' = [acceptPc EXCEPT ![a] = "off"]
  /\ UNCHANGED <<fields, mSecureAcceptThread, mInsecureAcceptThread, server,
                 socket, connectPc, connectedPc, accepted, writes, queue, ui,
                 life>>

\* Situation normal: the accepted socket becomes the connection.
AcceptConnected(a) ==
  /\ acceptPc[a] = "accepted"
  /\ mState \in {"LISTEN", "CONNECTING"}
  /\ connected(accepted[a])
  /\ accepted' = [accepted EXCEPT ![a] = None]
  /\ acceptPc' = [acceptPc EXCEPT ![a] = "check"]
  /\ UNCHANGED <<connectPc, writes, ui, life>>

\* Either not ready or already connected: terminate the new socket.
AcceptRefused(a) ==
  /\ acceptPc[a] = "accepted"
  /\ mState \in {"NONE", "CONNECTED"}
  /\ socket' = Cancelled({accepted[a]})
  /\ accepted' = [accepted EXCEPT ![a] = None]
  /\ acceptPc' = [acceptPc EXCEPT ![a] = "check"]
  /\ UNCHANGED <<fields, mSecureAcceptThread, mInsecureAcceptThread, server,
                 connectPc, connectedPc, writes, queue, ui, life>>

-----------------------------------------------------------------------------
(* The environment, and the process.                                       *)

\* The peer goes out of range or loses power.
PeerLost(s) ==
  /\ socket[s] = "connected"
  /\ socket' = [socket EXCEPT ![s] = "lost"]
  /\ UNCHANGED <<fields, accepts, connectPc, connectedPc, accepted, writes,
                 queue, ui, life>>

\* A thread about to call start(), which cancels Current ...
StartDue ==
  \E s \in Sockets :
    connectPc[s] = "failed" \/ connectedPc[s] \in {"lost", "restart"}

\* ... or to call stop() or connected(), which cancel Listening as well.
CancelAllDue ==
  \/ ~destroyed
  \/ \E s \in Sockets : connectPc[s] = "handoff"
  \/ /\ mState \in {"LISTEN", "CONNECTING"}
     /\ \E a \in AcceptThreads : acceptPc[a] = "accepted"

\* run() dereferences its own null socket, or write() a null r ...
RunOnNull ==
  \/ \E s \in Sockets : connectPc[s] = "connecting" /\ socket[s] = "null"
  \/ \E a \in AcceptThreads : acceptPc[a] = "accepting" /\ server[a] = "null"
  \/ \E w \in Writers : writing[w] /\ snapshot[w] = None

\* ... or someone calls cancel() on a thread whose socket is null.
CancelOnNull ==
  \/ StartDue /\ ~Cancellable(Current, {})
  \/ CancelAllDue /\ ~Cancellable(Current, Listening)

\* A constructor has logged an IOException and left its socket null.
NullDereference ==
  /\ RunOnNull \/ CancelOnNull
  /\ crashed' = TRUE
  /\ UNCHANGED <<fields, accepts, socket, connectPc, connectedPc, accepted,
                 writes, queue, ui, destroyed>>

-----------------------------------------------------------------------------

ConnectStep(s) ==
  \/ ConnectReturns(s)
  \/ ConnectThrows(s)
  \/ ConnectionFailed(s)
  \/ ResetConnectThread(s)
  \/ ConnectHandoff(s)

ConnectedStep(s) ==
  \/ ReadThrows(s)
  \/ ConnectionLost(s)
  \/ RestartAfterLoss(s)

AcceptStep(a) ==
  \/ AcceptCheck(a)
  \/ AcceptThrows(a)
  \/ AcceptConnected(a)
  \/ AcceptRefused(a)

Next ==
  /\ ~crashed
  /\ \/ Start
     \/ Stop
     \/ HandleMessage
     \/ NullDereference
     \/ \E s \in Sockets :
          \/ Connect(s)
          \/ ConnectStep(s)
          \/ ConnectedStep(s)
          \/ PeerLost(s)
     \/ \E a \in AcceptThreads :
          \/ AcceptStep(a)
          \/ \E s \in Sockets : AcceptReturns(a, s)
     \/ \E w \in Writers : WriteSnapshot(w) \/ WriteStream(w)

Spec == Init /\ [][Next]_vars

\* Threads are scheduled, and blocking calls return: connect() has a timeout,
\* read() and accept() notice that their socket was closed.  A step under the
\* lock also waits here for room in the bounded queue and thread pool, which
\* Java's are not; strong fairness makes up for exactly that.  The user, the
\* peers and the writers owe nothing.
Fairness ==
  /\ WF_vars(~crashed /\ HandleMessage)
  /\ WF_vars(~crashed /\ RunOnNull /\ NullDereference)
  /\ \A s \in Sockets : SF_vars(~crashed /\ ConnectStep(s))
  /\ \A s \in Sockets : SF_vars(~crashed /\ ConnectedStep(s))
  /\ \A a \in AcceptThreads : SF_vars(~crashed /\ AcceptStep(a))

FairSpec == Spec /\ Fairness

-----------------------------------------------------------------------------
(* Properties                                                              *)

\* mState and the thread fields change together: STATE_CONNECTED holds
\* exactly while mConnectedThread is set, so write() never copies a null,
\* and a ConnectThread is remembered only in STATE_CONNECTING, the only
\* state in which connect() bothers to cancel it.
StateMatchesThreads ==
  /\ mState = "CONNECTED" <=> mConnectedThread # None
  /\ mConnectThread # None => mState = "CONNECTING"

\* "We only want to connect to one device": of all ConnectedThreads that are
\* still reading, only mConnectedThread's socket is not closed.
SingleLink ==
  \A s \in Sockets :
    connectedPc[s] = "reading" /\ socket[s] # "closed" => s = mConnectedThread

\* In STATE_LISTEN both AcceptThreads exist, run, and listen on a socket
\* that nobody closed.
ListeningIsReal ==
  mState = "LISTEN" =>
    \A a \in {mSecureAcceptThread, mInsecureAcceptThread} :
      a # None /\ acceptPc[a] # "off" /\ server[a] # "closed"

\* STATE_CONNECTING is never left without a ConnectThread that will end it,
\* although mConnectThread may already be null or belong to someone else.
ConnectingHasThread ==
  mState = "CONNECTING" => \E s \in Sockets : connectPc[s] # "off"

\* Once the Handler has delivered everything, the action bar shows the state
\* of the service and the peer of the connection write() uses.
StatusIsCurrent ==
  queue = << >> =>
    \/ status = Subtitle(mState, mConnectedThread)
    \/ status.title = "blank" /\ mState = "NONE"

\* connect() has an end: STATE_CONNECTING is always left again, unless a
\* refused socket ended the process.
ConnectingEnds == mState = "CONNECTING" ~> mState # "CONNECTING" \/ crashed

\* A cancelled ConnectedThread does not stay blocked in read(), nor between the
\* two calls of start() that follow.
CancelledThreadEnds ==
  \A s \in Sockets :
    connectedPc[s] = "reading" /\ socket[s] = "closed"
      ~> connectedPc[s] = "off" \/ crashed

\* stop() is documented as "Stop all threads": once onDestroy() has called it
\* the service stays in STATE_NONE.
StopIsFinal == destroyed => mState = "NONE"

\* connectionFailed() is documented as "Indicate that the connection attempt
\* failed and notify the UI Activity": the failure of one attempt does not tear
\* a connection whose socket is still good down to STATE_LISTEN.
HealthyLinkKept ==
  [][\A s \in Sockets :
       mConnectedThread = s /\ socket[s] = "connected" => mState' # "LISTEN"]_vars

\* The process dies only of a socket that the adapter refused: no writer ever
\* dereferences a null copy of mConnectedThread, however long ago it was taken
\* under write()'s lock.
CrashNeedsRefusal ==
  crashed => \/ \E s \in Sockets : socket[s] = "null"
             \/ \E a \in AcceptThreads : server[a] = "null"
=============================================================================
