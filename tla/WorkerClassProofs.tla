------------------------- MODULE WorkerClassProofs -------------------------
(***************************************************************************)
(* Proofs about WorkerClass for any number of sockets, threads, writers    *)
(* and messages, and with every failure allowed.                           *)
(***************************************************************************)
EXTENDS WorkerClass, TLAPS, SequenceTheorems

\* A leaf goes to Zenon unless it names another prover.
USE ZenonT(30)

\* An AcceptThread past accept() holds the socket it accepted.
AcceptedHasSocket ==
  \A a \in AcceptThreads : acceptPc[a] = "accepted" => accepted[a] # None

\* The inductive invariant: connected() needs a socket to connect, and the
\* cancelled connection is the only other one that could still be open.
IInv ==
  /\ TypeOK
  /\ AcceptedHasSocket
  /\ StateMatchesThreads
  /\ SingleLink
  /\ ConnectingHasThread

\* What start() leaves behind, whoever calls it.
LEMMA StartFacts ==
  ASSUME TypeOK, start
  PROVE  /\ mState' = "LISTEN"
         /\ mConnectThread' = None
         /\ mConnectedThread' = None
         /\ mSecureAcceptThread' \in AcceptThreads
         /\ mInsecureAcceptThread' \in AcceptThreads
         /\ socket' = Cancelled(Current)
         /\ socket' \in [Sockets -> SocketState]
         /\ server' \in [AcceptThreads -> ServerState]
         /\ acceptPc' \in
              [AcceptThreads -> {"off", "check", "accepting", "accepted"}]
         /\ \A a \in AcceptThreads :
              acceptPc'[a] = "accepted" => acceptPc[a] = "accepted"
         /\ queue' \in Seq(Message)
<1>1. socket' \in [Sockets -> SocketState]
  BY DEF start, Cancelled, TypeOK, SocketState
<1>2. queue' \in Seq(Message)
  <2>1. setStateMessage("LISTEN") \in Message
    BY DEF setStateMessage, Message, States
  <2> QED
    BY <2>1, SMTT(30) DEF start, setState, Notify, TypeOK
<1>3. PICK a \in AcceptThreads, b \in AcceptThreads :
        LET new == {a, b} \ Listening
        IN /\ mSecureAcceptThread' = a
           /\ mInsecureAcceptThread' = b
           /\ acceptPc' = [t \in AcceptThreads |->
                             IF t \in new THEN "check" ELSE acceptPc[t]]
           /\ \E refused \in SUBSET new :
                server' = [t \in AcceptThreads |->
                             IF t \in refused THEN "null"
                             ELSE IF t \in new THEN "open" ELSE server[t]]
  BY SMTT(30) DEF start
<1>4. server' \in [AcceptThreads -> ServerState]
  BY <1>3, SMTT(30) DEF TypeOK, ServerState
<1>5. /\ acceptPc' \in
           [AcceptThreads -> {"off", "check", "accepting", "accepted"}]
      /\ \A t \in AcceptThreads :
           acceptPc'[t] = "accepted" => acceptPc[t] = "accepted"
  BY <1>3 DEF TypeOK
<1> QED
  BY <1>1, <1>2, <1>3, <1>4, <1>5 DEF start, setState

\* What connected() leaves behind for a socket s.
LEMMA ConnectedFacts ==
  ASSUME TypeOK, NEW s \in Sockets, connected(s)
  PROVE  /\ mState' = "CONNECTED"
         /\ mConnectThread' = None
         /\ mConnectedThread' = s
         /\ mSecureAcceptThread' = None
         /\ mInsecureAcceptThread' = None
         /\ socket' = Cancelled(Current)
         /\ socket' \in [Sockets -> SocketState]
         /\ server' \in [AcceptThreads -> ServerState]
         /\ connectedPc' = [connectedPc EXCEPT ![s] = "reading"]
         /\ queue' \in Seq(Message)
<1>1. socket' \in [Sockets -> SocketState]
  BY DEF connected, Cancelled, TypeOK, SocketState
<1>2. server' \in [AcceptThreads -> ServerState]
  BY DEF connected, CancelledServers, TypeOK, ServerState
<1>3. queue' \in Seq(Message)
  <2>1. ConnectedMessages(s) \in Seq(Message)
    BY SMTT(30) DEF ConnectedMessages, setStateMessage, Message, States
  <2> QED
    BY <2>1, SMTT(30) DEF connected, Notify, TypeOK
<1> QED
  BY <1>1, <1>2, <1>3 DEF connected

\* No reading thread but the current one has an open socket, so once Current
\* is cancelled none has.
LEMMA CancelledAll ==
  ASSUME TypeOK, SingleLink, NEW s \in Sockets, connectedPc[s] = "reading"
  PROVE  Cancelled(Current)[s] = "closed"
BY NoneAssumption DEF TypeOK, SingleLink, Cancelled, Current, Ref

\* A step that calls start() and ends or advances the calling thread.
LEMMA StartPreserves ==
  ASSUME IInv, start,
         UNCHANGED <<accepted, writes, ui, life>>,
         connectPc' \in
           [Sockets -> {"off", "connecting", "failed", "reset", "handoff"}],
         connectedPc' \in [Sockets -> {"off", "reading", "lost", "restart"}],
         \A s \in Sockets :
           connectedPc'[s] = "reading" => connectedPc[s] = "reading"
  PROVE  IInv'
<1> USE DEF IInv
<1>1. TypeOK'
  BY StartFacts DEF TypeOK, writes, ui, life, States
<1>2. AcceptedHasSocket'
  BY StartFacts DEF AcceptedHasSocket
<1>3. StateMatchesThreads'
  BY StartFacts DEF StateMatchesThreads
<1>4. SingleLink'
  BY StartFacts, CancelledAll DEF SingleLink
<1>5. ConnectingHasThread'
  BY StartFacts DEF ConnectingHasThread
<1> QED
  BY <1>1, <1>2, <1>3, <1>4, <1>5

\* A step that calls connected(s) and ends or advances the calling thread.
LEMMA ConnectedPreserves ==
  ASSUME IInv, NEW s \in Sockets, connected(s),
         UNCHANGED <<writes, ui, life>>,
         connectPc' \in
           [Sockets -> {"off", "connecting", "failed", "reset", "handoff"}],
         acceptPc' \in
           [AcceptThreads -> {"off", "check", "accepting", "accepted"}],
         accepted' \in [AcceptThreads -> Sockets \cup {None}],
         AcceptedHasSocket'
  PROVE  IInv'
<1> USE DEF IInv
<1>1. TypeOK'
  BY ConnectedFacts DEF TypeOK, writes, ui, life, States
<1>2. StateMatchesThreads'
  BY ConnectedFacts, NoneAssumption DEF StateMatchesThreads
<1>3. SingleLink'
  BY ConnectedFacts, CancelledAll, SMTT(30) DEF SingleLink, TypeOK
<1>4. ConnectingHasThread'
  BY ConnectedFacts DEF ConnectingHasThread
<1> QED
  BY <1>1, <1>2, <1>3, <1>4

\* Every step of the service, its threads, its peers and the activity
\* preserves the inductive invariant.
LEMMA StepPreserves ==
  ASSUME IInv, [Next]_vars
  PROVE  IInv'
<1> USE DEF IInv
<1>1. CASE UNCHANGED vars
  <2>1. TypeOK'
    BY <1>1 DEF TypeOK, vars, fields, accepts, writes, ui, life
  <2>2. AcceptedHasSocket'
    BY <1>1 DEF AcceptedHasSocket, vars, fields, accepts, writes, ui, life
  <2>3. StateMatchesThreads'
    BY <1>1 DEF StateMatchesThreads, vars, fields, accepts, writes, ui, life
  <2>4. SingleLink'
    BY <1>1 DEF SingleLink, vars, fields, accepts, writes, ui, life
  <2>5. ConnectingHasThread'
    BY <1>1 DEF ConnectingHasThread, vars, fields, accepts, writes, ui, life
  <2> QED
    BY <2>1, <2>2, <2>3, <2>4, <2>5
<1>2. CASE Start
  BY <1>2, StartPreserves DEF Start, TypeOK
<1>3. CASE Stop
  <2>1. TypeOK'
    BY <1>3, NoneAssumption, SMTT(30) DEF TypeOK, Stop, setState, Notify,
      setStateMessage, Message, States, Cancelled, CancelledServers,
      Current, Ref, SocketState, ServerState, fields, accepts, writes, ui,
      life
  <2>2. AcceptedHasSocket'
    BY <1>3, NoneAssumption DEF AcceptedHasSocket, TypeOK, Stop, setState,
      Notify, setStateMessage, Message, States, Cancelled,
      CancelledServers, Current, Ref, SocketState, ServerState, fields,
      accepts, writes, ui, life
  <2>3. StateMatchesThreads'
    BY <1>3, NoneAssumption DEF StateMatchesThreads, TypeOK, Stop,
      setState, Notify, setStateMessage, Message, States, Cancelled,
      CancelledServers, Current, Ref, SocketState, ServerState, fields,
      accepts, writes, ui, life
  <2>4. SingleLink'
    BY <1>3, NoneAssumption DEF SingleLink, TypeOK, Stop, setState, Notify,
      setStateMessage, Message, States, Cancelled, CancelledServers,
      Current, Ref, SocketState, ServerState, fields, accepts, writes, ui,
      life
  <2>5. ConnectingHasThread'
    BY <1>3, NoneAssumption DEF ConnectingHasThread, TypeOK, Stop,
      setState, Notify, setStateMessage, Message, States, Cancelled,
      CancelledServers, Current, Ref, SocketState, ServerState, fields,
      accepts, writes, ui, life
  <2> QED
    BY <2>1, <2>2, <2>3, <2>4, <2>5
<1>4. CASE HandleMessage
  <2>1. TypeOK'
    BY <1>4, SMTT(30) DEF TypeOK, HandleMessage, Subtitle, Titles, Message, States,
      fields, accepts, writes, ui, life
  <2>2. AcceptedHasSocket'
    BY <1>4 DEF AcceptedHasSocket, TypeOK, HandleMessage, Subtitle, Titles,
      Message, States, fields, accepts, writes, ui, life
  <2>3. StateMatchesThreads'
    BY <1>4 DEF StateMatchesThreads, TypeOK, HandleMessage, Subtitle,
      Titles, Message, States, fields, accepts, writes, ui, life
  <2>4. SingleLink'
    BY <1>4 DEF SingleLink, TypeOK, HandleMessage, Subtitle, Titles,
      Message, States, fields, accepts, writes, ui, life
  <2>5. ConnectingHasThread'
    BY <1>4 DEF ConnectingHasThread, TypeOK, HandleMessage, Subtitle,
      Titles, Message, States, fields, accepts, writes, ui, life
  <2> QED
    BY <2>1, <2>2, <2>3, <2>4, <2>5
<1>5. CASE NullDereference
  <2>1. TypeOK'
    BY <1>5 DEF TypeOK, NullDereference, fields, accepts, writes, ui, life
  <2>2. AcceptedHasSocket'
    BY <1>5 DEF AcceptedHasSocket, TypeOK, NullDereference, fields,
      accepts, writes, ui, life
  <2>3. StateMatchesThreads'
    BY <1>5 DEF StateMatchesThreads, TypeOK, NullDereference, fields,
      accepts, writes, ui, life
  <2>4. SingleLink'
    BY <1>5 DEF SingleLink, TypeOK, NullDereference, fields, accepts,
      writes, ui, life
  <2>5. ConnectingHasThread'
    BY <1>5 DEF ConnectingHasThread, TypeOK, NullDereference, fields,
      accepts, writes, ui, life
  <2> QED
    BY <2>1, <2>2, <2>3, <2>4, <2>5
<1>6. ASSUME NEW s \in Sockets, Connect(s)
      PROVE  IInv'
  <2>1. TypeOK'
    BY <1>6, NoneAssumption, SMTT(30) DEF TypeOK, Connect, FreshSocket,
      ConnectCancels, setState, Notify, setStateMessage, Message, States,
      Cancelled, Ref, SocketState, fields, accepts, writes, ui, life
  <2>2. AcceptedHasSocket'
    BY <1>6, NoneAssumption DEF AcceptedHasSocket, TypeOK, Connect,
      FreshSocket, ConnectCancels, setState, Notify, setStateMessage,
      Message, States, Cancelled, Ref, SocketState, fields, accepts,
      writes, ui, life
  <2>3. StateMatchesThreads'
    BY <1>6, NoneAssumption DEF StateMatchesThreads, TypeOK, Connect,
      FreshSocket, ConnectCancels, setState, Notify, setStateMessage,
      Message, States, Cancelled, Ref, SocketState, fields, accepts,
      writes, ui, life
  <2>4. SingleLink'
    BY <1>6, NoneAssumption DEF SingleLink, TypeOK, Connect, FreshSocket,
      ConnectCancels, setState, Notify, setStateMessage, Message, States,
      Cancelled, Ref, SocketState, fields, accepts, writes, ui, life
  <2>5. ConnectingHasThread'
    BY <1>6, NoneAssumption DEF ConnectingHasThread, TypeOK, Connect,
      FreshSocket, ConnectCancels, setState, Notify, setStateMessage,
      Message, States, Cancelled, Ref, SocketState, fields, accepts,
      writes, ui, life
  <2> QED
    BY <2>1, <2>2, <2>3, <2>4, <2>5
<1>7. ASSUME NEW s \in Sockets, ConnectReturns(s)
      PROVE  IInv'
  <2>1. TypeOK'
    BY <1>7 DEF TypeOK, ConnectReturns, SocketState, fields, accepts,
      writes, ui, life
  <2>2. AcceptedHasSocket'
    BY <1>7 DEF AcceptedHasSocket, TypeOK, ConnectReturns, SocketState,
      fields, accepts, writes, ui, life
  <2>3. StateMatchesThreads'
    BY <1>7 DEF StateMatchesThreads, TypeOK, ConnectReturns, SocketState,
      fields, accepts, writes, ui, life
  <2>4. SingleLink'
    BY <1>7 DEF SingleLink, TypeOK, ConnectReturns, SocketState, fields,
      accepts, writes, ui, life
  <2>5. ConnectingHasThread'
    BY <1>7 DEF ConnectingHasThread, TypeOK, ConnectReturns, SocketState,
      fields, accepts, writes, ui, life
  <2> QED
    BY <2>1, <2>2, <2>3, <2>4, <2>5
<1>8. ASSUME NEW s \in Sockets, ConnectThrows(s)
      PROVE  IInv'
  <2>1. TypeOK'
    BY <1>8 DEF TypeOK, ConnectThrows, SocketState, fields, accepts,
      writes, ui, life
  <2>2. AcceptedHasSocket'
    BY <1>8 DEF AcceptedHasSocket, TypeOK, ConnectThrows, SocketState,
      fields, accepts, writes, ui, life
  <2>3. StateMatchesThreads'
    BY <1>8 DEF StateMatchesThreads, TypeOK, ConnectThrows, SocketState,
      fields, accepts, writes, ui, life
  <2>4. SingleLink'
    BY <1>8 DEF SingleLink, TypeOK, ConnectThrows, SocketState, fields,
      accepts, writes, ui, life
  <2>5. ConnectingHasThread'
    BY <1>8 DEF ConnectingHasThread, TypeOK, ConnectThrows, SocketState,
      fields, accepts, writes, ui, life
  <2> QED
    BY <2>1, <2>2, <2>3, <2>4, <2>5
<1>9. ASSUME NEW s \in Sockets, ConnectionFailed(s)
      PROVE  IInv'
  BY <1>9, StartPreserves DEF ConnectionFailed, TypeOK
<1>10. ASSUME NEW s \in Sockets, ResetConnectThread(s)
      PROVE  IInv'
  <2>1. TypeOK'
    BY <1>10 DEF TypeOK, ResetConnectThread, fields, accepts, writes, ui, life
  <2>2. AcceptedHasSocket'
    BY <1>10 DEF AcceptedHasSocket, TypeOK, ResetConnectThread, fields,
      accepts, writes, ui, life
  <2>3. StateMatchesThreads'
    BY <1>10 DEF StateMatchesThreads, TypeOK, ResetConnectThread, fields,
      accepts, writes, ui, life
  <2>4. SingleLink'
    BY <1>10 DEF SingleLink, TypeOK, ResetConnectThread, fields, accepts,
      writes, ui, life
  <2>5. ConnectingHasThread'
    BY <1>10 DEF ConnectingHasThread, TypeOK, ResetConnectThread, fields,
      accepts, writes, ui, life
  <2> QED
    BY <2>1, <2>2, <2>3, <2>4, <2>5
<1>11. ASSUME NEW s \in Sockets, ConnectHandoff(s)
      PROVE  IInv'
  BY <1>11, ConnectedPreserves DEF ConnectHandoff, TypeOK, AcceptedHasSocket
<1>12. ASSUME NEW s \in Sockets, ReadThrows(s)
      PROVE  IInv'
  <2>1. TypeOK'
    BY <1>12 DEF TypeOK, ReadThrows, fields, accepts, writes, ui, life
  <2>2. AcceptedHasSocket'
    BY <1>12 DEF AcceptedHasSocket, TypeOK, ReadThrows, fields, accepts,
      writes, ui, life
  <2>3. StateMatchesThreads'
    BY <1>12 DEF StateMatchesThreads, TypeOK, ReadThrows, fields, accepts,
      writes, ui, life
  <2>4. SingleLink'
    BY <1>12 DEF SingleLink, TypeOK, ReadThrows, fields, accepts, writes,
      ui, life
  <2>5. ConnectingHasThread'
    BY <1>12 DEF ConnectingHasThread, TypeOK, ReadThrows, fields, accepts,
      writes, ui, life
  <2> QED
    BY <2>1, <2>2, <2>3, <2>4, <2>5
<1>13. ASSUME NEW s \in Sockets, ConnectionLost(s)
      PROVE  IInv'
  BY <1>13, StartPreserves DEF ConnectionLost, TypeOK
<1>14. ASSUME NEW s \in Sockets, RestartAfterLoss(s)
      PROVE  IInv'
  BY <1>14, StartPreserves DEF RestartAfterLoss, TypeOK
<1>15. ASSUME NEW s \in Sockets, PeerLost(s)
      PROVE  IInv'
  <2>1. TypeOK'
    BY <1>15 DEF TypeOK, PeerLost, SocketState, fields, accepts, writes,
      ui, life
  <2>2. AcceptedHasSocket'
    BY <1>15 DEF AcceptedHasSocket, TypeOK, PeerLost, SocketState, fields,
      accepts, writes, ui, life
  <2>3. StateMatchesThreads'
    BY <1>15 DEF StateMatchesThreads, TypeOK, PeerLost, SocketState,
      fields, accepts, writes, ui, life
  <2>4. SingleLink'
    BY <1>15 DEF SingleLink, TypeOK, PeerLost, SocketState, fields,
      accepts, writes, ui, life
  <2>5. ConnectingHasThread'
    BY <1>15 DEF ConnectingHasThread, TypeOK, PeerLost, SocketState,
      fields, accepts, writes, ui, life
  <2> QED
    BY <2>1, <2>2, <2>3, <2>4, <2>5
<1>16. ASSUME NEW a \in AcceptThreads, AcceptCheck(a)
      PROVE  IInv'
  <2>1. TypeOK'
    BY <1>16 DEF TypeOK, AcceptCheck, fields, accepts, writes, ui, life
  <2>2. AcceptedHasSocket'
    BY <1>16 DEF AcceptedHasSocket, TypeOK, AcceptCheck, fields, accepts,
      writes, ui, life
  <2>3. StateMatchesThreads'
    BY <1>16 DEF StateMatchesThreads, TypeOK, AcceptCheck, fields, accepts,
      writes, ui, life
  <2>4. SingleLink'
    BY <1>16 DEF SingleLink, TypeOK, AcceptCheck, fields, accepts, writes,
      ui, life
  <2>5. ConnectingHasThread'
    BY <1>16 DEF ConnectingHasThread, TypeOK, AcceptCheck, fields, accepts,
      writes, ui, life
  <2> QED
    BY <2>1, <2>2, <2>3, <2>4, <2>5
<1>17. ASSUME NEW a \in AcceptThreads, AcceptThrows(a)
      PROVE  IInv'
  <2>1. TypeOK'
    BY <1>17 DEF TypeOK, AcceptThrows, fields, accepts, writes, ui, life
  <2>2. AcceptedHasSocket'
    BY <1>17 DEF AcceptedHasSocket, TypeOK, AcceptThrows, fields, accepts,
      writes, ui, life
  <2>3. StateMatchesThreads'
    BY <1>17 DEF StateMatchesThreads, TypeOK, AcceptThrows, fields,
      accepts, writes, ui, life
  <2>4. SingleLink'
    BY <1>17 DEF SingleLink, TypeOK, AcceptThrows, fields, accepts, writes,
      ui, life
  <2>5. ConnectingHasThread'
    BY <1>17 DEF ConnectingHasThread, TypeOK, AcceptThrows, fields,
      accepts, writes, ui, life
  <2> QED
    BY <2>1, <2>2, <2>3, <2>4, <2>5
<1>18. ASSUME NEW a \in AcceptThreads, AcceptConnected(a)
      PROVE  IInv'
  BY <1>18, ConnectedPreserves DEF AcceptConnected, TypeOK, AcceptedHasSocket
<1>19. ASSUME NEW a \in AcceptThreads, AcceptRefused(a)
      PROVE  IInv'
  <2>1. TypeOK'
    BY <1>19 DEF TypeOK, AcceptRefused, Cancelled, SocketState, fields,
      accepts, writes, ui, life
  <2>2. AcceptedHasSocket'
    BY <1>19 DEF AcceptedHasSocket, TypeOK, AcceptRefused, Cancelled,
      SocketState, fields, accepts, writes, ui, life
  <2>3. StateMatchesThreads'
    BY <1>19 DEF StateMatchesThreads, TypeOK, AcceptRefused, Cancelled,
      SocketState, fields, accepts, writes, ui, life
  <2>4. SingleLink'
    BY <1>19 DEF SingleLink, TypeOK, AcceptRefused, Cancelled, SocketState,
      fields, accepts, writes, ui, life
  <2>5. ConnectingHasThread'
    BY <1>19 DEF ConnectingHasThread, TypeOK, AcceptRefused, Cancelled,
      SocketState, fields, accepts, writes, ui, life
  <2> QED
    BY <2>1, <2>2, <2>3, <2>4, <2>5
<1>20. ASSUME NEW a \in AcceptThreads, NEW s \in Sockets, AcceptReturns(a, s)
      PROVE  IInv'
  <2>1. TypeOK'
    BY <1>20, NoneAssumption DEF TypeOK, AcceptReturns, FreshSocket,
      SocketState, fields, accepts, writes, ui, life
  <2>2. AcceptedHasSocket'
    BY <1>20, NoneAssumption DEF AcceptedHasSocket, TypeOK, AcceptReturns,
      FreshSocket, SocketState, fields, accepts, writes, ui, life
  <2>3. StateMatchesThreads'
    BY <1>20, NoneAssumption DEF StateMatchesThreads, TypeOK,
      AcceptReturns, FreshSocket, SocketState, fields, accepts, writes, ui,
      life
  <2>4. SingleLink'
    BY <1>20, NoneAssumption DEF SingleLink, TypeOK, AcceptReturns,
      FreshSocket, SocketState, fields, accepts, writes, ui, life
  <2>5. ConnectingHasThread'
    BY <1>20, NoneAssumption DEF ConnectingHasThread, TypeOK,
      AcceptReturns, FreshSocket, SocketState, fields, accepts, writes, ui,
      life
  <2> QED
    BY <2>1, <2>2, <2>3, <2>4, <2>5
<1>21. ASSUME NEW w \in Writers, WriteSnapshot(w)
      PROVE  IInv'
  <2>1. TypeOK'
    BY <1>21 DEF TypeOK, WriteSnapshot, fields, accepts, writes, ui, life
  <2>2. AcceptedHasSocket'
    BY <1>21 DEF AcceptedHasSocket, TypeOK, WriteSnapshot, fields, accepts,
      writes, ui, life
  <2>3. StateMatchesThreads'
    BY <1>21 DEF StateMatchesThreads, TypeOK, WriteSnapshot, fields,
      accepts, writes, ui, life
  <2>4. SingleLink'
    BY <1>21 DEF SingleLink, TypeOK, WriteSnapshot, fields, accepts,
      writes, ui, life
  <2>5. ConnectingHasThread'
    BY <1>21 DEF ConnectingHasThread, TypeOK, WriteSnapshot, fields,
      accepts, writes, ui, life
  <2> QED
    BY <2>1, <2>2, <2>3, <2>4, <2>5
<1>22. ASSUME NEW w \in Writers, WriteStream(w)
      PROVE  IInv'
  <2>1. TypeOK'
    BY <1>22 DEF TypeOK, WriteStream, fields, accepts, writes, ui, life
  <2>2. AcceptedHasSocket'
    BY <1>22 DEF AcceptedHasSocket, TypeOK, WriteStream, fields, accepts,
      writes, ui, life
  <2>3. StateMatchesThreads'
    BY <1>22 DEF StateMatchesThreads, TypeOK, WriteStream, fields, accepts,
      writes, ui, life
  <2>4. SingleLink'
    BY <1>22 DEF SingleLink, TypeOK, WriteStream, fields, accepts, writes,
      ui, life
  <2>5. ConnectingHasThread'
    BY <1>22 DEF ConnectingHasThread, TypeOK, WriteStream, fields, accepts,
      writes, ui, life
  <2> QED
    BY <2>1, <2>2, <2>3, <2>4, <2>5
<1> QED
  BY <1>1, <1>2, <1>3, <1>4, <1>5, <1>6, <1>7, <1>8, <1>9, <1>10, <1>11,
    <1>12, <1>13, <1>14, <1>15, <1>16, <1>17, <1>18, <1>19, <1>20, <1>21,
    <1>22
  DEF Next, ConnectStep, ConnectedStep, AcceptStep

\* The service starts in the inductive invariant.
LEMMA InitHolds == Init => IInv
<1> SUFFICES ASSUME Init PROVE IInv
  OBVIOUS
<1>1. TypeOK
  <2>1. queue \in Seq(Message)
    BY SMTT(30) DEF Init
  <2>2. writing \in [Writers -> BOOLEAN] /\ destroyed \in BOOLEAN
          /\ crashed \in BOOLEAN
    BY DEF Init
  <2>3. status \in [title : Titles, device : Sockets \cup {None}]
    BY DEF Init, Titles
  <2> QED
    BY <2>1, <2>2, <2>3 DEF Init, TypeOK, States, SocketState, ServerState
<1>2. AcceptedHasSocket /\ SingleLink
  BY DEF Init, AcceptedHasSocket, SingleLink
<1>3. StateMatchesThreads /\ ConnectingHasThread
  BY DEF Init, StateMatchesThreads, ConnectingHasThread
<1> QED
  BY <1>1, <1>2, <1>3 DEF IInv

\* The inductive invariant holds in every state of the service.
THEOREM Invariance == Spec => []IInv
BY InitHolds, StepPreserves, PTL DEF Spec

\* The fields of WorkerClass and its threads keep their types.
THEOREM TypeCorrect == Spec => []TypeOK
<1>1. IInv => TypeOK
  BY DEF IInv
<1> QED
  BY <1>1, Invariance, PTL

\* mState and the thread fields agree in every state, whatever fails.
THEOREM StateAgrees == Spec => []StateMatchesThreads
<1>1. IInv => StateMatchesThreads
  BY DEF IInv
<1> QED
  BY <1>1, Invariance, PTL

\* At most one connection is open and read: connected(), connect() and
\* start() never leave a second one behind.
THEOREM OneLink == Spec => []SingleLink
<1>1. IInv => SingleLink
  BY DEF IInv
<1> QED
  BY <1>1, Invariance, PTL

\* STATE_CONNECTING always has a ConnectThread that can end it.
THEOREM ConnectingIsAlive == Spec => []ConnectingHasThread
<1>1. IInv => ConnectingHasThread
  BY DEF IInv
<1> QED
  BY <1>1, Invariance, PTL

\* When sockets can always be created: none is null, and a writer that left
\* write()'s lock has a thread to write to.
NoNull ==
  /\ \A s \in Sockets : socket[s] # "null"
  /\ \A a \in AcceptThreads : server[a] # "null"
  /\ \A w \in Writers : writing[w] => snapshot[w] # None
  /\ ~crashed

\* No step makes a null or uses one, when sockets can always be created.
LEMMA NoNullPreserved ==
  ASSUME ~CreateMayFail, IInv, NoNull, [Next]_vars
  PROVE  NoNull'
<1> USE DEF IInv, NoNull
<1>1. CASE UNCHANGED vars
  BY <1>1 DEF vars, fields, accepts, writes, ui, life
<1>2. ASSUME start, UNCHANGED <<writes, life>>
      PROVE  NoNull'
  <2>1. \A s \in Sockets : socket'[s] # "null"
    BY <1>2 DEF start, Cancelled
  <2>2. \A a \in AcceptThreads : server'[a] # "null"
    BY <1>2, SMTT(30) DEF start
  <2> QED
    BY <1>2, <2>1, <2>2 DEF writes, life
<1>3. ASSUME NEW s \in Sockets, connected(s), UNCHANGED <<writes, life>>
      PROVE  NoNull'
  BY <1>3 DEF connected, Cancelled, CancelledServers, writes, life
<1>4. CASE Start \/ Stop \/ HandleMessage
  BY <1>2, <1>4, SMTT(30) DEF Start, Stop, HandleMessage, Cancelled, CancelledServers,
     fields, accepts, writes, ui, life
<1>5. CASE NullDereference
  <2>1. Cancellable(Current, Listening) /\ Cancellable(Current, {})
    BY DEF Cancellable, Current, Listening, Ref, TypeOK
  <2> QED
    BY <1>5, <2>1 DEF NullDereference, RunOnNull, CancelOnNull
<1>6. ASSUME NEW s \in Sockets, Connect(s) \/ ConnectStep(s)
      PROVE  NoNull'
  <2>1. CASE Connect(s)
    BY <2>1 DEF Connect, Cancelled, fields, accepts, writes, ui, life
  <2>2. CASE ConnectReturns(s) \/ ConnectThrows(s) \/ ResetConnectThread(s)
    BY <2>2, SMTT(30) DEF ConnectReturns, ConnectThrows, ResetConnectThread, TypeOK,
       fields, accepts, writes, ui, life
  <2>3. CASE ConnectionFailed(s)
    BY <1>2, <2>3 DEF ConnectionFailed
  <2>4. CASE ConnectHandoff(s)
    BY <1>3, <2>4 DEF ConnectHandoff
  <2> QED
    BY <1>6, <2>1, <2>2, <2>3, <2>4 DEF ConnectStep
<1>7. ASSUME NEW s \in Sockets, ConnectedStep(s) \/ PeerLost(s)
      PROVE  NoNull'
  BY <1>2, <1>7, SMTT(30) DEF ConnectedStep, ReadThrows, ConnectionLost,
     RestartAfterLoss, PeerLost, TypeOK, fields, accepts, writes, ui, life
<1>8. ASSUME NEW a \in AcceptThreads, AcceptStep(a)
      PROVE  NoNull'
  BY <1>3, <1>8, SMTT(30) DEF AcceptStep, AcceptCheck, AcceptThrows, AcceptConnected,
     AcceptRefused, Cancelled, AcceptedHasSocket, TypeOK, fields, accepts,
     writes, ui, life
<1>9. ASSUME NEW a \in AcceptThreads, NEW s \in Sockets, AcceptReturns(a, s)
      PROVE  NoNull'
  BY <1>9 DEF AcceptReturns, TypeOK, fields, accepts, writes, ui, life
<1>10. ASSUME NEW w \in Writers, WriteSnapshot(w) \/ WriteStream(w)
       PROVE  NoNull'
  BY <1>10, SMTT(30) DEF WriteSnapshot, WriteStream, StateMatchesThreads, TypeOK,
     fields, accepts, writes, ui, life
<1> QED
  BY <1>1, <1>4, <1>5, <1>6, <1>7, <1>8, <1>9, <1>10 DEF Next

\* If sockets can always be created, nobody dereferences null: write() may
\* use its copy of mConnectedThread after it gave up the lock.
THEOREM NullSafe == ~CreateMayFail => (Spec => [](~crashed))
<1> SUFFICES ASSUME ~CreateMayFail PROVE Spec => [](~crashed)
  OBVIOUS
<1>1. Init => NoNull
  BY DEF Init, NoNull
<1>2. IInv /\ NoNull /\ [Next]_vars => NoNull'
  BY NoNullPreserved
<1>3. NoNull => ~crashed
  BY DEF NoNull
<1> QED
  BY <1>1, <1>2, <1>3, Invariance, PTL DEF Spec

\* A writer that is about to call r.write() has an r.
WritersReady == \A w \in Writers : writing[w] => snapshot[w] # None

\* Only write() touches its locals, and it copies mConnectedThread only in
\* STATE_CONNECTED, when StateMatchesThreads says that it is not null.
LEMMA WritersReadyPreserved ==
  ASSUME IInv, WritersReady, [Next]_vars
  PROVE  WritersReady'
<1> USE DEF WritersReady
<1>1. ASSUME NEW w \in Writers, WriteSnapshot(w) \/ WriteStream(w)
      PROVE  WritersReady'
  BY <1>1 DEF IInv, WriteSnapshot, WriteStream, StateMatchesThreads, TypeOK
<1>2. ASSUME UNCHANGED writes
      PROVE  WritersReady'
  BY <1>2 DEF writes
<1>3. \/ UNCHANGED writes
      \/ \E w \in Writers : WriteSnapshot(w) \/ WriteStream(w)
  BY DEF Next, vars, Start, Stop, HandleMessage, NullDereference, Connect,
     ConnectStep, ConnectReturns, ConnectThrows, ConnectionFailed,
     ResetConnectThread, ConnectHandoff, ConnectedStep, ReadThrows,
     ConnectionLost, RestartAfterLoss, PeerLost, AcceptStep, AcceptCheck,
     AcceptThrows, AcceptConnected, AcceptRefused, AcceptReturns
<1> QED
  BY <1>1, <1>2, <1>3

\* The step in which the process dies finds a null socket.
LEMMA CrashFindsNull ==
  ASSUME IInv, WritersReady, NullDereference
  PROVE  CrashNeedsRefusal'
<1>1. socket' = socket /\ server' = server
  BY DEF NullDereference, accepts
<1>2. CASE RunOnNull
  BY <1>1, <1>2 DEF RunOnNull, WritersReady, CrashNeedsRefusal
<1>3. CASE CancelOnNull
  <2>1. Current \subseteq Sockets /\ Listening \subseteq AcceptThreads
    BY DEF IInv, TypeOK, Current, Listening, Ref
  <2> QED
    BY <1>1, <1>3, <2>1 DEF CancelOnNull, Cancellable, CrashNeedsRefusal
<1> QED
  BY <1>2, <1>3 DEF NullDereference

\* Whatever fails, the process dies only of a socket the adapter refused: no
\* writer dereferences the copy of mConnectedThread it took under the lock.
THEOREM CrashOnlyByRefusal == Spec => []CrashNeedsRefusal
<1>1. Init => WritersReady /\ CrashNeedsRefusal
  BY DEF Init, WritersReady, CrashNeedsRefusal
<1>2. IInv /\ WritersReady /\ CrashNeedsRefusal /\ [Next]_vars
        => CrashNeedsRefusal'
  <2> SUFFICES ASSUME IInv, WritersReady, CrashNeedsRefusal, [Next]_vars
               PROVE  CrashNeedsRefusal'
    OBVIOUS
  <2>1. CASE NullDereference
    BY <2>1, CrashFindsNull
  <2>2. CASE UNCHANGED vars
    BY <2>2 DEF vars, accepts, life, CrashNeedsRefusal
  <2>3. CASE ~crashed /\ UNCHANGED crashed
    BY <2>3 DEF CrashNeedsRefusal
  <2>4. NullDereference \/ UNCHANGED vars \/ (~crashed /\ UNCHANGED crashed)
    BY DEF Next, life, Start, Stop, HandleMessage, Connect, ConnectStep,
       ConnectReturns, ConnectThrows, ConnectionFailed, ResetConnectThread,
       ConnectHandoff, ConnectedStep, ReadThrows, ConnectionLost,
       RestartAfterLoss, PeerLost, AcceptStep, AcceptCheck, AcceptThrows,
       AcceptConnected, AcceptRefused, AcceptReturns, WriteSnapshot,
       WriteStream
  <2> QED
    BY <2>1, <2>2, <2>3, <2>4
<1> QED
  BY <1>1, <1>2, WritersReadyPreserved, Invariance, PTL DEF Spec

-----------------------------------------------------------------------------
(* What the activity shows.                                                *)

DeviceName(s) == [what |-> "DEVICE_NAME", arg |-> s]

\* The Handler's queue always ends with the state the service is in now; in
\* STATE_CONNECTED the name of the peer comes right before it, or was the last
\* name delivered.
QueueTellsState ==
  /\ queue # << >> => queue[Len(queue)] = setStateMessage(mState)
  /\ mState = "CONNECTED" /\ Len(queue) = 1
       => mConnectedDeviceName = mConnectedThread
  /\ mState = "CONNECTED" /\ Len(queue) > 1
       => queue[Len(queue) - 1] = DeviceName(mConnectedThread)

\* The steps that matter to the queue: setState() to another state than
\* STATE_CONNECTED, connected(), handleMessage(), and steps of no consequence.
Announces ==
  /\ mState' # "CONNECTED" /\ UNCHANGED ui
  /\ queue' = queue \o <<setStateMessage(mState')>>

AnnouncesLink ==
  /\ mState' = "CONNECTED" /\ UNCHANGED ui
  /\ queue' = queue \o <<DeviceName(mConnectedThread'),
                         setStateMessage("CONNECTED")>>

Silent == UNCHANGED <<queue, mState, mConnectedThread, ui>>

\* Every step announces a state, a state and a link, handles a message, or is
\* silent.
LEMMA QueueSteps ==
  ASSUME [Next]_vars
  PROVE  Announces \/ AnnouncesLink \/ HandleMessage \/ Silent
<1>1. ASSUME start, UNCHANGED ui PROVE Announces
  BY <1>1 DEF start, setState, Notify, Announces
<1>2. ASSUME NEW s, connected(s), UNCHANGED ui PROVE AnnouncesLink
  BY <1>2 DEF connected, Notify, ConnectedMessages, DeviceName, AnnouncesLink
<1>3. CASE UNCHANGED vars
  BY <1>3 DEF vars, fields, ui, Silent
<1>4. CASE Start
  BY <1>1, <1>4 DEF Start
<1>5. CASE Stop
  BY <1>5 DEF Stop, setState, Notify, Announces
<1>6. CASE HandleMessage \/ NullDereference
  BY <1>6 DEF NullDereference, fields, Silent
<1>7. ASSUME NEW s \in Sockets, Connect(s) PROVE Announces
  BY <1>7 DEF Connect, setState, Notify, Announces
<1>8. ASSUME NEW s \in Sockets, ConnectStep(s)
      PROVE  Announces \/ AnnouncesLink \/ Silent
  BY <1>1, <1>2, <1>8 DEF ConnectStep, ConnectReturns, ConnectThrows,
     ConnectionFailed, ResetConnectThread, ConnectHandoff, fields, Silent
<1>9. ASSUME NEW s \in Sockets, ConnectedStep(s) \/ PeerLost(s)
      PROVE  Announces \/ Silent
  BY <1>1, <1>9 DEF ConnectedStep, ReadThrows, ConnectionLost,
     RestartAfterLoss, PeerLost, fields, Silent
<1>10. ASSUME NEW a \in AcceptThreads, AcceptStep(a)
       PROVE  AnnouncesLink \/ Silent
  BY <1>2, <1>10 DEF AcceptStep, AcceptCheck, AcceptThrows, AcceptConnected,
     AcceptRefused, fields, Silent
<1>11. ASSUME NEW a \in AcceptThreads, NEW s \in Sockets, AcceptReturns(a, s)
       PROVE  Silent
  BY <1>11 DEF AcceptReturns, fields, Silent
<1>12. ASSUME NEW w \in Writers, WriteSnapshot(w) \/ WriteStream(w)
       PROVE  Silent
  BY <1>12 DEF WriteSnapshot, WriteStream, fields, Silent
<1> QED
  BY <1>3, <1>4, <1>5, <1>6, <1>7, <1>8, <1>9, <1>10, <1>11, <1>12 DEF Next

\* handleMessage() leaves the end of the queue alone, and with the last
\* message the subtitle becomes current.
LEMMA HandleMessagePreserves ==
  ASSUME IInv, QueueTellsState, StatusIsCurrent, HandleMessage
  PROVE  QueueTellsState' /\ StatusIsCurrent'
<1> DEFINE n == Len(queue)
<1>1. /\ queue # << >> /\ queue' = Tail(queue)
      /\ UNCHANGED <<mState, mConnectedThread>>
  BY DEF HandleMessage, fields
<1>2. /\ n \in Nat /\ n # 0 /\ queue \in Seq(Message)
      /\ Len(queue') = n - 1
      /\ \A i \in 1..n - 1 : queue'[i] = queue[i + 1]
      /\ Head(queue) = queue[1]
  <2>1. queue \in Seq(Message)
    BY DEF IInv, TypeOK
  <2>2. n \in Nat /\ n # 0
    BY <1>1, <2>1, EmptySeq
  <2>3. Len(Tail(queue)) = n - 1
        /\ \A i \in 1..Len(Tail(queue)) : Tail(queue)[i] = queue[i + 1]
    BY <1>1, <2>1, HeadTailProperties
  <2>4. Head(queue) = queue[1]
    BY <1>1, <2>1, SMTT(30)
  <2>5. Len(queue') = n - 1
    BY <1>1, <2>3
  <2>6. \A i \in 1..n - 1 : queue'[i] = queue[i + 1]
    BY <1>1, <2>3
  <2> QED
    BY <2>1, <2>2, <2>4, <2>5, <2>6
<1>3. queue' # << >> => n # 1
  BY <1>1, <1>2, SMTT(30)
<1>4. queue' = << >> => n = 1
  BY <1>2, EmptySeq, SMTT(30)
<1>5. queue[n] = setStateMessage(mState)
  BY <1>1 DEF QueueTellsState
<1>6. CASE n = 1
  <2>1. Head(queue) = setStateMessage(mState)
    BY <1>2, <1>5, <1>6
  <2>2. /\ status' = Subtitle(mState, mConnectedDeviceName)
        /\ UNCHANGED mConnectedDeviceName
    BY <2>1, SMTT(30) DEF HandleMessage, setStateMessage
  <2>3. mState = "CONNECTED" => mConnectedDeviceName = mConnectedThread
    BY <1>6 DEF QueueTellsState
  <2>4. status' = Subtitle(mState', mConnectedThread')
    BY <1>1, <2>2, <2>3 DEF Subtitle
  <2>5. Len(queue') = 0 /\ queue' = << >>
    BY <1>2, <1>3, <1>6
  <2> QED
    BY <2>4, <2>5, SMTT(30) DEF QueueTellsState, StatusIsCurrent
<1>7. CASE n # 1
  <2>1. queue' # << >> /\ n > 1
    BY <1>2, <1>4, <1>7, SMTT(30)
  <2>2. queue'[Len(queue')] = setStateMessage(mState')
    BY <1>1, <1>2, <1>5, <2>1, SMTT(30)
  <2>3. mState = "CONNECTED" => queue[n - 1] = DeviceName(mConnectedThread)
    BY <2>1 DEF QueueTellsState
  <2>4. ASSUME mState = "CONNECTED", Len(queue') = 1
        PROVE  mConnectedDeviceName' = mConnectedThread'
    <3>1. Head(queue) = DeviceName(mConnectedThread)
      BY <1>2, <2>3, <2>4
    <3> QED
      BY <1>1, <3>1, SMTT(30) DEF HandleMessage, DeviceName
  <2>5. ASSUME mState = "CONNECTED", Len(queue') > 1
        PROVE  queue'[Len(queue') - 1] = DeviceName(mConnectedThread')
    <3>1. n - 2 \in 1..n - 1 /\ (n - 2) + 1 = n - 1
      BY <1>2, <2>5, SMTT(30)
    <3> QED
      BY <1>1, <1>2, <2>3, <2>5, <3>1, SMTT(30)
  <2> QED
    BY <1>1, <2>1, <2>2, <2>4, <2>5 DEF QueueTellsState, StatusIsCurrent
<1> QED
  BY <1>6, <1>7

\* Every step keeps the end of the queue true and the subtitle current.
LEMMA QueuePreserved ==
  ASSUME IInv, QueueTellsState, StatusIsCurrent, [Next]_vars
  PROVE  QueueTellsState' /\ StatusIsCurrent'
<1> DEFINE n == Len(queue)
<1>1. queue \in Seq(Message) /\ n \in Nat
  BY LenProperties DEF IInv, TypeOK
<1>2. CASE Announces
  <2>1. /\ Len(queue') = n + 1
        /\ queue'[n + 1] = setStateMessage(mState')
    BY <1>1, <1>2, SMTT(30) DEF Announces
  <2>2. queue' # << >>
    BY <1>1, <2>1, SMTT(30)
  <2> QED
    BY <1>2, <2>1, <2>2 DEF Announces, QueueTellsState, StatusIsCurrent
<1>3. CASE AnnouncesLink
  <2>1. /\ Len(queue') = n + 2
        /\ queue'[n + 1] = DeviceName(mConnectedThread')
        /\ queue'[n + 2] = setStateMessage("CONNECTED")
    BY <1>1, <1>3, SMTT(30) DEF AnnouncesLink
  <2>2. queue' # << >> /\ Len(queue') # 1 /\ Len(queue') - 1 = n + 1
    BY <1>1, <2>1, SMTT(30)
  <2> QED
    BY <1>3, <2>1, <2>2 DEF AnnouncesLink, QueueTellsState, StatusIsCurrent
<1>4. CASE HandleMessage
  BY <1>4, HandleMessagePreserves
<1>5. CASE Silent
  BY <1>5 DEF Silent, ui, QueueTellsState, StatusIsCurrent
<1> QED
  BY <1>2, <1>3, <1>4, <1>5, QueueSteps

\* When the Handler has delivered everything, the subtitle shows the state of
\* the service and the peer that write() writes to, for any number of
\* messages in between.
THEOREM StatusCurrent == Spec => []StatusIsCurrent
<1>1. Init => QueueTellsState /\ StatusIsCurrent
  BY SMTT(30) DEF Init, QueueTellsState, StatusIsCurrent
<1> QED
  BY <1>1, QueuePreserved, Invariance, PTL DEF Spec

-----------------------------------------------------------------------------
(* Listening.                                                              *)

\* The AcceptThreads the fields refer to run and listen; STATE_LISTEN has
\* both of them, STATE_CONNECTED none.
ListenersRun ==
  /\ \A a \in Listening : acceptPc[a] # "off" /\ server[a] # "closed"
  /\ mState = "LISTEN" =>
       mSecureAcceptThread # None /\ mInsecureAcceptThread # None
  /\ mState = "CONNECTED" => Listening = {}

\* start() replaces the missing AcceptThreads and keeps the others.
LEMMA StartListens ==
  ASSUME IInv, ListenersRun, start
  PROVE  ListenersRun'
<1>1. PICK a \in AcceptThreads, b \in AcceptThreads :
        LET new == {a, b} \ Listening
        IN /\ mSecureAcceptThread' = a
           /\ mInsecureAcceptThread' = b
           /\ acceptPc' = [t \in AcceptThreads |->
                             IF t \in new THEN "check" ELSE acceptPc[t]]
           /\ \E refused \in SUBSET new :
                server' = [t \in AcceptThreads |->
                             IF t \in refused THEN "null"
                             ELSE IF t \in new THEN "open" ELSE server[t]]
  BY SMTT(30) DEF start
<1>2. mState' = "LISTEN"
  BY DEF start, setState
<1>3. \A t \in {a, b} : acceptPc'[t] # "off" /\ server'[t] # "closed"
  BY <1>1 DEF ListenersRun
<1> QED
  BY <1>1, <1>2, <1>3, NoneAssumption DEF ListenersRun, Listening, Ref

\* Steps that leave the fields of the AcceptThreads alone: only a loop that
\* finds STATE_CONNECTED or a closed server socket ends an AcceptThread.
LEMMA AcceptListens ==
  ASSUME ~AcceptMayFail, IInv, ListenersRun, NEW a \in AcceptThreads,
         \/ AcceptCheck(a) \/ AcceptThrows(a) \/ AcceptRefused(a)
         \/ \E s \in Sockets : AcceptReturns(a, s)
  PROVE  ListenersRun'
<1>1. /\ UNCHANGED <<mState, mSecureAcceptThread, mInsecureAcceptThread, server>>
      /\ \E to \in {"off", "check", "accepting", "accepted"} :
           /\ acceptPc' = [acceptPc EXCEPT ![a] = to]
           /\ to = "off" => mState = "CONNECTED" \/ server[a] = "closed"
  BY DEF AcceptCheck, AcceptThrows, AcceptRefused, AcceptReturns, MustEnd,
     fields
<1>2. Listening' = Listening /\ Listening \subseteq AcceptThreads
  BY <1>1 DEF Listening, Ref, IInv, TypeOK
<1> QED
  BY <1>1, <1>2 DEF ListenersRun, IInv, TypeOK

\* Every step keeps the AcceptThreads of the fields running.
LEMMA ListenersPreserved ==
  ASSUME ~AcceptMayFail, IInv, ListenersRun, [Next]_vars
  PROVE  ListenersRun'
<1>1. ASSUME NEW s, connected(s)
      PROVE  ListenersRun'
  BY <1>1 DEF connected, ListenersRun, Listening, Ref
<1>2. ASSUME UNCHANGED accepts, mState' = mState \/ mState' = "CONNECTING"
      PROVE  ListenersRun'
  BY <1>2 DEF accepts, ListenersRun, Listening, Ref
<1>3. CASE UNCHANGED vars
  BY <1>2, <1>3 DEF vars, fields
<1>4. CASE Start
  BY <1>4, StartListens DEF Start
<1>5. CASE Stop
  BY <1>5 DEF Stop, setState, ListenersRun, Listening, Ref
<1>6. CASE HandleMessage \/ NullDereference
  BY <1>2, <1>6 DEF HandleMessage, NullDereference, fields
<1>7. ASSUME NEW s \in Sockets, Connect(s) PROVE ListenersRun'
  BY <1>2, <1>7 DEF Connect, setState
<1>8. ASSUME NEW s \in Sockets, ConnectStep(s) PROVE ListenersRun'
  BY <1>1, <1>2, <1>8, StartListens DEF ConnectStep, ConnectReturns,
     ConnectThrows, ConnectionFailed, ResetConnectThread, ConnectHandoff,
     fields
<1>9. ASSUME NEW s \in Sockets, ConnectedStep(s) \/ PeerLost(s)
      PROVE  ListenersRun'
  BY <1>2, <1>9, StartListens DEF ConnectedStep, ReadThrows, ConnectionLost,
     RestartAfterLoss, PeerLost, fields
<1>10. ASSUME NEW a \in AcceptThreads, AcceptConnected(a) PROVE ListenersRun'
  BY <1>1, <1>10 DEF AcceptConnected
<1>11. ASSUME NEW a \in AcceptThreads,
              \/ AcceptCheck(a) \/ AcceptThrows(a) \/ AcceptRefused(a)
              \/ \E s \in Sockets : AcceptReturns(a, s)
       PROVE  ListenersRun'
  BY <1>11, AcceptListens
<1>12. ASSUME NEW w \in Writers, WriteSnapshot(w) \/ WriteStream(w)
       PROVE  ListenersRun'
  BY <1>2, <1>12 DEF WriteSnapshot, WriteStream, fields
<1> QED
  BY <1>3, <1>4, <1>5, <1>6, <1>7, <1>8, <1>9, <1>10, <1>11, <1>12
  DEF Next, AcceptStep

\* As long as accept() fails only on a closed socket, STATE_LISTEN means that
\* both AcceptThreads run and that nobody closed their server sockets.
THEOREM ListenersLive == ~AcceptMayFail => (Spec => []ListeningIsReal)
<1> SUFFICES ASSUME ~AcceptMayFail PROVE Spec => []ListeningIsReal
  OBVIOUS
<1>1. Init => ListenersRun
  BY DEF Init, ListenersRun, Listening, Ref
<1>2. IInv /\ ListenersRun /\ [Next]_vars => ListenersRun'
  BY ListenersPreserved
<1>3. ListenersRun => ListeningIsReal
  BY DEF ListenersRun, Listening, Ref, ListeningIsReal
<1> QED
  BY <1>1, <1>2, <1>3, Invariance, PTL DEF Spec
-----------------------------------------------------------------------------
(* Action properties: how a socket and a connection end.                   *)

\* A thread runs on socket s.
Busy(s) == connectPc[s] # "off" \/ connectedPc[s] # "off"

\* The error paths are taken only with a socket that is gone.
ErrorPathsDead ==
  \A s \in Sockets :
    /\ connectPc[s] = "failed" => socket[s] = "closed"
    /\ connectedPc[s] \in {"lost", "restart"} => socket[s] \in {"lost", "closed"}

\* While a thread runs on it, a socket that is gone does not come back.
LEMMA SocketStaysGone ==
  ASSUME TypeOK, [Next]_vars, NEW s \in Sockets, Busy(s),
         socket[s] \in {"lost", "closed"}
  PROVE  socket'[s] \in {socket[s], "closed"}
<1>1. CASE UNCHANGED socket
  BY <1>1
<1>2. ASSUME NEW S, socket' = Cancelled(S) PROVE socket'[s] \in {socket[s], "closed"}
  BY <1>2 DEF Cancelled
<1>3. ASSUME NEW t \in Sockets, Connect(t) PROVE socket'[s] \in {socket[s], "closed"}
  <2>1. t # s
    BY <1>3 DEF Connect, FreshSocket, Busy
  <2>2. PICK created : socket' = [Cancelled(ConnectCancels) EXCEPT ![t] = created]
    BY <1>3 DEF Connect
  <2> QED
    BY <2>1, <2>2 DEF Cancelled
<1>4. ASSUME NEW t \in Sockets, ConnectReturns(t) \/ ConnectThrows(t) \/ PeerLost(t)
      PROVE  socket'[s] \in {socket[s], "closed"}
  <2>1. CASE ConnectReturns(t)
    <3>1. t # s
      BY <2>1 DEF ConnectReturns
    <3> QED
      BY <2>1, <3>1 DEF ConnectReturns, TypeOK
  <2>2. CASE ConnectThrows(t)
    BY <2>2 DEF ConnectThrows, TypeOK
  <2>3. CASE PeerLost(t)
    BY <2>3 DEF PeerLost, TypeOK
  <2> QED
    BY <1>4, <2>1, <2>2, <2>3
<1>5. ASSUME NEW a \in AcceptThreads, NEW t \in Sockets, AcceptReturns(a, t)
      PROVE  socket'[s] \in {socket[s], "closed"}
  <2>1. t # s
    BY <1>5 DEF AcceptReturns, FreshSocket, Busy
  <2> QED
    BY <1>5, <2>1 DEF AcceptReturns, TypeOK
<1> QED
  BY <1>1, <1>2, <1>3, <1>4, <1>5
  DEF Next, vars, Start, start, Stop, HandleMessage, NullDereference,
      ConnectStep, ConnectionFailed, ResetConnectThread, ConnectHandoff,
      connected, ConnectedStep, ReadThrows, ConnectionLost, RestartAfterLoss,
      AcceptStep, AcceptCheck, AcceptThrows, AcceptConnected, AcceptRefused,
      WriteSnapshot, WriteStream

\* Nobody enters an error path otherwise.
LEMMA ErrorPathsPreserved ==
  TypeOK /\ ErrorPathsDead /\ [Next]_vars => ErrorPathsDead'
<1> SUFFICES ASSUME TypeOK, ErrorPathsDead, [Next]_vars, NEW s \in Sockets
             PROVE  /\ connectPc'[s] = "failed" => socket'[s] = "closed"
                    /\ connectedPc'[s] \in {"lost", "restart"}
                         => socket'[s] \in {"lost", "closed"}
  BY DEF ErrorPathsDead
<1>1. ASSUME connectPc'[s] = "failed" PROVE socket'[s] = "closed"
  <2>1. CASE connectPc[s] = "failed"
    <3>1. socket[s] = "closed" /\ Busy(s)
      BY <2>1 DEF ErrorPathsDead, Busy
    <3> QED
      BY <3>1, SocketStaysGone
  <2>2. CASE connectPc[s] # "failed"
    <3>1. ConnectThrows(s)
      BY <1>1, <2>2, ZenonT(90)
      DEF TypeOK, Next, vars, Start, Connect, Stop, HandleMessage,
          NullDereference, ConnectStep, ConnectReturns, ConnectThrows,
          ConnectionFailed, ResetConnectThread, ConnectHandoff, ConnectedStep,
          ReadThrows, ConnectionLost, RestartAfterLoss, PeerLost, AcceptStep,
          AcceptCheck, AcceptThrows, AcceptConnected, AcceptRefused,
          AcceptReturns, WriteSnapshot, WriteStream
    <3> QED
      BY <3>1 DEF ConnectThrows, TypeOK
  <2> QED
    BY <2>1, <2>2
<1>2. ASSUME connectedPc'[s] \in {"lost", "restart"}
      PROVE  socket'[s] \in {"lost", "closed"}
  <2>1. CASE connectedPc[s] \in {"lost", "restart"}
    <3>1. socket[s] \in {"lost", "closed"} /\ Busy(s)
      BY <2>1 DEF ErrorPathsDead, Busy
    <3> QED
      BY <3>1, SocketStaysGone
  <2>2. CASE connectedPc[s] \notin {"lost", "restart"}
    <3>1. ReadThrows(s)
      BY <1>2, <2>2, ZenonT(90)
      DEF TypeOK, Next, vars, Start, Connect, Stop, HandleMessage,
          NullDereference, ConnectStep, ConnectReturns, ConnectThrows,
          ConnectionFailed, ResetConnectThread, ConnectHandoff, connected,
          ConnectedStep, ReadThrows, ConnectionLost, RestartAfterLoss, PeerLost,
          AcceptStep, AcceptCheck, AcceptThrows, AcceptConnected, AcceptRefused,
          AcceptReturns, WriteSnapshot, WriteStream
    <3> QED
      BY <3>1 DEF ReadThrows
  <2> QED
    BY <2>1, <2>2
<1> QED
  BY <1>1, <1>2

\* The error paths are dead ends in every state.
LEMMA ErrorPathsAlways == Spec => []ErrorPathsDead
<1>1. Init => ErrorPathsDead
  BY DEF Init, ErrorPathsDead
<1> QED
  BY <1>1, ErrorPathsPreserved, TypeCorrect, PTL DEF Spec

\* cancel() is final: as long as a thread runs on a socket that was closed, the
\* socket stays closed, so the blocking call that the thread is in, or comes to,
\* throws.
THEOREM CancelIsFinal ==
  Spec => [][\A s \in Sockets : Busy(s) /\ socket[s] = "closed"
               => socket'[s] = "closed"]_vars
<1>1. TypeOK /\ [Next]_vars
        => [\A s \in Sockets : Busy(s) /\ socket[s] = "closed"
              => socket'[s] = "closed"]_vars
  BY SocketStaysGone
<1> QED
  BY <1>1, TypeCorrect, PTL DEF Spec

\* Some other thread than that of socket s is about to call start() for an
\* attempt or a connection that has failed.
LateFailure(s) ==
  \E t \in Sockets \ {s} :
    connectPc[t] = "failed" \/ connectedPc[t] \in {"lost", "restart"}

\* What becomes of a good connection: it ends by onDestroy(), by the user who
\* connects to another device, by another attempt of theirs that succeeds, or
\* by the late failure of another thread (the only case against HealthyLinkKept).
\* An incoming connection never replaces it, and its own thread never drops it.
HealthyLinkEnds ==
  [][\A s \in Sockets :
       mConnectedThread = s /\ socket[s] = "connected" /\ mConnectedThread' # s =>
         \/ Stop
         \/ \E t \in Sockets \ {s} : Connect(t) \/ ConnectHandoff(t)
         \/ mState' = "LISTEN" /\ LateFailure(s)]_vars

\* It holds for any number of sockets and threads, and with every failure.
THEOREM LinkEndsFairly == Spec => HealthyLinkEnds
<1>1. /\ IInv /\ ErrorPathsDead /\ [Next]_vars
      => [\A s \in Sockets :
            mConnectedThread = s /\ socket[s] = "connected" /\ mConnectedThread' # s =>
              \/ Stop
              \/ \E t \in Sockets \ {s} : Connect(t) \/ ConnectHandoff(t)
              \/ mState' = "LISTEN" /\ LateFailure(s)]_vars
  <2> SUFFICES ASSUME IInv, ErrorPathsDead, Next, NEW s \in Sockets,
                      mConnectedThread = s, socket[s] = "connected",
                      mConnectedThread' # s, ~Stop
               PROVE  \/ \E t \in Sockets \ {s} : Connect(t) \/ ConnectHandoff(t)
                      \/ mState' = "LISTEN" /\ LateFailure(s)
    OBVIOUS
  <2>1. mState = "CONNECTED"
    BY NoneAssumption DEF IInv, StateMatchesThreads
  <2>2. ASSUME NEW t \in Sockets, Connect(t)
        PROVE  \E u \in Sockets \ {s} : Connect(u)
    BY <2>2 DEF Connect, FreshSocket
  <2>3. ASSUME NEW t \in Sockets, ConnectHandoff(t)
        PROVE  \E u \in Sockets \ {s} : ConnectHandoff(u)
    BY <2>3 DEF ConnectHandoff, connected
  <2>4. ASSUME NEW t \in Sockets,
               ConnectionFailed(t) \/ ConnectionLost(t) \/ RestartAfterLoss(t)
        PROVE  mState' = "LISTEN" /\ LateFailure(s)
    <3>1. connectPc[t] = "failed" \/ connectedPc[t] \in {"lost", "restart"}
      BY <2>4 DEF ConnectionFailed, ConnectionLost, RestartAfterLoss
    <3>2. t # s
      BY <3>1 DEF ErrorPathsDead
    <3> QED
      BY <2>4, <3>1, <3>2 DEF ConnectionFailed, ConnectionLost, RestartAfterLoss,
         start, setState, LateFailure
  <2> QED
    BY <2>1, <2>2, <2>3, <2>4
    DEF Next, Start, HandleMessage, NullDereference, ConnectStep,
        ConnectReturns, ConnectThrows, ResetConnectThread, ConnectedStep,
        ReadThrows, PeerLost, AcceptStep, AcceptCheck, AcceptThrows,
        AcceptConnected, AcceptRefused, AcceptReturns, WriteSnapshot,
        WriteStream, fields
<1> QED
  BY <1>1, Invariance, ErrorPathsAlways, PTL DEF Spec, HealthyLinkEnds

\* What StopIsFinal is refuted with is the only way: a service that was stopped
\* when no attempt and no connection of it was left stays in STATE_NONE for good,
\* whatever its AcceptThreads still accept.
Ended ==
  /\ destroyed /\ mState = "NONE"
  /\ \A s \in Sockets : ~Busy(s)

\* Nothing that is left of it can call start(), connect() or connected().
THEOREM EndedForGood == Spec => [][Ended => Ended']_vars
<1>1. TypeOK /\ [Next]_vars => [Ended => Ended']_vars
  BY DEF TypeOK, Ended, Busy, Next, Start, Connect, Stop, HandleMessage,
         NullDereference, ConnectStep, ConnectReturns, ConnectThrows,
         ConnectionFailed, ResetConnectThread, ConnectHandoff, ConnectedStep,
         ReadThrows, ConnectionLost, RestartAfterLoss, PeerLost, AcceptStep,
         AcceptCheck, AcceptThrows, AcceptConnected, AcceptRefused,
         AcceptReturns, WriteSnapshot, WriteStream, fields, life
<1> QED
  BY <1>1, TypeCorrect, PTL DEF Spec
=============================================================================
