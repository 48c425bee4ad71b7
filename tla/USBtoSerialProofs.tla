-------------------------- MODULE USBtoSerialProofs --------------------------
(***************************************************************************)
(* Proofs about USBtoSerial for every size of the buffers and endpoints,   *)
(* any number of bytes in both directions and any number of disturbances.  *)
(***************************************************************************)
EXTENDS USBtoSerial, TLAPS, SequenceTheorems

\* A leaf goes to Zenon unless it names another prover.
USE ZenonT(30)

-----------------------------------------------------------------------------
(* Types.                                                                   *)

\* TypeOK in parts, and the rest of the state.
Ring ==
    /\ In \in 0..Size - 1 /\ Out \in 0..Size - 1 /\ inserting = 0
    /\ array \in [0..Size - 1 -> Data] /\ log \in [0..MaxBytes - 1 -> Data]
    /\ got \in Data /\ nin \in 0..MaxBytes

\* A byte is peeked at and not dequeued yet.
InHand == pc \in {"selectIn", "test", "wait", "write", "remove"}

\* The main loop removes only what it has counted.
Loop ==
    /\ pc \in Pcs /\ byte \in Data
    /\ nout \in Nat /\ Count \in Nat /\ BufferCount \in Nat
    /\ removing = IF pc = "removed" THEN 1 ELSE 0
    /\ Count + nout = nin + removing
    /\ BufferCount + nout + (IF InHand THEN 1 ELSE 0) =< nin
    /\ pc = "removed" => nout > 0

Usb ==
    /\ usb \in [state : States, baud : BOOLEAN, ep : BOOLEAN,
                wait : {"no", "data", "cut"}]
    /\ sel \in {"control", "in", "out"}

Pasts == [events : Nat, reset : BOOLEAN, overrun : BOOLEAN, late : BOOLEAN,
          heard : Nat, missed : SUBSET Nat]

Histories ==
    /\ host \in [got : Seq(Nat), open : BOOLEAN, sent : Nat]
    /\ past \in Pasts

Banks ==
    /\ inBank \in [bytes : Seq(Nat), held : BOOLEAN]
    /\ outBank \in [bytes : Seq(Nat), held : BOOLEAN]
    /\ Len(inBank.bytes) =< EpSize /\ Len(outBank.bytes) =< EpSize

\* CDC_Device_ReceiveByte runs, and is only called when there is room.
Receiving == {"selectOut", "outReceived", "outBytes", "outRead", "outEmpty",
              "outClear"}

Queues ==
    /\ txq \in Seq(Nat) /\ line \in Seq(Nat) /\ Len(txq) =< Size
    /\ pc \in Receiving => Len(txq) < Size
    /\ ReceivedByte \in Nat \cup {-1}
    /\ pc \notin {"outEmpty", "outClear"} => ReceivedByte = -1

\* Bytes are heard before they are inserted.
Numbers == past.heard =< MaxBytes /\ nin =< past.heard

Types == Ring /\ Loop /\ Usb /\ Histories /\ Banks /\ Queues /\ Numbers

\* What a step leaves alone keeps its type.
LEMMA FrameTypes ==
  ASSUME Types
  PROVE  /\ UNCHANGED ringVars => Ring'
         /\ UNCHANGED <<ringVars, mainVars>> => Loop'
         /\ UNCHANGED <<usb, sel>> => Usb'
         /\ UNCHANGED envVars => Histories'
         /\ UNCHANGED <<inBank, outBank>> => Banks'
         /\ UNCHANGED <<txq, line, pc, ReceivedByte>> => Queues'
         /\ /\ UNCHANGED <<txq, line, ReceivedByte>> /\ pc' \notin Receiving
            /\ pc \notin {"outEmpty", "outClear"}
            => Queues'
<1>1. UNCHANGED ringVars => Ring'
  BY DEF Types, Ring, ringVars
<1>2. UNCHANGED <<ringVars, mainVars>> => Loop'
  BY DEF Types, Loop, InHand, ringVars, mainVars
<1>3. UNCHANGED <<usb, sel>> => Usb'
  BY DEF Types, Usb
<1>4. UNCHANGED envVars => Histories'
  BY DEF Types, Histories, envVars
<1>5. UNCHANGED <<inBank, outBank>> => Banks'
  BY DEF Types, Banks
<1>6. /\ UNCHANGED <<txq, line, pc, ReceivedByte>> => Queues'
      /\ /\ UNCHANGED <<txq, line, ReceivedByte>> /\ pc' \notin Receiving
         /\ pc \notin {"outEmpty", "outClear"}
         => Queues'
  BY DEF Types, Queues
<1> QED
  BY <1>1, <1>2, <1>3, <1>4, <1>5, <1>6

\* Everything is empty.
LEMMA InitTypes == Init => Types
<1> SUFFICES ASSUME Init PROVE Types
  OBVIOUS
<1> USE RingBufferAssumption, USBtoSerialAssumption
<1>1. Ring
  BY SMTT(30) DEF Init, Ring
<1>2. Loop
  BY SMTT(30) DEF Init, Loop, InHand, Pcs
<1>3. Usb
  BY DEF Init, Usb, States
<1>4. Histories
  <2>1. past \in Pasts
    BY SMTT(30) DEF Init, Pasts
  <2> QED
    BY <2>1, EmptySeq DEF Init, Histories
<1>5. Banks
  BY EmptySeq, SMTT(30) DEF Init, Banks, NoBank
<1>6. Queues
  BY EmptySeq, SMTT(30) DEF Init, Queues, Receiving
<1>7. Numbers
  BY SMTT(30) DEF Init, Numbers
<1> QED
  BY <1>1, <1>2, <1>3, <1>4, <1>5, <1>6, <1>7 DEF Types

\* Filling or emptying a bank.
LEMMA BankTypes ==
  ASSUME NEW bank \in [bytes : Seq(Nat), held : BOOLEAN], NEW s \in Seq(Nat)
  PROVE  /\ [bank EXCEPT !.bytes = s] \in [bytes : Seq(Nat), held : BOOLEAN]
         /\ [bank EXCEPT !.bytes = s].bytes = s
         /\ [bank EXCEPT !.bytes = s].held = bank.held
OBVIOUS

\* Endpoint_ClearIN keeps the bytes of the bank.
LEMMA ClearINTypes ==
  ASSUME Types, ClearIN, outBank' = outBank
  PROVE  Banks' /\ inBank'.bytes = inBank.bytes
BY DEF ClearIN, Types, Banks

\* What RingBuffer_Insert gets fits.
LEMMA InsertTypes ==
  ASSUME Types, pc \in {"outEmpty", "outClear"}, Insert, line' = line,
         pc' = "count"
  PROVE  Queues'
<1>1. /\ txq \in Seq(Nat) /\ line \in Seq(Nat) /\ Len(txq) < Size
      /\ ReceivedByte \in Nat \cup {-1} /\ Size \in Nat
  BY RingBufferAssumption DEF Types, Queues, Receiving
<1>2. /\ Received \in Seq(Nat) /\ Len(Received) \in {0, 1}
  BY <1>1, EmptySeq, SMTT(30) DEF Received
<1>3. txq' \in Seq(Nat) /\ Len(txq') = Len(txq) + Len(Received)
  BY <1>1, <1>2, ConcatProperties DEF Insert
<1>4. Len(txq') =< Size
  <2>1. Len(txq) \in Nat
    BY <1>1, LenProperties
  <2>2. \A k, m, n \in Nat : k < n /\ m \in {0, 1} => k + m =< n
    BY SMTT(30)
  <2>3. Len(Received) \in Nat
    BY <1>2, LenProperties
  <2>4. Len(txq) + Len(Received) =< Size
    BY <1>1, <1>2, <2>1, <2>2, <2>3
  <2> QED
    BY <1>3, <2>4
<1>5. ReceivedByte' = -1
  BY DEF Insert
<1> QED
  BY <1>1, <1>3, <1>4, <1>5 DEF Queues, Receiving

\* Only the receive interrupt hears bytes and inserts them.
LEMMA HeardSteps ==
  ASSUME Histories, [Next]_vars
  PROVE  \/ SerialByte
         \/ past'.heard = past.heard /\ past'.missed = past.missed /\ nin' = nin
<1>0. past \in Pasts
  BY DEF Histories
<1>1. CASE \/ Receive \/ Select \/ OutTests \/ Read \/ OutKept \/ OutEmpty
           \/ ClearOUT \/ FlushDue \/ NotDue \/ PeekByte \/ Test \/ Wait \/ Write
           \/ Remove \/ Serial \/ FlushTests \/ FlushClear \/ SetLineEncoding
           \/ LineEncodingGivenUp \/ Plug \/ WakeUp \/ HostReads
           \/ (\E n \in 0..EpSize : HostSends(n)) \/ UNCHANGED vars
  <2>1. past' = past /\ nin' = nin
    BY <1>1 DEF Receive, Select, OutTests, Read, OutKept, OutEmpty, ClearOUT,
       FlushDue, NotDue, PeekByte, Test, Wait, Write, Remove, Serial, FlushTests,
       FlushClear, SetLineEncoding, LineEncodingGivenUp, Plug, WakeUp, BusEvent,
       HostReads, HostSends, vars, envVars, ringVars, ringHist
  <2> QED
    BY <2>1
<1>2. ASSUME NEW emptied, Disturb(emptied)
      PROVE  past'.heard = past.heard /\ past'.missed = past.missed
  BY <1>0, <1>2 DEF Disturb, Pasts
<1>3. CASE FlushWait \/ Configure \/ LineEncodingWait \/ BusReset \/ Unplug \/ Suspend
  <2>1. nin' = nin
    BY <1>3 DEF FlushWait, Configure, LineEncodingWait, BusReset, Unplug, Suspend,
       BusEvent, ringVars
  <2>2. \/ past' = past \/ past' = [past EXCEPT !.late = TRUE]
        \/ past' = [past EXCEPT !.reset = @ \/ usb.ep]
        \/ \E emptied : Disturb(emptied)
    BY <1>3 DEF FlushWait, Configure, LineEncodingWait, BusReset, Unplug, Suspend
  <2> QED
    BY <1>0, <1>2, <2>1, <2>2 DEF Pasts
<1> QED
  BY <1>1, <1>3 DEF Next, Main

\* The main loop keeps the types.
LEMMA MainTypes == Types /\ Main => Types'
<1> SUFFICES ASSUME Types, Main PROVE Types'
  OBVIOUS
<1> USE RingBufferAssumption, USBtoSerialAssumption
<1>0. Ring /\ Loop /\ Usb /\ Histories /\ Banks /\ Queues /\ nin \in Nat
  BY SMTT(30) DEF Types, Ring
<1>n. Numbers'
  <2>1. \/ SerialByte
        \/ past'.heard = past.heard /\ past'.missed = past.missed /\ nin' = nin
    BY <1>0, HeardSteps DEF Next
  <2>2. ~SerialByte
    BY DEF Main, SerialByte, mainVars, Receive, Select, OutTests, Read, OutKept,
       OutEmpty, ClearOUT, FlushDue, NotDue, PeekByte, Test, Wait, Write, Remove,
       Serial, FlushTests, FlushClear, FlushWait, Goto, Flush, AfterFlush,
       AfterTimeout
  <2> QED
    BY <2>1, <2>2 DEF Types, Numbers
<1>1. CASE Receive
  <2>1. Loop'
    BY <1>0, <1>1 DEF Receive, Goto, Loop, InHand, Pcs, ringVars
  <2>2. Queues'
    BY <1>0, <1>1 DEF Receive, Goto, Queues, Receiving
  <2> QED
    BY <1>1, <1>n, <2>1, <2>2, FrameTypes DEF Receive, Types
<1>2. CASE Select
  <2>1. Loop'
    BY <1>0, <1>2 DEF Select, Goto, Loop, InHand, Pcs, ringVars
  <2>2. Queues'
    BY <1>0, <1>2 DEF Select, Goto, Queues, Receiving
  <2>3. Usb'
    BY <1>0, <1>2 DEF Select, Usb
  <2> QED
    BY <1>2, <1>n, <2>1, <2>2, <2>3, FrameTypes DEF Select, Types
<1>3. CASE Read
  <2>1. Loop'
    BY <1>0, <1>3 DEF Read, Goto, Loop, InHand, Pcs, ringVars
  <2>2. Queues' /\ Banks'
    <3>1. /\ pc = "outRead" /\ pc' = "outEmpty" /\ UNCHANGED <<txq, line, inBank>>
          /\ outBank.bytes \in Seq(Nat) /\ outBank \in [bytes : Seq(Nat), held : BOOLEAN]
      BY <1>0, <1>3 DEF Read, Goto, Banks
    <3>2. CASE sel = "out" /\ usb.ep /\ outBank.bytes # <<>>
      <4>1. /\ Head(outBank.bytes) \in Nat /\ Tail(outBank.bytes) \in Seq(Nat)
            /\ Len(Tail(outBank.bytes)) = Len(outBank.bytes) - 1
            /\ Len(outBank.bytes) \in Nat
        BY <3>1, <3>2, HeadTailProperties, LenProperties
      <4>2. /\ ReceivedByte' = Head(outBank.bytes)
            /\ outBank' = [outBank EXCEPT !.bytes = Tail(outBank.bytes)]
        BY <1>3, <3>2 DEF Read
      <4>3. /\ outBank' \in [bytes : Seq(Nat), held : BOOLEAN]
            /\ outBank'.bytes = Tail(outBank.bytes)
        BY <3>1, <4>1, <4>2, BankTypes
      <4>4. Banks'
        BY <1>0, <3>1, <4>1, <4>3, SMTT(30) DEF Banks
      <4> QED
        BY <1>0, <3>1, <4>1, <4>2, <4>4 DEF Queues, Receiving
    <3>3. CASE ~(sel = "out" /\ usb.ep /\ outBank.bytes # <<>>)
      <4>1. ReceivedByte' = 0 /\ outBank' = outBank
        BY <1>3, <3>3 DEF Read, Foreign
      <4>2. ReceivedByte' \in Nat
        BY <4>1, SMTT(30)
      <4> QED
        BY <1>0, <3>1, <4>1, <4>2 DEF Queues, Banks, Receiving
    <3> QED
      BY <3>2, <3>3
  <2> QED
    BY <1>3, <1>n, <2>1, <2>2, FrameTypes DEF Read, Types
<1>14. CASE OutTests \/ OutEmpty
  <2>1. Loop'
    BY <1>0, <1>14 DEF OutTests, OutEmpty, Goto, Loop, InHand, Pcs, ringVars
  <2>2. Queues'
    BY <1>0, <1>14 DEF OutTests, OutEmpty, Goto, Queues, Receiving
  <2> QED
    BY <1>14, <1>n, <2>1, <2>2, FrameTypes DEF OutTests, OutEmpty, Types
<1>15. CASE OutKept \/ ClearOUT
  <2>1. Loop'
    BY <1>0, <1>15 DEF OutKept, ClearOUT, Insert, Goto, Loop, InHand, Pcs, ringVars
  <2>2. Queues'
    BY <1>15, InsertTypes DEF OutKept, ClearOUT, Goto
  <2>3. outBank' \in {outBank, NoBank} /\ inBank' = inBank
    BY <1>15 DEF OutKept, ClearOUT
  <2>4. Banks'
    <3>1. NoBank \in [bytes : Seq(Nat), held : BOOLEAN] /\ Len(NoBank.bytes) =< EpSize
      BY EmptySeq, SMTT(30) DEF NoBank
    <3> QED
      BY <1>0, <2>3, <3>1 DEF Banks
  <2> QED
    BY <1>15, <1>n, <2>1, <2>2, <2>4, FrameTypes DEF OutKept, ClearOUT, Types
<1>4. CASE FlushDue \/ NotDue
  <2>1. Loop'
    BY <1>0, <1>4, SMTT(30) DEF FlushDue, NotDue, Goto, Loop, InHand, Pcs, ringVars
  <2> QED
    BY <1>4, <1>n, <2>1, FrameTypes DEF FlushDue, NotDue, Goto, Receiving, Types
<1>5. CASE PeekByte
  <2>1. Peek \in Data
    BY <1>0 DEF Peek, Ring
  <2>2. Loop'
    BY <1>0, <1>5, <2>1, SMTT(30) DEF PeekByte, Goto, Loop, InHand, Pcs, ringVars
  <2> QED
    BY <1>5, <1>n, <2>2, FrameTypes DEF PeekByte, Goto, Receiving, Types
<1>6. CASE Test
  <2>1. Loop'
    BY <1>0, <1>6 DEF Test, Goto, Loop, InHand, Pcs, ringVars
  <2>2. Banks'
    BY <1>6, ClearINTypes, FrameTypes DEF Test
  <2> QED
    BY <1>6, <1>n, <2>1, <2>2, FrameTypes DEF Test, Goto, Receiving, Types
<1>7. CASE Wait
  <2>1. Loop'
    <3>1. /\ pc = "wait" /\ UNCHANGED <<nin, nout, Count, removing>>
          /\ \/ pc' = "write" /\ UNCHANGED <<BufferCount, byte>>
             \/ pc' = "serial" /\ BufferCount' = 0 /\ byte' = MaxBytes
      BY <1>7 DEF Wait, AfterTimeout, Goto, ringVars
    <3> QED
      BY <1>0, <3>1, SMTT(30) DEF Loop, InHand, Pcs
  <2> QED
    BY <1>7, <1>n, <2>1, FrameTypes DEF Wait, AfterTimeout, Goto, Receiving, Types
<1>8. CASE Write
  <2>1. Loop'
    BY <1>0, <1>8, SMTT(30) DEF Write, Goto, Loop, InHand, Pcs, ringVars
  <2>2. Banks'
    <3>1. byte \in Nat
      BY <1>0, SMTT(30) DEF Loop
    <3>2. CASE IsReadWriteAllowed
      <4>1. inBank' = [inBank EXCEPT !.bytes = Append(inBank.bytes, byte)]
        BY <1>8, <3>2 DEF Write
      <4>2. /\ Append(inBank.bytes, byte) \in Seq(Nat)
            /\ Len(Append(inBank.bytes, byte)) = Len(inBank.bytes) + 1
            /\ Len(inBank.bytes) \in Nat
        BY <1>0, <3>1, AppendProperties, LenProperties, SMTT(30) DEF Banks
      <4>3. Len(inBank.bytes) < EpSize
        BY <3>2 DEF IsReadWriteAllowed
      <4>4. inBank \in [bytes : Seq(Nat), held : BOOLEAN]
        BY <1>0 DEF Banks
      <4>5. /\ inBank' \in [bytes : Seq(Nat), held : BOOLEAN]
            /\ inBank'.bytes = Append(inBank.bytes, byte)
        BY <4>1, <4>2, <4>4, BankTypes
      <4> QED
        BY <1>0, <1>8, <4>2, <4>3, <4>5, SMTT(30) DEF Write, Banks
    <3>3. CASE ~IsReadWriteAllowed
      BY <1>0, <1>8, <3>3 DEF Write, Banks
    <3> QED
      BY <3>2, <3>3
  <2> QED
    BY <1>8, <1>n, <2>1, <2>2, FrameTypes DEF Write, Goto, Receiving, Types
<1>9. CASE Remove
  <2>1. Loop'
    BY <1>0, <1>9, SMTT(30) DEF Remove, Fetch, Goto, Loop, InHand, Pcs, ringHist
  <2>2. Ring'
    <3>1. Peek \in Data /\ Advance(Out) \in 0..Size - 1
      BY <1>0, SMTT(30) DEF Peek, Ring, Advance
    <3> QED
      BY <1>0, <1>9, <3>1 DEF Remove, Fetch, Ring, ringHist
  <2> QED
    BY <1>9, <1>n, <2>1, <2>2, FrameTypes DEF Remove, Goto, Receiving, Types
<1>10. CASE Serial
  <2>1. Loop'
    BY <1>0, <1>10 DEF Serial, Flush, Goto, Loop, InHand, Pcs, ringVars
  <2>2. Queues'
    <3>1. /\ pc = "serial" /\ pc' \in {"flushSelect", "receive"}
          /\ ReceivedByte' = ReceivedByte
      BY <1>10 DEF Serial, Flush, Goto
    <3>2. CASE txq = <<>>
      BY <1>0, <1>10, <3>1, <3>2 DEF Serial, Queues, Receiving
    <3>3. CASE txq # <<>>
      <4>1. line' = Append(line, Head(txq)) /\ txq' = Tail(txq)
        BY <1>10, <3>3 DEF Serial
      <4>2. /\ Head(txq) \in Nat /\ Tail(txq) \in Seq(Nat)
            /\ Len(Tail(txq)) = Len(txq) - 1 /\ Len(txq) \in Nat
        BY <1>0, <3>3, HeadTailProperties, LenProperties DEF Queues
      <4>3. Append(line, Head(txq)) \in Seq(Nat)
        BY <1>0, <4>2, AppendProperties DEF Queues
      <4>4. Len(txq') =< Size
        BY <1>0, <4>1, <4>2, SMTT(30) DEF Queues
      <4> QED
        BY <1>0, <3>1, <4>1, <4>2, <4>3, <4>4 DEF Queues, Receiving
    <3> QED
      BY <3>2, <3>3
  <2> QED
    BY <1>10, <1>n, <2>1, <2>2, FrameTypes DEF Serial, Types
<1>11. CASE FlushTests
  <2>1. Loop'
    BY <1>0, <1>11 DEF FlushTests, Goto, Loop, InHand, Pcs, ringVars
  <2> QED
    BY <1>11, <1>n, <2>1, FrameTypes DEF FlushTests, Goto, Receiving, Types
<1>12. CASE FlushClear
  <2>1. Loop'
    BY <1>0, <1>12 DEF FlushClear, AfterFlush, Goto, Loop, InHand, Pcs, ringVars
  <2>2. Banks'
    BY <1>12, ClearINTypes, FrameTypes DEF FlushClear
  <2> QED
    BY <1>12, <1>n, <2>1, <2>2, FrameTypes DEF FlushClear, AfterFlush, Goto,
       Receiving, Types
<1>13. CASE FlushWait
  <2>1. Loop'
    BY <1>0, <1>13 DEF FlushWait, Goto, Loop, InHand, Pcs, ringVars
  <2>2. Banks'
    BY <1>13, ClearINTypes, FrameTypes DEF FlushWait
  <2>3. Histories'
    BY <1>0, <1>13 DEF FlushWait, Histories, Pasts
  <2> QED
    BY <1>13, <1>n, <2>1, <2>2, <2>3, FrameTypes DEF FlushWait, Goto, Receiving, Types
<1> QED
  BY <1>1, <1>2, <1>3, <1>4, <1>5, <1>6, <1>7, <1>8, <1>9, <1>10, <1>11, <1>12,
     <1>13, <1>14, <1>15 DEF Main

\* So do the interrupts and the host.
LEMMA StepTypes == Types /\ [Next]_vars => Types'
<1> SUFFICES ASSUME Types, [Next]_vars PROVE Types'
  OBVIOUS
<1> USE RingBufferAssumption, USBtoSerialAssumption
<1>0. Ring /\ Loop /\ Usb /\ Histories /\ Banks /\ Queues /\ nin \in Nat
  BY SMTT(30) DEF Types, Ring
<1>1. CASE UNCHANGED vars
  BY <1>1, FrameTypes DEF vars, mainVars, envVars, ringVars, Numbers, Types
<1>n. ~SerialByte => Numbers'
  BY <1>0, HeardSteps DEF Types, Numbers
<1>h. /\ past \in Pasts /\ past.heard \in Nat /\ past.heard =< MaxBytes
      /\ past.missed \in SUBSET Nat /\ nin =< past.heard
  BY <1>0 DEF Types, Histories, Numbers, Pasts
<1>2. CASE SerialByte
  <2>h. past.heard < MaxBytes /\ past.heard + 1 \in Nat
    BY <1>2, <1>h, SMTT(30) DEF SerialByte
  <2>1. CASE usb.state = "configured"
    <3>0. /\ array' = [array EXCEPT ![In] = past.heard] /\ In' = Advance(In)
          /\ log' = [log EXCEPT ![nin] = past.heard] /\ nin' = nin + 1
          /\ Count' = Count + 1
          /\ UNCHANGED <<Out, inserting, got, nout, removing, mainVars>>
      BY <1>2, <2>1 DEF SerialByte, Store
    <3>1. Ring'
      <4>1. Advance(In) \in 0..Size - 1
        BY <1>0, SMTT(30) DEF Ring, Advance
      <4>2. past.heard \in Data
        BY <1>h, <2>h, SMTT(30)
      <4>3. nin + 1 \in 0..MaxBytes
        BY <1>0, <1>h, <2>h, SMTT(30)
      <4> QED
        BY <1>0, <3>0, <4>1, <4>2, <4>3, SMTT(30) DEF Ring
    <3>2. Loop'
      <4>1. UNCHANGED <<pc, BufferCount, byte>>
        BY <3>0 DEF mainVars
      <4> QED
        BY <1>0, <3>0, <4>1, SMTT(30) DEF Loop, InHand
    <3>3. past' \in Pasts /\ past'.heard = past.heard + 1
      <4> DEFINE o == past.overrun \/ Occupied + removing = Size
                 h == past.heard + 1
      <4>1. past' = [past EXCEPT !.heard = h, !.overrun = o]
        BY <1>2, <2>1 DEF SerialByte
      <4>2. o \in BOOLEAN /\ h \in Nat
        BY <1>h, <2>h DEF Pasts
      <4> HIDE DEF o
      <4>3. past' \in Pasts /\ past'.heard = h
        <5> HIDE DEF h
        <5> QED
          BY <1>h, <4>1, <4>2 DEF Pasts
      <4> QED
        BY <4>3
    <3>4. Numbers'
      BY <1>0, <1>h, <2>h, <3>0, <3>3, SMTT(30) DEF Numbers
    <3> QED
      BY <1>0, <1>2, <3>1, <3>2, <3>3, <3>4, FrameTypes
      DEF SerialByte, mainVars, Types, Histories
  <2>2. CASE usb.state # "configured"
    <3>1. UNCHANGED <<ringVars, mainVars>>
      BY <1>2, <2>2 DEF SerialByte, ringVars
    <3>2. past' \in Pasts /\ past'.heard = past.heard + 1
      <4> DEFINE m == past.missed \cup {past.heard}
                 h == past.heard + 1
      <4>1. past' = [past EXCEPT !.heard = h, !.missed = m]
        BY <1>2, <2>2 DEF SerialByte
      <4>2. m \in SUBSET Nat /\ h \in Nat
        BY <1>h, <2>h
      <4> HIDE DEF m
      <4>3. past' \in Pasts /\ past'.heard = h
        <5> HIDE DEF h
        <5> QED
          BY <1>h, <4>1, <4>2 DEF Pasts
      <4> QED
        BY <4>3
    <3>3. nin' = nin
      BY <3>1 DEF ringVars
    <3>4. Numbers'
      BY <1>0, <1>h, <2>h, <3>2, <3>3, SMTT(30) DEF Numbers
    <3> QED
      BY <1>0, <1>2, <3>1, <3>2, <3>4, FrameTypes
      DEF SerialByte, mainVars, Types, Histories
  <2> QED
    BY <2>1, <2>2
<1>s. Numbers'
  BY <1>2, <1>n DEF Types
<1>3. ASSUME NEW emptied \in BOOLEAN, Disturb(emptied) PROVE past' \in Pasts
  <2> DEFINE reset == past.reset \/ emptied
             events == past.events + 1
  <2>1. reset \in BOOLEAN /\ events \in Nat
    BY <1>h, SMTT(30) DEF Pasts
  <2>2. past' = [past EXCEPT !.events = events, !.reset = reset]
    BY <1>3 DEF Disturb
  <2> HIDE DEF reset, events
  <2> QED
    BY <1>h, <2>1, <2>2 DEF Pasts
<1>4. NoBank \in [bytes : Seq(Nat), held : BOOLEAN] /\ Len(NoBank.bytes) =< EpSize
  BY EmptySeq, SMTT(30) DEF NoBank
<1>5. CASE Configure
  <2>1. Usb'
    BY <1>0, <1>5 DEF Configure, Usb, States
  <2>2. Banks'
    BY <1>4, <1>5 DEF Configure, Banks
  <2>3. Histories'
    BY <1>0, <1>3, <1>5 DEF Configure, Histories
  <2> QED
    BY <1>5, <1>s, <2>1, <2>2, <2>3, FrameTypes DEF Configure, mainVars, Types
<1>6. CASE LineEncodingWait \/ SetLineEncoding \/ LineEncodingGivenUp
  <2>1. Usb'
    BY <1>0, <1>6 DEF LineEncodingWait, SetLineEncoding, LineEncodingGivenUp, Usb
  <2>2. Histories'
    BY <1>0, <1>3, <1>6 DEF LineEncodingWait, SetLineEncoding,
       LineEncodingGivenUp, Histories, envVars
  <2> QED
    BY <1>6, <1>s, <2>1, <2>2, FrameTypes
    DEF LineEncodingWait, SetLineEncoding, LineEncodingGivenUp, mainVars, Types
<1>7. CASE BusReset
  <2>1. Usb'
    <3> DEFINE w == IF usb.wait = "data" THEN "cut" ELSE usb.wait
    <3>1. w \in {"no", "data", "cut"}
      BY <1>0 DEF Usb
    <3>2. usb' = [usb EXCEPT !.state = "default", !.ep = FALSE, !.wait = w]
      BY <1>7 DEF BusReset
    <3> HIDE DEF w
    <3> QED
      BY <1>0, <1>7, <3>1, <3>2 DEF BusReset, Usb, States
  <2>2. Banks'
    BY <1>4, <1>7 DEF BusReset, ResetBanks, Banks
  <2>3. past' \in Pasts
    BY <1>0, <1>h, <1>3, <1>7 DEF BusReset, Pasts, Usb
  <2>4. Histories'
    BY <1>0, <1>7, <2>3 DEF BusReset, Histories
  <2> QED
    BY <1>7, <1>s, <2>1, <2>2, <2>4, FrameTypes DEF BusReset, mainVars, Types
<1>8. CASE Plug \/ WakeUp \/ Unplug \/ Suspend
  <2>1. PICK from, to : to \in States /\ BusEvent(from, to)
    BY <1>8 DEF Plug, WakeUp, Unplug, Suspend, States
  <2>2. Usb'
    BY <1>0, <2>1 DEF BusEvent, Usb
  <2>3. Histories'
    BY <1>0, <1>3, <1>8, <2>1
    DEF Plug, WakeUp, Unplug, Suspend, BusEvent, Histories
  <2> QED
    BY <1>s, <2>1, <2>2, <2>3, FrameTypes DEF BusEvent, mainVars, Types
<1>9. CASE HostReads
  <2>1. Banks'
    BY <1>0, <1>4, <1>9 DEF HostReads, Banks
  <2>2. host.got \o inBank.bytes \in Seq(Nat)
    BY <1>0, ConcatProperties DEF Histories, Banks
  <2>3. Histories'
    BY <1>0, <1>9, <2>2 DEF HostReads, Histories
  <2> QED
    BY <1>9, <1>s, <2>1, <2>3, FrameTypes DEF HostReads, mainVars, Types
<1>10. ASSUME NEW n \in 0..EpSize, HostSends(n) PROVE Types'
  <2> DEFINE bytes == [i \in 1..n |-> host.sent + i]
  <2>1. bytes \in Seq(Nat) /\ Len(bytes) = n
    <3>1. bytes \in [1..n -> Nat]
      BY <1>0, SMTT(30) DEF Histories
    <3> QED
      BY <3>1, SeqDef, LenProperties, SMTT(30)
  <2>2. /\ outBank' = [bytes |-> bytes, held |-> TRUE] /\ inBank' = inBank
        /\ host' = [host EXCEPT !.sent = @ + n] /\ past' = past
    BY <1>10 DEF HostSends
  <2> HIDE DEF bytes
  <2>3. Banks'
    BY <1>0, <2>1, <2>2, SMTT(30) DEF Banks
  <2>4. Histories'
    <3>1. host.sent + n \in Nat
      BY <1>0, SMTT(30) DEF Histories
    <3>2. host' = [host EXCEPT !.sent = host.sent + n]
      BY <2>2
    <3> QED
      BY <1>0, <2>2, <3>1, <3>2 DEF Histories
  <2> QED
    BY <1>10, <1>s, <2>3, <2>4, FrameTypes DEF HostSends, mainVars, Types
<1> QED
  BY <1>1, <1>2, <1>5, <1>6, <1>7, <1>8, <1>9, <1>10, MainTypes DEF Next

\* The types hold in every state.
LEMMA TypesAlways == Spec => []Types
BY InitTypes, StepTypes, PTL DEF Spec

\* TypeOK, for every size of the buffers, even when the receive interrupt has
\* overrun one: the main loop removes no more than it has counted, and no bank
\* gets more bytes than it has room for.
THEOREM BridgeTypes == Spec => []TypeOK
<1>1. Types => TypeOK
  <2> SUFFICES ASSUME Types PROVE TypeOK
    OBVIOUS
  <2>1. Ring /\ Loop /\ Usb /\ Banks /\ Queues
    BY DEF Types
  <2>2. nout \in 0..nin /\ Count \in 0..MaxBytes /\ BufferCount \in 0..MaxBytes
    BY <2>1, RingBufferAssumption, SMTT(30) DEF Ring, Loop
  <2>3. removing \in {0, 1} /\ pc \in Pcs /\ byte \in Data
    BY <2>1 DEF Loop
  <2>4. /\ inBank.held \in BOOLEAN /\ outBank.held \in BOOLEAN
        /\ Len(inBank.bytes) =< EpSize /\ Len(outBank.bytes) =< EpSize
    BY <2>1 DEF Banks
  <2> QED
    BY <2>1, <2>2, <2>3, <2>4 DEF TypeOK, Ring, Usb, Queues
<1> QED
  BY <1>1, TypesAlways, PTL

-----------------------------------------------------------------------------
(* Sequences.                                                               *)

\* Sequences of increasing numbers: their prefixes, and longer ones.
LEMMA IncreasingPrefix ==
  ASSUME NEW s \in Seq(Nat), NEW t \in Seq(Nat), Increasing(s \o t)
  PROVE  Increasing(s)
<1>1. /\ s \o t \in Seq(Nat) /\ Len(s \o t) = Len(s) + Len(t)
      /\ \A i \in 1..Len(s) + Len(t) :
            (s \o t)[i] = IF i =< Len(s) THEN s[i] ELSE t[i - Len(s)]
  BY ConcatProperties
<1>2. /\ Len(s) \in Nat /\ Len(t) \in Nat /\ DOMAIN s = 1..Len(s)
      /\ DOMAIN (s \o t) = 1..Len(s \o t)
  BY <1>1, LenProperties
<1>3. ASSUME NEW i \in 1..Len(s) PROVE i \in DOMAIN (s \o t) /\ (s \o t)[i] = s[i]
  BY <1>1, <1>2, SMTT(30)
<1>4. ASSUME NEW i \in 1..Len(s), NEW j \in 1..Len(s), i < j PROVE s[i] < s[j]
  <2>1. (s \o t)[i] < (s \o t)[j]
    BY <1>3, <1>4 DEF Increasing
  <2> QED
    BY <1>3, <2>1
<1> QED
  BY <1>2, <1>4 DEF Increasing

\* Two increasing sequences, the second above the first, are one.
LEMMA IncreasingConcat ==
  ASSUME NEW s \in Seq(Nat), NEW t \in Seq(Nat), Increasing(s), Increasing(t),
         \A i \in 1..Len(s) : \A j \in 1..Len(t) : s[i] < t[j]
  PROVE  Increasing(s \o t)
<1>1. /\ s \o t \in Seq(Nat) /\ Len(s \o t) = Len(s) + Len(t)
      /\ \A i \in 1..Len(s) + Len(t) :
            (s \o t)[i] = IF i =< Len(s) THEN s[i] ELSE t[i - Len(s)]
  BY ConcatProperties
<1>2. /\ Len(s) \in Nat /\ Len(t) \in Nat /\ DOMAIN s = 1..Len(s)
      /\ DOMAIN t = 1..Len(t) /\ DOMAIN (s \o t) = 1..Len(s) + Len(t)
  BY <1>1, LenProperties
<1>3. ASSUME NEW i \in 1..Len(s) + Len(t), NEW j \in 1..Len(s) + Len(t), i < j
      PROVE  (s \o t)[i] < (s \o t)[j]
  <2>1. CASE j =< Len(s)
    <3>1. i \in DOMAIN s /\ j \in DOMAIN s /\ (s \o t)[i] = s[i] /\ (s \o t)[j] = s[j]
      BY <1>1, <1>2, <1>3, <2>1, SMTT(30)
    <3> QED
      BY <1>3, <3>1 DEF Increasing
  <2>2. CASE i =< Len(s) /\ j > Len(s)
    <3>1. /\ i \in 1..Len(s) /\ j - Len(s) \in 1..Len(t)
          /\ (s \o t)[i] = s[i] /\ (s \o t)[j] = t[j - Len(s)]
      BY <1>1, <1>2, <1>3, <2>2, SMTT(30)
    <3> QED
      BY <3>1
  <2>3. CASE i > Len(s)
    <3>1. /\ i - Len(s) \in DOMAIN t /\ j - Len(s) \in DOMAIN t
          /\ (s \o t)[i] = t[i - Len(s)] /\ (s \o t)[j] = t[j - Len(s)]
          /\ i - Len(s) < j - Len(s)
      BY <1>1, <1>2, <1>3, <2>3, SMTT(30)
    <3> QED
      BY <3>1 DEF Increasing
  <2> QED
    BY <1>2, <1>3, <2>1, <2>2, <2>3, SMTT(30)
<1> QED
  BY <1>2, <1>3 DEF Increasing

\* Concatenations, element by element.
LEMMA ConcatElements ==
  ASSUME NEW s \in Seq(Nat), NEW t \in Seq(Nat)
  PROVE  /\ s \o t \in Seq(Nat) /\ Len(s \o t) = Len(s) + Len(t)
         /\ Len(s) \in Nat /\ Len(t) \in Nat
         /\ \A i \in 1..Len(s) : i \in 1..Len(s \o t) /\ (s \o t)[i] = s[i]
         /\ \A i \in 1..Len(t) : (s \o t)[Len(s) + i] = t[i]
         /\ \A i \in 1..Len(s \o t) :
               \/ i \in 1..Len(s) /\ (s \o t)[i] = s[i]
               \/ i - Len(s) \in 1..Len(t) /\ (s \o t)[i] = t[i - Len(s)]
<1>1. /\ s \o t \in Seq(Nat) /\ Len(s \o t) = Len(s) + Len(t)
      /\ \A i \in 1..Len(s) + Len(t) :
            (s \o t)[i] = IF i =< Len(s) THEN s[i] ELSE t[i - Len(s)]
  BY ConcatProperties
<1>2. Len(s) \in Nat /\ Len(t) \in Nat
  BY LenProperties
<1>3. ASSUME NEW i \in 1..Len(s) PROVE i \in 1..Len(s \o t) /\ (s \o t)[i] = s[i]
  BY <1>1, <1>2, SMTT(30)
<1>4. ASSUME NEW i \in 1..Len(t) PROVE (s \o t)[Len(s) + i] = t[i]
  <2>1. Len(s) + i \in 1..Len(s) + Len(t) /\ ~(Len(s) + i =< Len(s))
        /\ (Len(s) + i) - Len(s) = i
    BY <1>2, SMTT(30)
  <2> QED
    BY <1>1, <2>1
<1>5. ASSUME NEW i \in 1..Len(s \o t)
      PROVE  \/ i \in 1..Len(s) /\ (s \o t)[i] = s[i]
             \/ i - Len(s) \in 1..Len(t) /\ (s \o t)[i] = t[i - Len(s)]
  BY <1>1, <1>2, SMTT(30)
<1> QED
  BY <1>1, <1>2, <1>3, <1>4, <1>5

\* A byte more, or the bytes of a list moved one by one.
LEMMA AppendConcat ==
  ASSUME NEW s \in Seq(Nat), NEW t \in Seq(Nat), NEW x \in Nat
  PROVE  /\ s \o Append(t, x) = (s \o t) \o <<x>>
         /\ Append(s, x) = s \o <<x>>
         /\ <<x>> \in Seq(Nat) /\ Len(<<x>>) = 1 /\ <<x>>[1] = x
<1>1. <<x>> \in Seq(Nat) /\ Len(<<x>>) = 1 /\ <<x>>[1] = x
  BY SMTT(30)
<1>2. ASSUME NEW u \in Seq(Nat) PROVE Append(u, x) = u \o <<x>>
  BY <1>1, AppendIsConcat
<1>3. s \o (t \o <<x>>) = (s \o t) \o <<x>>
  BY <1>1, ConcatAssociative, SMTT(30)
<1> QED
  BY <1>1, <1>2, <1>3

\* A sequence is its head and then its tail.
LEMMA HeadConcatTail ==
  ASSUME NEW s \in Seq(Nat), s # <<>>
  PROVE  /\ Head(s) \in Nat /\ Tail(s) \in Seq(Nat) /\ s = <<Head(s)>> \o Tail(s)
         /\ Len(s) \in Nat \ {0} /\ Len(Tail(s)) = Len(s) - 1
<1>1. /\ Head(s) \in Nat /\ Tail(s) \in Seq(Nat) /\ Len(Tail(s)) = Len(s) - 1
      /\ \A i \in 1..Len(Tail(s)) : Tail(s)[i] = s[i + 1]
  BY HeadTailProperties
<1>2. Len(s) \in Nat \ {0} /\ Head(s) = s[1]
  BY EmptySeq, SMTT(30)
<1>3. <<Head(s)>> \in Seq(Nat) /\ Len(<<Head(s)>>) = 1 /\ <<Head(s)>>[1] = Head(s)
  BY <1>1, SMTT(30)
<1>4. /\ <<Head(s)>> \o Tail(s) \in Seq(Nat)
      /\ Len(<<Head(s)>> \o Tail(s)) = 1 + Len(Tail(s))
      /\ \A i \in 1..1 + Len(Tail(s)) : (<<Head(s)>> \o Tail(s))[i] =
            IF i =< 1 THEN <<Head(s)>>[i] ELSE Tail(s)[i - 1]
  BY <1>1, <1>3, ConcatProperties, SMTT(30)
<1>5. ASSUME NEW i \in 1..Len(s) PROVE (<<Head(s)>> \o Tail(s))[i] = s[i]
  <2>1. CASE i = 1
    BY <1>1, <1>2, <1>3, <1>4, <2>1, SMTT(30)
  <2>2. CASE i # 1
    <3>1. i - 1 \in 1..Len(Tail(s)) /\ ~(i =< 1) /\ (i - 1) + 1 = i
      BY <1>1, <1>2, <2>2, SMTT(30)
    <3>2. i \in 1..1 + Len(Tail(s))
      BY <1>1, <1>2, SMTT(30)
    <3> QED
      BY <1>1, <1>4, <3>1, <3>2
  <2> QED
    BY <2>1, <2>2
<1>6. Len(<<Head(s)>> \o Tail(s)) = Len(s)
  BY <1>1, <1>2, <1>4, SMTT(30)
<1> QED
  BY <1>1, <1>2, <1>4, <1>5, <1>6, SeqEqual

-----------------------------------------------------------------------------
(* From the serial line to the host.                                        *)

\* The bytes inserted, in the order they were heard: all but the missed ones.
Logged ==
    /\ \A i, j \in 0..nin - 1 : i < j => log[i] < log[j]
    /\ \A i \in 0..nin - 1 : log[i] \in 0..past.heard - 1
    /\ past.missed \subseteq 0..past.heard - 1
    /\ {log[i] : i \in 0..nin - 1} = (0..past.heard - 1) \ past.missed

\* As long as the buffer was not overrun, it holds the bytes from the nout-th
\* on, and the byte in the main loop's hands is the first of them.
Stored ==
    ~past.overrun =>
        /\ (nin - nout) + removing =< Size
        /\ In = Wrap(Out + (nin - nout))
        /\ \A j \in 0..Size - 1 :
              j < nin - nout => array[Wrap(Out + j)] = log[nout + j]
        /\ pc \in {"selectIn", "test", "wait", "write"} => byte = log[nout]

\* The endpoints exist as long as the device is configured or suspended; the
\* banks of endpoints that do not exist are empty.
Endpoints ==
    /\ usb.state \in {"configured", "suspended"} => usb.ep
    /\ ~usb.ep => inBank = NoBank /\ outBank = NoBank
    /\ ~outBank.held => outBank.bytes = <<>>

\* Without a reset the endpoint that SendByte tested is the one it writes.
Selected ==
    ~past.reset =>
        /\ pc \in {"selectIn", "test", "wait", "write"} => usb.ep
        /\ pc \in {"test", "wait", "write"} => sel = "in"
        /\ pc = "wait" => inBank.held \/ inBank.bytes = <<>>
        /\ pc = "write" => ~inBank.held /\ Len(inBank.bytes) < EpSize

\* What the host got, or will get from the bank; the bytes before Upto are
\* written.
ToHost == host.got \o inBank.bytes
Upto   == IF pc = "remove" THEN nout + 1 ELSE nout

Sent ==
    ~past.overrun =>
        /\ Increasing(ToHost)
        /\ \A i \in 1..Len(ToHost) :
              /\ ToHost[i] < past.heard
              /\ \A k \in Upto..nin - 1 : ToHost[i] < log[k]
        /\ ~past.reset => Len(ToHost) = Upto /\
                          \A i \in 1..Upto : ToHost[i] = log[i - 1]

\* Every step keeps the endpoints and their banks together.
LEMMA StepEndpoints ==
  ASSUME Types, Endpoints, [Next]_vars PROVE Endpoints'
<1>1. CASE \/ Receive \/ Select \/ OutTests \/ OutKept \/ OutEmpty \/ FlushDue
           \/ NotDue \/ PeekByte \/ Wait \/ Remove \/ Serial \/ FlushTests
           \/ SerialByte \/ UNCHANGED vars
  <2>1. UNCHANGED <<usb, inBank, outBank>>
    BY <1>1 DEF Receive, Select, OutTests, OutKept, OutEmpty, FlushDue, NotDue,
       PeekByte, Wait, Remove, Serial, FlushTests, SerialByte, vars
  <2> QED
    BY <2>1 DEF Endpoints
<1>2. CASE Test \/ Write \/ FlushClear \/ FlushWait
  <2>1. UNCHANGED <<usb, outBank>>
    BY <1>2 DEF Test, Write, FlushClear, FlushWait
  <2>2. ~usb.ep => inBank' = inBank
    BY <1>2 DEF Test, Write, FlushClear, FlushWait, ClearIN, IsReadWriteAllowed,
       IsINReady
  <2> QED
    BY <2>1, <2>2 DEF Endpoints
<1>3. CASE Read \/ ClearOUT
  <2>1. UNCHANGED <<usb, inBank>>
    BY <1>3 DEF Read, ClearOUT
  <2>2. \/ outBank' = outBank
        \/ usb.ep /\ outBank' = NoBank
        \/ /\ usb.ep /\ outBank.bytes # <<>>
           /\ outBank' = [outBank EXCEPT !.bytes = Tail(outBank.bytes)]
    BY <1>3 DEF Read, ClearOUT
  <2>3. outBank.held = [outBank EXCEPT !.bytes = Tail(outBank.bytes)].held
    BY DEF Types, Banks
  <2>4. NoBank.bytes = <<>>
    BY DEF NoBank
  <2> QED
    BY <2>1, <2>2, <2>3, <2>4 DEF Endpoints
<1>4. CASE Configure \/ BusReset
  <2>1. inBank' = NoBank /\ outBank' = NoBank
    BY <1>4 DEF Configure, BusReset, ResetBanks
  <2>2. CASE Configure
    <3>1. usb'.ep
      BY <2>2 DEF Configure, Types, Usb
    <3> QED
      BY <2>1, <3>1 DEF Endpoints, NoBank
  <2>3. CASE BusReset
    <3>1. usb'.state = "default"
      BY <2>3 DEF BusReset, Types, Usb
    <3> QED
      BY <2>1, <3>1 DEF Endpoints, NoBank
  <2> QED
    BY <1>4, <2>2, <2>3
<1>5. CASE LineEncodingWait \/ SetLineEncoding \/ LineEncodingGivenUp
  <2>1. /\ usb'.state = usb.state /\ (usb'.ep <=> usb.ep)
        /\ UNCHANGED <<inBank, outBank>>
    BY <1>5 DEF LineEncodingWait, SetLineEncoding, LineEncodingGivenUp, Types, Usb
  <2> QED
    BY <2>1 DEF Endpoints
<1>6. CASE Plug \/ WakeUp \/ Unplug \/ Suspend
  <2>1. UNCHANGED <<inBank, outBank>>
    BY <1>6 DEF Plug, WakeUp, Unplug, Suspend, BusEvent
  <2>2. /\ usb'.ep <=> usb.ep
        /\ usb'.state \in {"configured", "suspended"} =>
             usb.state \in {"configured", "suspended"}
    BY <1>6 DEF Plug, WakeUp, Unplug, Suspend, BusEvent, Types, Usb
  <2> QED
    BY <2>1, <2>2 DEF Endpoints
<1>7. CASE HostReads
  BY <1>7 DEF HostReads, Endpoints
<1>8. ASSUME NEW n \in 0..EpSize, HostSends(n) PROVE Endpoints'
  BY <1>8 DEF HostSends, Endpoints
<1> QED
  BY <1>1, <1>2, <1>3, <1>4, <1>5, <1>6, <1>7, <1>8 DEF Next, Main

\* What the interrupts add to the history.
LEMMA PastSteps ==
  ASSUME Types
  PROVE  /\ Disturb(TRUE) => past'.reset /\ (past'.overrun <=> past.overrun)
         /\ Disturb(FALSE) => /\ past'.reset <=> past.reset
                              /\ past'.overrun <=> past.overrun
         /\ SerialByte =>
              /\ past'.reset <=> past.reset
              /\ past'.overrun <=> \/ past.overrun
                                   \/ usb.state = "configured" /\ Occupied + removing = Size
         /\ FlushWait => /\ past'.reset <=> past.reset
                         /\ past'.overrun <=> past.overrun
         /\ BusReset => /\ past'.reset <=> (past.reset \/ usb.ep \/ usb.state # "powered")
                        /\ past'.overrun <=> past.overrun
<1>0. past \in Pasts
  BY DEF Types, Histories
<1>1. /\ Disturb(TRUE) => past'.reset /\ (past'.overrun <=> past.overrun)
      /\ Disturb(FALSE) => /\ past'.reset <=> past.reset
                           /\ past'.overrun <=> past.overrun
  BY <1>0 DEF Disturb, Pasts
<1>2. ASSUME SerialByte
      PROVE  /\ past'.reset <=> past.reset
             /\ past'.overrun <=> \/ past.overrun
                                  \/ usb.state = "configured" /\ Occupied + removing = Size
  <2> DEFINE o == past.overrun \/ Occupied + removing = Size
             h == past.heard + 1
             m == past.missed \cup {past.heard}
  <2>1. \/ usb.state = "configured" /\ past' = [past EXCEPT !.heard = h, !.overrun = o]
        \/ usb.state # "configured" /\ past' = [past EXCEPT !.heard = h, !.missed = m]
    BY <1>2 DEF SerialByte
  <2> HIDE DEF o, h, m
  <2>2. /\ past'.reset <=> past.reset
        /\ usb.state = "configured" => (past'.overrun <=> o)
        /\ usb.state # "configured" => (past'.overrun <=> past.overrun)
    BY <1>0, <2>1 DEF Pasts
  <2> QED
    BY <2>2 DEF o
<1>3. ASSUME FlushWait
      PROVE  (past'.reset <=> past.reset) /\ (past'.overrun <=> past.overrun)
  BY <1>0, <1>3 DEF FlushWait, Pasts
<1>4. ASSUME BusReset
      PROVE  /\ past'.reset <=> (past.reset \/ usb.ep \/ usb.state # "powered")
             /\ past'.overrun <=> past.overrun
  <2>1. CASE usb.state = "powered"
    BY <1>0, <1>4, <2>1 DEF BusReset, Pasts
  <2>2. CASE usb.state # "powered"
    BY <1>1, <1>4, <2>2 DEF BusReset
  <2> QED
    BY <2>1, <2>2
<1> QED
  BY <1>1, <1>2, <1>3, <1>4

\* Resets and overruns are not forgotten.
LEMMA PastGrows ==
  ASSUME Types, [Next]_vars
  PROVE  (past.reset => past'.reset) /\ (past.overrun => past'.overrun)
<1>1. CASE \/ Receive \/ Select \/ OutTests \/ Read \/ OutKept \/ OutEmpty
           \/ ClearOUT \/ FlushDue \/ NotDue \/ PeekByte \/ Test \/ Wait \/ Write
           \/ Remove \/ Serial \/ FlushTests \/ FlushClear \/ SetLineEncoding
           \/ LineEncodingGivenUp \/ Plug \/ WakeUp \/ HostReads
           \/ (\E n \in 0..EpSize : HostSends(n)) \/ UNCHANGED vars
  <2>1. past' = past
    BY <1>1 DEF Receive, Select, OutTests, Read, OutKept, OutEmpty, ClearOUT,
       FlushDue, NotDue, PeekByte, Test, Wait, Write, Remove, Serial, FlushTests,
       FlushClear, SetLineEncoding, LineEncodingGivenUp, Plug, WakeUp, HostReads,
       HostSends, vars, envVars
  <2> QED
    BY <2>1
<1>2. CASE FlushWait \/ SerialByte \/ BusReset
  BY <1>2, PastSteps
<1>3. CASE Unplug \/ Suspend \/ Configure \/ LineEncodingWait
  <2>1. Disturb(FALSE) \/ Disturb(TRUE) \/ past' = past
    BY <1>3 DEF Unplug, Suspend, Configure, LineEncodingWait
  <2> QED
    BY <2>1, PastSteps
<1> QED
  BY <1>1, <1>2, <1>3 DEF Next, Main

\* Between SelectEndpoint and Write_8 only a reset changes the endpoint, and
\* the bank takes the byte.
LEMMA StepSelected ==
  ASSUME Types, Endpoints, Selected, [Next]_vars PROVE Selected'
<1> SUFFICES ASSUME ~past'.reset PROVE Selected'
  BY DEF Selected
<1>0. /\ ~past.reset
      /\ pc \in {"selectIn", "test", "wait", "write"} => usb.ep
      /\ pc \in {"test", "wait", "write"} => sel = "in"
      /\ pc = "wait" => inBank.held \/ inBank.bytes = <<>>
      /\ pc = "write" => ~inBank.held /\ Len(inBank.bytes) < EpSize
  BY PastGrows DEF Selected
<1>1. CASE \/ Receive \/ OutTests \/ Read \/ OutKept \/ OutEmpty \/ ClearOUT
           \/ FlushDue \/ NotDue \/ Write \/ Remove \/ Serial \/ FlushTests
           \/ FlushClear \/ FlushWait
  <2>1. pc' \notin {"selectIn", "test", "wait", "write"}
    BY <1>1 DEF Receive, OutTests, Read, OutKept, OutEmpty, ClearOUT, FlushDue,
       NotDue, Write, Remove, Serial, Flush, FlushTests, FlushClear, FlushWait,
       AfterFlush, Goto
  <2> QED
    BY <2>1 DEF Selected
<1>2. CASE Select
  BY <1>0, <1>2 DEF Select, Goto, Selected
<1>3. CASE PeekByte
  BY <1>0, <1>3 DEF PeekByte, Goto, Usable, Endpoints, Selected
<1>4. CASE Test
  <2>1. CASE pc' = "write"
    <3>1. pc = "test" /\ TRUE \in Outcomes(IsReadWriteAllowed) /\ UNCHANGED <<usb, sel, inBank>>
      BY <1>4, <2>1 DEF Test, Goto
    <3>2. IsReadWriteAllowed
      BY <1>0, <3>1 DEF Outcomes
    <3> QED
      BY <1>0, <2>1, <3>1, <3>2 DEF IsReadWriteAllowed, IsINReady, Selected
  <2>2. CASE pc' = "wait"
    <3>1. pc = "test" /\ ClearIN /\ UNCHANGED <<usb, sel>>
      BY <1>4, <2>2 DEF Test, Goto
    <3>2. inBank'.held
      BY <1>0, <3>1 DEF ClearIN, Types, Banks
    <3> QED
      BY <1>0, <2>2, <3>1, <3>2 DEF Selected
  <2> QED
    BY <1>4, <2>1, <2>2 DEF Test, Goto
<1>5. CASE Wait
  <2>1. CASE pc' = "write"
    <3>0. pc = "wait" /\ TRUE \in Outcomes(IsINReady) /\ UNCHANGED <<usb, sel, inBank>>
      BY <1>5, <2>1 DEF Wait, Goto, AfterTimeout
    <3>1. pc = "wait" /\ IsINReady /\ UNCHANGED <<usb, sel, inBank>>
      BY <1>0, <3>0 DEF Outcomes
    <3>2. Len(inBank.bytes) < EpSize
      BY <1>0, <3>1, USBtoSerialAssumption, EmptySeq, SMTT(30) DEF IsINReady
    <3> QED
      BY <1>0, <2>1, <3>1, <3>2 DEF Selected, IsINReady
  <2>2. CASE pc' = "serial"
    BY <2>2 DEF Selected
  <2> QED
    BY <1>5, <2>1, <2>2 DEF Wait, Goto, AfterTimeout
<1>6. CASE SerialByte \/ (\E n \in 0..EpSize : HostSends(n)) \/ UNCHANGED vars
  <2>1. UNCHANGED <<usb, sel, inBank, pc>>
    BY <1>6 DEF SerialByte, HostSends, vars, mainVars
  <2> QED
    BY <1>0, <2>1 DEF Selected
<1>7. CASE Configure \/ BusReset
  <2>1. pc' = pc
    BY <1>7 DEF Configure, BusReset, mainVars
  <2>2. Configure /\ usb.ep => Disturb(TRUE)
    BY DEF Configure
  <2>3. ~usb.ep
    BY <1>7, <2>2, PastSteps
  <2> QED
    BY <1>0, <2>1, <2>3 DEF Selected
<1>8. CASE \/ LineEncodingWait \/ SetLineEncoding \/ LineEncodingGivenUp \/ Plug \/ WakeUp \/ Unplug \/ Suspend
  <2>1. (usb'.ep <=> usb.ep) /\ UNCHANGED <<sel, inBank, pc>>
    BY <1>8 DEF LineEncodingWait, SetLineEncoding, LineEncodingGivenUp, Plug,
       WakeUp, Unplug, Suspend, BusEvent, mainVars, Types, Usb
  <2> QED
    BY <1>0, <2>1 DEF Selected
<1>9. CASE HostReads
  <2>1. inBank' = NoBank /\ UNCHANGED <<usb, sel, pc>>
    BY <1>9 DEF HostReads, mainVars
  <2>2. Len(<<>>) < EpSize
    BY USBtoSerialAssumption, EmptySeq, SMTT(30)
  <2> QED
    BY <1>0, <2>1, <2>2 DEF Selected, NoBank
<1> QED
  BY <1>1, <1>2, <1>3, <1>4, <1>5, <1>6, <1>7, <1>8, <1>9 DEF Next, Main

\* An insertion that finds room leaves the other bytes alone; a removal takes
\* the byte that was sent.
LEMMA StepStored ==
  ASSUME Types, Stored, [Next]_vars PROVE Stored'
<1> SUFFICES ASSUME ~past'.overrun PROVE Stored'
  BY DEF Stored
<1> USE RingBufferAssumption, USBtoSerialAssumption
<1>0. /\ (nin - nout) + removing =< Size
      /\ In = Wrap(Out + (nin - nout))
      /\ \A j \in 0..Size - 1 :
            j < nin - nout => array[Wrap(Out + j)] = log[nout + j]
      /\ pc \in {"selectIn", "test", "wait", "write"} => byte = log[nout]
  BY PastGrows DEF Stored
<1>t. /\ In \in 0..Size - 1 /\ Out \in 0..Size - 1 /\ nin \in Nat /\ nout \in Nat
      /\ array \in [0..Size - 1 -> Data] /\ removing \in {0, 1} /\ nout =< nin
      /\ pc = "remove" => nout < nin /\ removing = 0
      /\ BufferCount \in Nat /\ (pc = "peek" => BufferCount + nout =< nin)
  BY SMTT(30) DEF Types, Ring, Loop, InHand
<1>1. ASSUME UNCHANGED ringVars,
             pc' \in {"selectIn", "test", "wait", "write"} => byte' = log[nout]
      PROVE  Stored'
  BY <1>0, <1>1 DEF Stored, ringVars, Wrap
<1>2. CASE \/ Receive \/ OutTests \/ Read \/ OutKept \/ OutEmpty \/ ClearOUT
           \/ FlushDue \/ NotDue \/ Write \/ Serial \/ FlushTests \/ FlushClear
           \/ FlushWait
  <2>1. pc' \notin {"selectIn", "test", "wait", "write"} /\ UNCHANGED ringVars
    BY <1>2 DEF Receive, OutTests, Read, OutKept, OutEmpty, ClearOUT, FlushDue,
       NotDue, Write, Serial, Flush, FlushTests, FlushClear, FlushWait,
       AfterFlush, Goto
  <2> QED
    BY <1>1, <2>1
<1>3. CASE Select \/ Test \/ Wait
  <2>1. /\ UNCHANGED ringVars
        /\ pc' \in {"selectIn", "test", "wait", "write"} =>
             pc \in {"selectIn", "test", "wait"} /\ byte' = byte
    BY <1>3 DEF Select, Test, Wait, AfterTimeout, Goto
  <2> QED
    BY <1>0, <1>1, <2>1
<1>4. CASE PeekByte
  <2>1. UNCHANGED ringVars
    BY <1>4 DEF PeekByte
  <2>2. ASSUME pc' = "selectIn" PROVE byte' = log[nout]
    <3>1. nout < nin /\ byte' = array[Out]
      BY <1>4, <1>t, <2>2, SMTT(30) DEF PeekByte, Peek, Goto
    <3>2. Wrap(Out + 0) = Out /\ 0 \in 0..Size - 1 /\ 0 < nin - nout
      BY <1>t, <3>1, SMTT(30) DEF Wrap
    <3>3. nout + 0 = nout
      BY <1>t, SMTT(30)
    <3>4. array[Wrap(Out + 0)] = log[nout + 0]
      BY <1>0, <3>2
    <3> QED
      BY <3>1, <3>2, <3>3, <3>4
  <2>3. pc' \in {"serial", "selectIn"}
    BY <1>4 DEF PeekByte, Goto
  <2> QED
    BY <1>1, <2>1, <2>2, <2>3
<1>5. CASE Remove
  <2>0. UNCHANGED <<In, array, log, nin>> /\ pc' \in {"removed", "peek"}
    BY <1>5 DEF Remove, Goto, ringHist
  <2>1. CASE pc = "remove"
    <3>1. Out' = Advance(Out) /\ nout' = nout + 1 /\ removing' = 1
      BY <1>5, <2>1 DEF Remove, Fetch, Goto
    <3>2. In' = Wrap(Out' + (nin' - nout'))
      BY <1>0, <1>t, <2>0, <2>1, <3>1, SMTT(30) DEF Wrap, Advance
    <3>3. ASSUME NEW j \in 0..Size - 1, j < nin' - nout'
          PROVE  array'[Wrap(Out' + j)] = log'[nout' + j]
      <4>1. j + 1 \in 0..Size - 1 /\ j + 1 < nin - nout
        BY <1>0, <1>t, <2>0, <2>1, <3>1, <3>3, SMTT(30)
      <4>2. array[Wrap(Out + (j + 1))] = log[nout + (j + 1)]
        BY <1>0, <4>1
      <4>3. Wrap(Out' + j) = Wrap(Out + (j + 1)) /\ nout' + j = nout + (j + 1)
        BY <1>t, <3>1, SMTT(30) DEF Wrap, Advance
      <4> QED
        BY <2>0, <4>2, <4>3
    <3>4. (nin' - nout') + removing' =< Size
      BY <1>0, <1>t, <2>0, <2>1, <3>1, SMTT(30)
    <3> QED
      BY <2>0, <3>2, <3>3, <3>4 DEF Stored, Wrap
  <2>2. CASE pc = "removed"
    <3>1. UNCHANGED <<Out, nout>> /\ removing' = 0
      BY <1>5, <2>2 DEF Remove, Goto
    <3>2. (nin' - nout') + removing' =< Size
      BY <1>0, <1>t, <2>0, <3>1, SMTT(30)
    <3> QED
      BY <1>0, <2>0, <3>1, <3>2 DEF Stored, Wrap
  <2> QED
    BY <1>5, <2>1, <2>2 DEF Remove, Goto
<1>6. CASE SerialByte /\ usb.state = "configured"
  <2>1. /\ array' = [array EXCEPT ![In] = past.heard] /\ In' = Advance(In)
        /\ log' = [log EXCEPT ![nin] = past.heard]
        /\ nin' = nin + 1 /\ UNCHANGED <<Out, nout, removing, pc, byte>>
    BY <1>6 DEF SerialByte, Store, mainVars
  <2>2. (nin - nout) + removing < Size
    BY <1>0, <1>6, <1>t, PastSteps, SMTT(30) DEF Occupied
  <2>3. In' = Wrap(Out' + (nin' - nout'))
    BY <1>0, <1>t, <2>1, <2>2, SMTT(30) DEF Wrap, Advance
  <2>l. /\ log'[nin] = past.heard
        /\ \A k \in 0..nin - 1 : log'[k] = log[k]
    <3>1. log \in [0..MaxBytes - 1 -> Data] /\ nin \in 0..MaxBytes - 1
      BY <1>6, <1>t, SMTT(30) DEF Types, Ring, Numbers, Histories, Pasts, SerialByte
    <3>2. \A k \in 0..nin - 1 : k \in 0..MaxBytes - 1 /\ k # nin
      BY <1>t, <3>1, SMTT(30)
    <3> QED
      BY <2>1, <3>1, <3>2
  <2>4. ASSUME NEW j \in 0..Size - 1, j < nin' - nout'
        PROVE  array'[Wrap(Out + j)] = log'[nout + j]
    <3>1. CASE j = nin - nout
      <4>1. Wrap(Out + j) = In /\ nout + j = nin
        BY <1>0, <1>t, <3>1, SMTT(30)
      <4> QED
        BY <1>t, <2>1, <2>l, <4>1
    <3>2. CASE j < nin - nout
      <4>1. Wrap(Out + j) # In /\ Wrap(Out + j) \in 0..Size - 1
        BY <1>0, <1>t, <2>2, <3>2, SMTT(30) DEF Wrap
      <4>2. array[Wrap(Out + j)] = log[nout + j]
        BY <1>0, <3>2
      <4>3. nout + j \in 0..nin - 1
        BY <1>t, <3>2, SMTT(30)
      <4> QED
        BY <1>t, <2>1, <2>l, <4>1, <4>2, <4>3
    <3> QED
      BY <1>t, <2>1, <2>4, <3>1, <3>2, SMTT(30)
  <2>5. (nin' - nout') + removing' =< Size
    BY <1>t, <2>1, <2>2, SMTT(30)
  <2>6. ASSUME pc \in {"selectIn", "test", "wait", "write"} PROVE byte' = log'[nout]
    <3>1. nout \in 0..nin - 1
      BY <1>t, <2>6, SMTT(30) DEF Types, Loop, InHand
    <3> QED
      BY <1>0, <2>1, <2>6, <2>l, <3>1
  <2> QED
    BY <2>1, <2>3, <2>4, <2>5, <2>6 DEF Stored, Wrap
<1>7. CASE \/ Configure \/ LineEncodingWait \/ SetLineEncoding
           \/ LineEncodingGivenUp \/ BusReset \/ Plug \/ WakeUp \/ Unplug
           \/ Suspend \/ (SerialByte /\ usb.state # "configured") \/ HostReads \/ (\E n \in 0..EpSize : HostSends(n))
           \/ UNCHANGED vars
  <2>1. UNCHANGED <<ringVars, pc, byte>>
    BY <1>7 DEF Configure, LineEncodingWait, SetLineEncoding,
       LineEncodingGivenUp, BusReset, Plug, WakeUp, Unplug, Suspend, BusEvent,
       SerialByte, ringVars, HostReads, HostSends, vars, mainVars
  <2> QED
    BY <1>0, <1>1, <2>1
<1> QED
  BY <1>2, <1>3, <1>4, <1>5, <1>6, <1>7 DEF Next, Main

\* Only the receive interrupt changes the log, and only the end of it.
LEMMA LogSteps ==
  ASSUME Types, [Next]_vars
  PROVE  \/ SerialByte
         \/ UNCHANGED <<log, nin>> /\ past'.heard = past.heard /\ past'.missed = past.missed
<1>1. log' = log \/ SerialByte
  BY DEF Next, Main, Receive, Select, OutTests, Read, OutKept, OutEmpty, ClearOUT,
     FlushDue, NotDue, PeekByte, Test, Wait, Write, Remove, Serial, FlushTests,
     FlushClear, FlushWait, Configure, LineEncodingWait, SetLineEncoding,
     LineEncodingGivenUp, BusReset, Plug, WakeUp, Unplug, Suspend, BusEvent,
     HostReads, HostSends, vars, ringVars, ringHist
<1> QED
  BY <1>1, HeardSteps DEF Types

\* A byte that is heard is logged, or missed.
LEMMA HeardByte ==
  ASSUME Types, SerialByte
  PROVE  /\ past'.heard = past.heard + 1
         /\ usb.state = "configured" =>
              /\ log'[nin] = past.heard /\ nin' = nin + 1
              /\ \A k \in 0..nin - 1 : log'[k] = log[k]
              /\ past'.missed = past.missed
         /\ usb.state # "configured" =>
              /\ UNCHANGED <<log, nin>>
              /\ past'.missed = past.missed \cup {past.heard}
<1>0. /\ past \in Pasts /\ past.heard \in Nat /\ nin \in Nat /\ MaxBytes \in Nat
      /\ nin =< past.heard /\ log \in [0..MaxBytes - 1 -> Data]
  BY RingBufferAssumption, SMTT(30) DEF Types, Histories, Pasts, Ring, Numbers
<1> DEFINE o == past.overrun \/ Occupied + removing = Size
           h == past.heard + 1
           m == past.missed \cup {past.heard}
<1>1. CASE usb.state = "configured"
  <2>1. /\ log' = [log EXCEPT ![nin] = past.heard] /\ nin' = nin + 1
        /\ past.heard < MaxBytes
        /\ past' = [past EXCEPT !.heard = h, !.overrun = o]
    BY <1>1 DEF SerialByte, Store
  <2>2. past'.heard = h /\ past'.missed = past.missed
    <3> HIDE DEF h, o
    <3> QED
      BY <1>0, <2>1 DEF Pasts
  <2>3. nin \in 0..MaxBytes - 1 /\ \A k \in 0..nin - 1 : k \in 0..MaxBytes - 1 /\ k # nin
    BY <1>0, <2>1, SMTT(30)
  <2> QED
    BY <1>0, <1>1, <2>1, <2>2, <2>3
<1>2. CASE usb.state # "configured"
  <2>1. /\ UNCHANGED <<log, nin>>
        /\ past' = [past EXCEPT !.heard = h, !.missed = m]
    BY <1>2 DEF SerialByte
  <2>2. past'.heard = h /\ past'.missed = m
    <3> HIDE DEF h, m
    <3> QED
      BY <1>0, <2>1 DEF Pasts
  <2> QED
    BY <1>2, <2>1, <2>2
<1> QED
  BY <1>1, <1>2

\* The log stays the bytes heard without those missed.
LEMMA StepLogged ==
  ASSUME Types, Logged, [Next]_vars PROVE Logged'
<1>0. /\ past.heard \in Nat /\ nin \in Nat /\ past.missed \subseteq 0..past.heard - 1
      /\ \A i \in 0..nin - 1 : log[i] \in 0..past.heard - 1
      /\ \A i, j \in 0..nin - 1 : i < j => log[i] < log[j]
  BY RingBufferAssumption, SMTT(30) DEF Types, Histories, Pasts, Ring, Logged
<1>1. {log[i] : i \in 0..nin - 1} = (0..past.heard - 1) \ past.missed
  BY DEF Logged
<1>2. CASE ~SerialByte
  <2>1. UNCHANGED <<log, nin>> /\ past'.heard = past.heard /\ past'.missed = past.missed
    BY <1>2, LogSteps
  <2> QED
    BY <2>1 DEF Logged
<1>3. CASE SerialByte /\ usb.state = "configured"
  <2>1. /\ past'.heard = past.heard + 1 /\ nin' = nin + 1 /\ log'[nin] = past.heard
        /\ \A k \in 0..nin - 1 : log'[k] = log[k]
        /\ past'.missed = past.missed
    BY <1>3, HeardByte
  <2>2. /\ 0..nin' - 1 = (0..nin - 1) \cup {nin}
        /\ 0..past'.heard - 1 = (0..past.heard - 1) \cup {past.heard}
        /\ past.heard \notin 0..past.heard - 1
    BY <1>0, <2>1, SMTT(30)
  <2>3. \A i \in 0..nin' - 1 : log'[i] \in 0..past'.heard - 1
    BY <1>0, <2>1, <2>2
  <2>4. ASSUME NEW i \in 0..nin' - 1, NEW j \in 0..nin' - 1, i < j
        PROVE  log'[i] < log'[j]
    <3>1. i \in 0..nin - 1 /\ j \in (0..nin - 1) \cup {nin}
      BY <1>0, <2>1, <2>4, SMTT(30)
    <3>2. CASE j = nin
      <4>1. log[i] \in 0..past.heard - 1
        BY <1>0, <3>1
      <4> QED
        BY <1>0, <2>1, <3>1, <3>2, <4>1, SMTT(30)
    <3>3. CASE j \in 0..nin - 1
      BY <1>0, <2>1, <2>4, <3>1, <3>3
    <3> QED
      BY <3>1, <3>2, <3>3
  <2>5. {log'[i] : i \in 0..nin' - 1} = {log[i] : i \in 0..nin - 1} \cup {past.heard}
    BY <2>1, <2>2
  <2>6. past'.missed \subseteq 0..past'.heard - 1
    BY <1>0, <2>1, <2>2
  <2>7. past.heard \notin past.missed
    BY <1>0, <2>2
  <2>8. (0..past'.heard - 1) \ past'.missed
          = ((0..past.heard - 1) \ past.missed) \cup {past.heard}
    BY <2>1, <2>2, <2>7
  <2>9. {log'[i] : i \in 0..nin' - 1} = (0..past'.heard - 1) \ past'.missed
    BY <1>1, <2>5, <2>8
  <2> QED
    BY <2>3, <2>4, <2>6, <2>9 DEF Logged
<1>4. CASE SerialByte /\ usb.state # "configured"
  <2>1. /\ past'.heard = past.heard + 1 /\ UNCHANGED <<log, nin>>
        /\ past'.missed = past.missed \cup {past.heard}
    BY <1>4, HeardByte
  <2>2. /\ 0..past'.heard - 1 = (0..past.heard - 1) \cup {past.heard}
        /\ past.heard \notin 0..past.heard - 1
    BY <1>0, <2>1, SMTT(30)
  <2>3. (0..past'.heard - 1) \ past'.missed = (0..past.heard - 1) \ past.missed
    BY <2>1, <2>2
  <2> QED
    BY <1>0, <1>1, <2>1, <2>2, <2>3 DEF Logged
<1> QED
  BY <1>2, <1>3, <1>4

\* A step that leaves the host's bytes alone, or gives the bank back, loses no
\* byte without a reset.
LEMMA KeepsSent ==
  ASSUME Types, Sent, [Next]_vars, Upto' = Upto,
         UNCHANGED <<log, nin>> /\ past'.heard = past.heard,
         \/ ToHost' = ToHost
         \/ past'.reset /\ ToHost' = host.got
  PROVE  Sent'
<1>1. CASE past'.overrun
  BY <1>1 DEF Sent
<1>2. CASE ~past'.overrun /\ ToHost' = ToHost
  BY <1>2, PastGrows DEF Sent, Increasing
<1>3. CASE ~past'.overrun /\ past'.reset /\ ToHost' = host.got
  <2>1. host.got \in Seq(Nat) /\ inBank.bytes \in Seq(Nat)
    BY DEF Types, Histories, Banks
  <2>2. /\ Increasing(host.got \o inBank.bytes)
        /\ \A i \in 1..Len(host.got \o inBank.bytes) :
              /\ (host.got \o inBank.bytes)[i] < past.heard
              /\ \A k \in Upto..nin - 1 : (host.got \o inBank.bytes)[i] < log[k]
    BY <1>3, PastGrows DEF Sent, ToHost
  <2>3. Increasing(host.got)
    BY <2>1, <2>2, IncreasingPrefix
  <2>4. ASSUME NEW i \in 1..Len(host.got)
        PROVE  /\ host.got[i] < past.heard
               /\ \A k \in Upto..nin - 1 : host.got[i] < log[k]
    <3>0. \A k \in 1..Len(host.got) :
             /\ k \in 1..Len(host.got \o inBank.bytes)
             /\ (host.got \o inBank.bytes)[k] = host.got[k]
      BY <2>1, ConcatElements
    <3>1. /\ i \in 1..Len(host.got \o inBank.bytes)
          /\ (host.got \o inBank.bytes)[i] = host.got[i]
      BY <3>0
    <3> QED
      BY <2>2, <3>1
  <2> QED
    BY <1>3, <2>3, <2>4 DEF Sent, Increasing
<1> QED
  BY <1>1, <1>2, <1>3

\* A byte that is heard comes after everything that was written.
LEMMA HeardSent ==
  ASSUME Types, Sent, SerialByte, [Next]_vars PROVE Sent'
<1> SUFFICES ASSUME ~past'.overrun PROVE Sent'
  BY DEF Sent
<1>0. /\ past.heard \in Nat /\ nin \in Nat /\ Upto \in Nat /\ Upto =< nin
      /\ host.got \in Seq(Nat) /\ inBank.bytes \in Seq(Nat)
  BY RingBufferAssumption, SMTT(30)
  DEF Types, Histories, Pasts, Ring, Loop, InHand, Upto, Banks
<1>1. /\ Increasing(ToHost)
      /\ \A i \in 1..Len(ToHost) : /\ ToHost[i] < past.heard
                                   /\ \A k \in Upto..nin - 1 : ToHost[i] < log[k]
      /\ ~past.reset => Len(ToHost) = Upto /\
                        \A i \in 1..Upto : ToHost[i] = log[i - 1]
  BY PastGrows DEF Sent
<1>2. UNCHANGED <<host, inBank, nout, pc>>
  BY DEF SerialByte, mainVars
<1>3. ToHost' = ToHost /\ Upto' = Upto
  BY <1>2 DEF ToHost, Upto
<1>4. past'.heard = past.heard + 1 /\ (past'.reset <=> past.reset)
  BY HeardByte, PastSteps
<1>5. /\ \A k \in 0..nin - 1 : log'[k] = log[k]
      /\ \/ nin' = nin
         \/ nin' = nin + 1 /\ log'[nin] = past.heard
  BY HeardByte
<1>6. ToHost \in Seq(Nat)
  BY <1>0, ConcatProperties DEF ToHost
<1>7. ASSUME NEW i \in 1..Len(ToHost)
      PROVE  /\ ToHost[i] < past.heard + 1
             /\ \A k \in Upto..nin' - 1 : ToHost[i] < log'[k]
  <2>1. ToHost[i] \in Nat /\ ToHost[i] < past.heard
    BY <1>1, <1>6, ElementOfSeq
  <2>2. ASSUME NEW k \in Upto..nin' - 1 PROVE ToHost[i] < log'[k]
    <3>1. \/ k \in 0..nin - 1 /\ k \in Upto..nin - 1
          \/ k = nin /\ nin' = nin + 1
      BY <1>0, <1>5, <2>2, SMTT(30)
    <3>2. CASE k \in 0..nin - 1 /\ k \in Upto..nin - 1
      BY <1>1, <1>5, <3>2
    <3>3. CASE k = nin /\ nin' = nin + 1
      <4>1. nin # nin + 1
        BY <1>0, SMTT(30)
      <4> QED
        BY <1>5, <2>1, <3>3, <4>1
    <3> QED
      BY <3>1, <3>2, <3>3
  <2> QED
    BY <1>0, <2>1, <2>2, SMTT(30)
<1>8. ASSUME ~past.reset, NEW i \in 1..Upto PROVE ToHost[i] = log'[i - 1]
  <2>1. i - 1 \in 0..nin - 1
    BY <1>0, SMTT(30)
  <2> QED
    BY <1>1, <1>5, <1>8, <2>1
<1> QED
  BY <1>1, <1>3, <1>4, <1>7, <1>8 DEF Sent, Increasing

\* SendByte writes the byte that is next, and Remove dequeues that one.
LEMMA StepSent ==
  ASSUME Types, Endpoints, Logged, Stored, Selected, Sent, [Next]_vars PROVE Sent'
<1>0. host.got \in Seq(Nat) /\ inBank.bytes \in Seq(Nat) /\ nout \in Nat /\ byte \in Nat
      /\ nin \in Nat /\ past.heard \in Nat
  BY USBtoSerialAssumption, RingBufferAssumption, SMTT(30)
  DEF Types, Histories, Pasts, Banks, Loop, Ring
<1>l. CASE SerialByte
  BY <1>l, HeardSent
<1> SUFFICES ASSUME ~SerialByte PROVE Sent'
  BY <1>l
<1>k. UNCHANGED <<log, nin>> /\ past'.heard = past.heard
  BY LogSteps
<1>1. CASE \/ Receive \/ Select \/ OutTests \/ Read \/ OutKept \/ OutEmpty
           \/ ClearOUT \/ FlushDue \/ NotDue \/ PeekByte \/ Wait \/ Serial
           \/ FlushTests
  <2>1. ToHost' = ToHost
    BY <1>1 DEF Receive, Select, OutTests, Read, OutKept, OutEmpty, ClearOUT,
       FlushDue, NotDue, PeekByte, Wait, Serial, FlushTests, ToHost, envVars
  <2>2. pc # "remove" /\ pc' # "remove" /\ nout' = nout
    BY <1>1 DEF Receive, Select, OutTests, Read, OutKept, OutEmpty, ClearOUT,
       FlushDue, NotDue, PeekByte, Wait, Serial, Flush, FlushTests, AfterTimeout,
       Goto, ringVars
  <2> QED
    BY <1>k, <2>1, <2>2, KeepsSent DEF Upto
<1>2. CASE Test \/ FlushClear \/ FlushWait
  <2>1. UNCHANGED <<host, outBank>> /\ (inBank' = inBank \/ ClearIN)
    BY <1>2 DEF Test, FlushClear, FlushWait, envVars
  <2>2. ToHost' = ToHost
    BY <2>1, ClearINTypes DEF ToHost
  <2>3. pc # "remove" /\ pc' # "remove" /\ nout' = nout
    BY <1>2 DEF Test, FlushClear, FlushWait, AfterFlush, Goto, ringVars
  <2> QED
    BY <1>k, <2>2, <2>3, KeepsSent DEF Upto
<1>3. CASE Write
  <2>1. /\ pc = "write" /\ pc' = "remove" /\ nout' = nout
        /\ UNCHANGED <<host, past>>
    BY <1>3 DEF Write, Goto, ringVars, envVars
  <2> SUFFICES ASSUME ~past.overrun PROVE Sent'
    BY <2>1 DEF Sent
  <2>2. /\ Upto = nout /\ Upto' = nout + 1 /\ byte = log[nout]
    BY <2>1 DEF Upto, Stored
  <2>3. /\ Increasing(ToHost)
        /\ \A i \in 1..Len(ToHost) : /\ ToHost[i] < past.heard
                                     /\ \A k \in nout..nin - 1 : ToHost[i] < log[k]
        /\ ~past.reset => /\ Len(ToHost) = nout
                          /\ \A i \in 1..nout : ToHost[i] = log[i - 1]
    BY <2>2 DEF Sent
  <2>n. /\ nout \in 0..nin - 1 /\ nout \in nout..nin - 1
        /\ \A k \in nout + 1..nin - 1 :
              k \in 0..nin - 1 /\ k \in nout..nin - 1 /\ nout < k
    BY <1>0, <2>1, SMTT(30) DEF Types, Loop, InHand
  <2>b. /\ byte < past.heard /\ \A k \in nout + 1..nin - 1 : byte < log[k]
        /\ \A i \in 1..Len(ToHost) : ToHost[i] < byte
    <3>1. log[nout] \in 0..past.heard - 1
      BY <2>n DEF Logged
    <3>2. log[nout] < past.heard
      BY <1>0, <3>1, SMTT(30)
    <3> QED
      BY <2>2, <2>3, <2>n, <3>2 DEF Logged
  <2>4. ToHost \in Seq(Nat) /\ Len(ToHost) \in Nat /\ DOMAIN ToHost = 1..Len(ToHost)
    BY <1>0, ConcatProperties, LenProperties DEF ToHost
  <2>5. CASE IsReadWriteAllowed
    <3>1. ToHost' = ToHost \o <<byte>>
      <4>1. inBank'.bytes = Append(inBank.bytes, byte)
        BY <1>3, <2>5 DEF Write, Types, Banks
      <4>2. ToHost' = host.got \o Append(inBank.bytes, byte)
        BY <2>1, <4>1 DEF ToHost
      <4>3. host.got \o Append(inBank.bytes, byte) = (host.got \o inBank.bytes) \o <<byte>>
        BY <1>0, AppendConcat
      <4> QED
        BY <4>2, <4>3 DEF ToHost
    <3>2. <<byte>> \in Seq(Nat) /\ Len(<<byte>>) = 1 /\ <<byte>>[1] = byte
      BY <1>0, SMTT(30)
    <3>3. Increasing(ToHost \o <<byte>>)
      <4>1. Increasing(<<byte>>)
        BY <3>2, SMTT(30) DEF Increasing
      <4>2. \A i \in 1..Len(ToHost) : \A j \in 1..Len(<<byte>>) :
               ToHost[i] < <<byte>>[j]
        BY <2>b, <3>2, SMTT(30)
      <4> QED
        BY <2>3, <2>4, <3>2, <4>1, <4>2, IncreasingConcat
    <3>4. Len(ToHost \o <<byte>>) = Len(ToHost) + 1
      BY <2>4, <3>2, ConcatProperties
    <3>5. ASSUME NEW i \in 1..Len(ToHost) + 1
          PROVE  (ToHost \o <<byte>>)[i] = IF i = Len(ToHost) + 1 THEN byte ELSE ToHost[i]
      BY <2>4, <3>2, ConcatProperties, SMTT(30)
    <3>6. ASSUME NEW i \in 1..Len(ToHost) + 1
          PROVE  /\ (ToHost \o <<byte>>)[i] < past.heard
                 /\ \A k \in nout + 1..nin - 1 : (ToHost \o <<byte>>)[i] < log[k]
      <4>1. CASE i = Len(ToHost) + 1
        BY <2>b, <3>5, <4>1
      <4>2. CASE i # Len(ToHost) + 1
        <5>1. i \in 1..Len(ToHost) /\ (ToHost \o <<byte>>)[i] = ToHost[i]
          BY <2>4, <3>5, <4>2, SMTT(30)
        <5> QED
          BY <2>3, <2>n, <5>1
      <4> QED
        BY <4>1, <4>2
    <3>7. ASSUME ~past.reset
          PROVE  /\ Len(ToHost) + 1 = nout + 1
                 /\ \A i \in 1..nout + 1 : (ToHost \o <<byte>>)[i] = log[i - 1]
      <4>1. Len(ToHost) = nout /\ \A i \in 1..nout : ToHost[i] = log[i - 1]
        BY <2>3, <3>7
      <4>2. ASSUME NEW i \in 1..nout + 1 PROVE (ToHost \o <<byte>>)[i] = log[i - 1]
        <5>1. CASE i = nout + 1
          <6>1. i - 1 = nout
            BY <1>0, <5>1, SMTT(30)
          <6> QED
            BY <2>2, <3>5, <4>1, <5>1, <6>1
        <5>2. CASE i # nout + 1
          <6>1. i \in 1..nout
            BY <1>0, <5>2, SMTT(30)
          <6> QED
            BY <3>5, <4>1, <5>2, <6>1
        <5> QED
          BY <5>1, <5>2
      <4> QED
        BY <4>1, <4>2
    <3> QED
      BY <1>k, <2>1, <2>2, <3>1, <3>3, <3>4, <3>6, <3>7 DEF Sent, Increasing
  <2>6. CASE ~IsReadWriteAllowed
    <3>1. past.reset
      BY <2>1, <2>6 DEF Selected, IsReadWriteAllowed, IsINReady
    <3>2. ToHost' = ToHost
      BY <1>3, <2>1, <2>6 DEF Write, ToHost
    <3> QED
      BY <1>k, <2>1, <2>2, <2>3, <2>n, <3>1, <3>2 DEF Sent, Increasing
  <2> QED
    BY <2>5, <2>6
<1>4. CASE Remove
  <2>1. ToHost' = ToHost
    BY <1>4 DEF Remove, ToHost, envVars
  <2>2. Upto' = Upto
    BY <1>4 DEF Remove, Fetch, Goto, Upto
  <2> QED
    BY <1>k, <2>1, <2>2, KeepsSent
<1>5. CASE \/ LineEncodingWait \/ SetLineEncoding \/ LineEncodingGivenUp \/ Plug
           \/ WakeUp \/ Unplug \/ Suspend
           \/ (\E n \in 0..EpSize : HostSends(n)) \/ UNCHANGED vars
  <2>1. UNCHANGED <<inBank, nout, pc>>
    BY <1>5 DEF LineEncodingWait, SetLineEncoding, LineEncodingGivenUp, Plug, WakeUp, Unplug, Suspend,
       BusEvent, HostSends, vars, mainVars, ringVars
  <2>2. host'.got = host.got
    BY <1>5 DEF LineEncodingWait, SetLineEncoding, LineEncodingGivenUp, Plug, WakeUp, Unplug, Suspend,
       BusEvent, HostSends, vars, envVars, Types, Histories
  <2> QED
    BY <1>k, <2>1, <2>2, KeepsSent DEF ToHost, Upto
<1>6. CASE Configure \/ BusReset
  <2>1. inBank' = NoBank /\ UNCHANGED <<nout, pc>>
    BY <1>6 DEF Configure, BusReset, ResetBanks, mainVars, ringVars
  <2>2. host'.got = host.got
    <3>1. host' = [host EXCEPT !.open = FALSE]
      BY <1>6 DEF Configure, BusReset
    <3> QED
      BY <3>1 DEF Types, Histories
  <2>3. ToHost' = host.got
    BY <1>0, <2>1, <2>2, ConcatEmptySeq DEF ToHost, NoBank
  <2>4. CASE usb.ep
    <3>1. Configure => Disturb(TRUE)
      BY <2>4 DEF Configure
    <3>2. past'.reset
      BY <1>6, <2>4, <3>1, PastSteps
    <3> QED
      BY <1>k, <2>1, <2>3, <3>2, KeepsSent DEF Upto
  <2>5. CASE ~usb.ep
    <3>1. inBank.bytes = <<>>
      BY <2>5, SMTT(30) DEF Endpoints, NoBank
    <3>2. ToHost = host.got
      BY <1>0, <3>1, ConcatEmptySeq DEF ToHost
    <3> QED
      BY <1>k, <2>1, <2>3, <3>2, KeepsSent DEF Upto
  <2> QED
    BY <2>4, <2>5
<1>7. CASE HostReads
  <2>1. inBank' = NoBank /\ UNCHANGED <<nout, pc>>
    BY <1>7 DEF HostReads, mainVars, ringVars
  <2>2. host'.got = host.got \o inBank.bytes
    BY <1>7 DEF HostReads, Types, Histories
  <2>3. host.got \o inBank.bytes \in Seq(Nat)
    BY <1>0, ConcatProperties
  <2>4. ToHost' = ToHost
    BY <2>1, <2>2, <2>3, ConcatEmptySeq DEF ToHost, NoBank
  <2> QED
    BY <1>k, <2>1, <2>4, KeepsSent DEF Upto
<1> QED
  BY <1>1, <1>2, <1>3, <1>4, <1>5, <1>6, <1>7 DEF Next, Main

\* A function on 1..n is a sequence of n elements.
LEMMA Counted ==
  ASSUME NEW n \in Nat, NEW f \in [1..n -> Nat]
  PROVE  f \in Seq(Nat) /\ Len(f) = n /\ DOMAIN f = 1..n
<1>1. f \in Seq(Nat)
  BY SeqDef
<1> QED
  BY <1>1, LenProperties, SMTT(30)

\* What is in the buffer follows what was written.
LEMMA WaitingBytes ==
  ASSUME Types, Logged, Stored, ~past.overrun
  PROVE  /\ Upto \in Nat /\ Upto =< nin /\ nin \in Nat
         /\ Waiting \in Seq(Nat) /\ Len(Waiting) = nin - Upto
         /\ \A i \in 1..nin - Upto : Waiting[i] = log[Upto + i - 1]
<1> USE RingBufferAssumption, USBtoSerialAssumption
<1>0. /\ Out \in 0..Size - 1 /\ nin \in Nat /\ nout \in Nat /\ removing \in {0, 1}
      /\ nout =< nin /\ (pc = "remove" => nout < nin) /\ nin - nout \in Nat
  BY SMTT(30) DEF Types, Ring, Loop, InHand
<1>1. /\ (nin - nout) + removing =< Size
      /\ \A j \in 0..Size - 1 :
            j < nin - nout => array[Wrap(Out + j)] = log[nout + j]
  BY DEF Stored
<1> DEFINE all == [i \in 1..Occupied |-> array[Wrap(Out + i - 1)]]
           n   == nin - nout
<1>2. ASSUME NEW i \in 1..n
      PROVE  array[Wrap(Out + i - 1)] = log[nout + i - 1] /\ log[nout + i - 1] \in Nat
  <2>1. /\ i - 1 \in 0..Size - 1 /\ i - 1 < nin - nout /\ Out + i - 1 = Out + (i - 1)
        /\ nout + i - 1 = nout + (i - 1) /\ nout + i - 1 \in 0..nin - 1
    BY <1>0, <1>1, SMTT(30)
  <2>2. array[Wrap(Out + (i - 1))] = log[nout + (i - 1)]
    BY <1>1, <2>1
  <2>3. log[nout + i - 1] \in 0..past.heard - 1
    BY <2>1 DEF Logged
  <2>4. log[nout + i - 1] \in Nat
    BY <2>3, SMTT(30) DEF Types, Histories, Pasts
  <2> QED
    BY <2>1, <2>2, <2>4
<1>3. all \in [1..n -> Nat] /\ \A i \in 1..n : all[i] = log[nout + i - 1]
  <2>1. ASSUME NEW i \in 1..n PROVE all[i] = log[nout + i - 1] /\ all[i] \in Nat
    BY <1>2 DEF Occupied
  <2>2. all = [i \in 1..n |-> all[i]]
    BY DEF Occupied
  <2> HIDE DEF all, n
  <2> QED
    BY <2>1, <2>2
<1>4. n \in Nat
  BY <1>0
<1>5. Waiting = IF pc = "remove" THEN Tail(all) ELSE all
  BY DEF Waiting
<1> HIDE DEF all, n
<1>6. all \in Seq(Nat) /\ Len(all) = n
  BY <1>3, <1>4, Counted
<1>7. CASE pc = "remove"
  <2>1. Upto = nout + 1 /\ n # 0
    BY <1>0, <1>7, SMTT(30) DEF Upto, n
  <2>2. all # <<>>
    BY <1>6, <2>1, EmptySeq
  <2>3. /\ Tail(all) \in Seq(Nat) /\ Len(Tail(all)) = n - 1
        /\ \A i \in 1..n - 1 : Tail(all)[i] = all[i + 1]
    BY <1>6, <2>2, HeadTailProperties
  <2>4. ASSUME NEW i \in 1..n - 1 PROVE Tail(all)[i] = log[Upto + i - 1]
    <3>1. i + 1 \in 1..n /\ nout + (i + 1) - 1 = Upto + i - 1
      BY <1>0, <1>4, <2>1, SMTT(30)
    <3>2. all[i + 1] = log[nout + (i + 1) - 1]
      BY <1>3, <3>1
    <3> QED
      BY <2>3, <3>1, <3>2
  <2>5. n - 1 = nin - Upto
    BY <1>0, <2>1, SMTT(30) DEF n
  <2>6. \A i \in 1..nin - Upto : Tail(all)[i] = log[Upto + i - 1]
    BY <2>4, <2>5
  <2>7. Len(Tail(all)) = nin - Upto
    BY <2>3, <2>5
  <2>8. Waiting = Tail(all)
    BY <1>5, <1>7
  <2>9. Upto \in Nat /\ Upto =< nin
    BY <1>0, <1>7, <2>1, SMTT(30)
  <2> QED
    BY <1>0, <2>3, <2>6, <2>7, <2>8, <2>9
<1>8. CASE pc # "remove"
  <2>1. Upto = nout /\ Waiting = all
    BY <1>5, <1>8 DEF Upto
  <2> QED
    BY <1>0, <1>3, <1>6, <2>1 DEF n
<1> QED
  BY <1>7, <1>8

\* The inductive invariant of the way to the host.
ToHostInv == Types /\ Endpoints /\ Logged /\ Stored /\ Selected /\ Sent

\* It holds initially, when everything is empty, and for ever.
LEMMA ToHostAlways == Spec => []ToHostInv
<1>1. Init => ToHostInv
  <2> SUFFICES ASSUME Init PROVE ToHostInv
    OBVIOUS
  <2> USE RingBufferAssumption, USBtoSerialAssumption
  <2>1. Types
    BY InitTypes
  <2>2. Endpoints
    BY DEF Init, Endpoints, NoBank
  <2>3. Stored
    BY SMTT(30) DEF Init, Stored, Wrap
  <2>4. Selected
    BY DEF Init, Selected
  <2>6. Logged
    <3>1. 0..0 - 1 = {} /\ nin = 0 /\ past.heard = 0 /\ past.missed = {}
      BY SMTT(30) DEF Init
    <3> QED
      BY <3>1 DEF Logged
  <2>5. Sent
    <3>1. ToHost = <<>> /\ Upto = 0 /\ Len(<<>>) = 0
      BY EmptySeq, ConcatEmptySeq DEF Init, ToHost, NoBank, Upto
    <3> QED
      BY <3>1, SMTT(30) DEF Sent, Increasing
  <2> QED
    BY <2>1, <2>2, <2>3, <2>4, <2>5, <2>6 DEF ToHostInv
<1>2. ToHostInv /\ [Next]_vars => ToHostInv'
  BY StepTypes, StepEndpoints, StepLogged, StepStored, StepSelected, StepSent
  DEF ToHostInv
<1> QED
  BY <1>1, <1>2, PTL DEF Spec

\* Whatever timeouts, suspends, resets and unpluggings hit the main loop
\* between peeking at a byte, sending it and dequeuing it, no byte from the
\* serial line reaches the host twice or out of order, unless the receive
\* interrupt overran the buffer.
THEOREM NoneTwice == Spec => []HostInOrder
<1>1. ToHostInv => HostInOrder
  <2> SUFFICES ASSUME ToHostInv, ~past.overrun
               PROVE  Increasing(ToHost \o Waiting)
    BY DEF HostInOrder, ToHost
  <2>1. /\ Types /\ Logged /\ Stored /\ Increasing(ToHost)
        /\ \A i \in 1..Len(ToHost) : \A k \in Upto..nin - 1 : ToHost[i] < log[k]
    BY DEF ToHostInv, Sent
  <2>2. ToHost \in Seq(Nat)
    BY <2>1, ConcatProperties DEF ToHost, Types, Histories, Banks
  <2>3. /\ Upto \in Nat /\ Waiting \in Seq(Nat) /\ Len(Waiting) = nin - Upto
        /\ \A i \in 1..nin - Upto : Waiting[i] = log[Upto + i - 1]
        /\ nin \in Nat /\ DOMAIN Waiting = 1..Len(Waiting)
    BY <2>1, WaitingBytes, LenProperties
  <2>4. ASSUME NEW i \in 1..nin - Upto, NEW j \in 1..nin - Upto, i < j
        PROVE  Waiting[i] < Waiting[j]
    <3>1. /\ Upto + i - 1 \in 0..nin - 1 /\ Upto + j - 1 \in 0..nin - 1
          /\ Upto + i - 1 < Upto + j - 1
      BY <2>3, <2>4, SMTT(30)
    <3>2. log[Upto + i - 1] < log[Upto + j - 1]
      BY <2>1, <3>1 DEF Logged
    <3> QED
      BY <2>3, <3>2
  <2>5. Increasing(Waiting)
    BY <2>3, <2>4 DEF Increasing
  <2>6. ASSUME NEW i \in 1..Len(ToHost), NEW j \in 1..Len(Waiting)
        PROVE  ToHost[i] < Waiting[j]
    <3>1. Upto + j - 1 \in Upto..nin - 1
      BY <2>3, SMTT(30)
    <3> QED
      BY <2>1, <2>3, <3>1
  <2> QED
    BY <2>1, <2>2, <2>3, <2>5, <2>6, IncreasingConcat
<1> QED
  BY <1>1, ToHostAlways, PTL

\* As long as the bus is not reset and the buffer not overrun the main loop
\* loses none either, whatever timeouts, suspends and unpluggings hit it: every
\* byte that arrived while the device was configured is with the host, in the
\* bank or in the buffer.
THEOREM NoneLost == Spec => []NothingLost
<1>1. ToHostInv => NothingLost
  <2> DEFINE kept == ToHost \o Waiting
  <2> SUFFICES ASSUME ToHostInv, ~past.overrun, ~past.reset
               PROVE  {kept[i] : i \in DOMAIN kept} = (0..past.heard - 1) \ past.missed
    BY DEF NothingLost, ToHost
  <2>1. /\ Types /\ Logged /\ Stored /\ Len(ToHost) = Upto
        /\ \A i \in 1..Upto : ToHost[i] = log[i - 1]
    BY DEF ToHostInv, Sent
  <2>2. ToHost \in Seq(Nat)
    BY <2>1, ConcatProperties DEF ToHost, Types, Histories, Banks
  <2>3. /\ Upto \in Nat /\ Waiting \in Seq(Nat) /\ Len(Waiting) = nin - Upto
        /\ \A i \in 1..nin - Upto : Waiting[i] = log[Upto + i - 1]
        /\ nin \in Nat /\ Upto =< nin
    BY <2>1, WaitingBytes
  <2>4. /\ kept \in Seq(Nat) /\ Len(kept) = nin
        /\ \A i \in 1..nin : kept[i] = IF i =< Upto THEN ToHost[i] ELSE Waiting[i - Upto]
    <3>1. Len(ToHost) + Len(Waiting) = nin
      BY <2>1, <2>3, SMTT(30)
    <3>2. /\ kept \in Seq(Nat) /\ Len(kept) = Len(ToHost) + Len(Waiting)
          /\ \A i \in 1..Len(ToHost) + Len(Waiting) : kept[i] =
                IF i =< Len(ToHost) THEN ToHost[i] ELSE Waiting[i - Len(ToHost)]
      BY <2>2, <2>3, ConcatProperties
    <3> QED
      BY <2>1, <3>1, <3>2
  <2> HIDE DEF kept
  <2>5. DOMAIN kept = 1..nin
    BY <2>4, LenProperties
  <2>6. ASSUME NEW i \in 1..nin PROVE kept[i] = log[i - 1]
    <3>1. CASE i =< Upto
      <4>1. i \in 1..Upto
        BY <2>3, <3>1, SMTT(30)
      <4> QED
        BY <2>1, <2>4, <3>1, <4>1
    <3>2. CASE ~(i =< Upto)
      <4>1. i - Upto \in 1..nin - Upto /\ Upto + (i - Upto) - 1 = i - 1
        BY <2>3, <3>2, SMTT(30)
      <4>2. Waiting[i - Upto] = log[Upto + (i - Upto) - 1]
        BY <2>3, <4>1
      <4> QED
        BY <2>4, <3>2, <4>1, <4>2
    <3> QED
      BY <3>1, <3>2
  <2>7. {kept[i] : i \in 1..nin} = {log[i] : i \in 0..nin - 1}
    <3>1. \A i \in 1..nin : i - 1 \in 0..nin - 1
      BY <2>3, SMTT(30)
    <3>2. \A i \in 0..nin - 1 : i + 1 \in 1..nin /\ (i + 1) - 1 = i
      BY <2>3, SMTT(30)
    <3>3. ASSUME NEW i \in 0..nin - 1 PROVE kept[i + 1] = log[i]
      <4>1. kept[i + 1] = log[(i + 1) - 1]
        BY <2>6, <3>2
      <4> QED
        BY <3>2, <4>1
    <3>4. ASSUME NEW x, x \in {kept[i] : i \in 1..nin}
          PROVE  x \in {log[i] : i \in 0..nin - 1}
      <4>1. PICK i \in 1..nin : x = kept[i]
        BY <3>4
      <4>2. x = log[i - 1] /\ i - 1 \in 0..nin - 1
        BY <2>6, <3>1, <4>1
      <4> QED
        BY <4>2
    <3>5. ASSUME NEW x, x \in {log[i] : i \in 0..nin - 1}
          PROVE  x \in {kept[i] : i \in 1..nin}
      <4>1. PICK i \in 0..nin - 1 : x = log[i]
        BY <3>5
      <4>2. x = kept[i + 1] /\ i + 1 \in 1..nin
        BY <3>2, <3>3, <4>1
      <4> QED
        BY <4>2
    <3> QED
      BY <3>4, <3>5
  <2> QED
    BY <2>1, <2>5, <2>7 DEF Logged
<1> QED
  BY <1>1, ToHostAlways, PTL

-----------------------------------------------------------------------------
(* From the host to the serial line.                                        *)

ToLine == line \o txq \o Received \o outBank.bytes

\* The bytes of the host among them are in order.
Ordered(s) == \A i, j \in DOMAIN s :
                 i < j /\ s[i] # Foreign /\ s[j] # Foreign => s[i] < s[j]

Typed ==
    /\ Ordered(ToLine)
    /\ \A i \in 1..Len(ToLine) : ToLine[i] =< host.sent
    /\ ~past.reset => /\ Len(ToLine) = host.sent
                      /\ \A i \in 1..Len(ToLine) : ToLine[i] # Foreign

\* Without a reset ReceiveByte's accesses are all to the OUT endpoint and to
\* one packet, which is given back when it is empty.
Fetching ==
    ~past.reset =>
        /\ pc \in Receiving => usb.ep
        /\ pc \in Receiving \ {"selectOut"} => sel = "out"
        /\ pc \in Receiving \ {"selectOut", "outReceived"} => outBank.held
        /\ pc = "outRead" => outBank.bytes # <<>>
        /\ pc = "outClear" => outBank.bytes = <<>>

\* Nobody but the main loop and the resets gets between these accesses.
LEMMA StepFetching ==
  ASSUME Types, Endpoints, Fetching, [Next]_vars PROVE Fetching'
<1> SUFFICES ASSUME ~past'.reset PROVE Fetching'
  BY DEF Fetching
<1>0. /\ ~past.reset
      /\ pc \in Receiving => usb.ep
      /\ pc \in Receiving \ {"selectOut"} => sel = "out"
      /\ pc \in Receiving \ {"selectOut", "outReceived"} => outBank.held
      /\ pc = "outRead" => outBank.bytes # <<>>
      /\ pc = "outClear" => outBank.bytes = <<>>
  BY PastGrows DEF Fetching
<1>t. usb.ep \in BOOLEAN /\ outBank \in [bytes : Seq(Nat), held : BOOLEAN]
  BY DEF Types, Usb, Banks
<1>1. CASE \/ OutKept \/ ClearOUT \/ FlushDue \/ NotDue \/ PeekByte \/ Test \/ Wait
           \/ Write \/ Remove \/ Serial \/ FlushTests \/ FlushClear \/ FlushWait
  <2>1. pc' \notin Receiving
    BY <1>1 DEF OutKept, ClearOUT, FlushDue, NotDue, PeekByte, Test, Wait, Write,
       Remove, Serial, Flush, FlushTests, FlushClear, FlushWait, AfterFlush,
       AfterTimeout, Goto, Receiving
  <2> QED
    BY <2>1 DEF Fetching, Receiving
<1>2. CASE Receive
  <2>1. /\ (pc' = "selectOut" /\ Usable) \/ pc' = "count"
        /\ UNCHANGED <<usb, sel, outBank>>
    BY <1>2 DEF Receive, Goto
  <2> QED
    BY <2>1 DEF Fetching, Receiving, Usable, Endpoints
<1>3. CASE Select
  <2>1. /\ pc' \in {"test", "flushBytes"} \/ (pc = "selectOut" /\ pc' = "outReceived" /\ sel' = "out")
        /\ UNCHANGED <<usb, outBank>>
    BY <1>3 DEF Select, Goto
  <2> QED
    BY <1>0, <2>1 DEF Fetching, Receiving
<1>4. CASE OutTests
  <2>1. UNCHANGED <<usb, sel, outBank>>
    BY <1>4 DEF OutTests
  <2>2. pc \in {"outReceived", "outBytes"} /\ usb.ep /\ sel = "out"
    BY <1>0, <1>4 DEF OutTests, Goto, Receiving
  <2>3. CASE pc = "outReceived"
    <3>1. PICK b \in Outcomes(outBank.held) : pc' = IF b THEN "outBytes" ELSE "count"
      BY <1>4, <2>3 DEF OutTests, Goto
    <3>2. b = outBank.held
      BY <1>t, <2>2, <3>1 DEF Outcomes
    <3> QED
      BY <1>0, <1>t, <2>1, <2>2, <3>1, <3>2 DEF Fetching, Receiving
  <2>4. CASE pc = "outBytes"
    <3>1. PICK b \in Outcomes(outBank.bytes # <<>>) : pc' = IF b THEN "outRead" ELSE "outEmpty"
      BY <1>4, <2>4 DEF OutTests, Goto
    <3>2. b <=> outBank.bytes # <<>>
      BY <1>t, <2>2, <3>1 DEF Outcomes
    <3>3. outBank.held
      BY <1>0, <2>4 DEF Receiving
    <3> QED
      BY <2>1, <2>2, <3>1, <3>2, <3>3 DEF Fetching, Receiving
  <2> QED
    BY <2>2, <2>3, <2>4
<1>5. CASE Read
  <2>1. /\ pc = "outRead" /\ pc' = "outEmpty" /\ UNCHANGED <<usb, sel>>
        /\ \/ outBank' = outBank
           \/ outBank' = [outBank EXCEPT !.bytes = Tail(outBank.bytes)]
    BY <1>5 DEF Read, Goto
  <2>2. outBank'.held = outBank.held
    BY <1>t, <2>1
  <2> QED
    BY <1>0, <2>1, <2>2 DEF Fetching, Receiving
<1>6. CASE OutEmpty
  <2>1. /\ pc = "outEmpty" /\ pc' = "outClear" /\ UNCHANGED <<usb, sel, outBank>>
        /\ FALSE \in Outcomes(BytesLeft)
    BY <1>6 DEF OutEmpty, Goto
  <2>2. usb.ep /\ sel = "out" /\ outBank.held
    BY <1>0, <2>1 DEF Receiving
  <2>3. outBank.bytes = <<>>
    BY <2>1, <2>2 DEF Outcomes, BytesLeft
  <2> QED
    BY <2>1, <2>2, <2>3 DEF Fetching, Receiving
<1>7. CASE SerialByte \/ HostReads \/ UNCHANGED vars
  <2>1. UNCHANGED <<usb, sel, outBank, pc>>
    BY <1>7 DEF SerialByte, HostReads, vars, mainVars
  <2> QED
    BY <1>0, <2>1 DEF Fetching, Receiving
<1>8. ASSUME NEW n \in 0..EpSize, HostSends(n) PROVE Fetching'
  <2>1. ~outBank.held /\ outBank'.held /\ UNCHANGED <<usb, sel, pc>>
    BY <1>8 DEF HostSends, mainVars
  <2>2. pc \notin Receiving \ {"selectOut", "outReceived"}
    BY <1>0, <2>1
  <2> QED
    BY <1>0, <2>1, <2>2 DEF Fetching, Receiving
<1>9. CASE Configure \/ BusReset
  <2>1. pc' = pc
    BY <1>9 DEF Configure, BusReset, mainVars
  <2>2. Configure /\ usb.ep => Disturb(TRUE)
    BY DEF Configure
  <2>3. ~usb.ep
    BY <1>9, <2>2, PastSteps
  <2> QED
    BY <1>0, <2>1, <2>3 DEF Fetching, Receiving
<1>10. CASE \/ LineEncodingWait \/ SetLineEncoding \/ LineEncodingGivenUp \/ Plug
            \/ WakeUp \/ Unplug \/ Suspend
  <2>1. (usb'.ep <=> usb.ep) /\ UNCHANGED <<sel, outBank, pc>>
    BY <1>10 DEF LineEncodingWait, SetLineEncoding, LineEncodingGivenUp, Plug,
       WakeUp, Unplug, Suspend, BusEvent, mainVars, Types, Usb
  <2> QED
    BY <1>0, <2>1 DEF Fetching, Receiving
<1> QED
  BY <1>1, <1>2, <1>3, <1>4, <1>5, <1>6, <1>7, <1>8, <1>9, <1>10 DEF Next, Main

\* A prefix of a sequence in order is in order.
LEMMA OrderedPrefix ==
  ASSUME NEW s \in Seq(Nat), NEW t \in Seq(Nat), Ordered(s \o t)
  PROVE  Ordered(s)
<1>1. /\ DOMAIN s = 1..Len(s) /\ DOMAIN (s \o t) = 1..Len(s \o t)
      /\ \A i \in 1..Len(s) : i \in 1..Len(s \o t) /\ (s \o t)[i] = s[i]
  BY ConcatElements, LenProperties
<1> QED
  BY <1>1 DEF Ordered

\* A sequence in order followed by larger numbers in order is in order.
LEMMA OrderedConcat ==
  ASSUME NEW s \in Seq(Nat), NEW t \in Seq(Nat), Ordered(s), Increasing(t),
         \A i \in 1..Len(s) : \A j \in 1..Len(t) : s[i] < t[j]
  PROVE  Ordered(s \o t)
<1>1. /\ s \o t \in Seq(Nat) /\ Len(s \o t) = Len(s) + Len(t)
      /\ Len(s) \in Nat /\ Len(t) \in Nat
      /\ \A i \in 1..Len(s \o t) :
            \/ i \in 1..Len(s) /\ (s \o t)[i] = s[i]
            \/ i - Len(s) \in 1..Len(t) /\ (s \o t)[i] = t[i - Len(s)]
  BY ConcatElements
<1>2. DOMAIN s = 1..Len(s) /\ DOMAIN t = 1..Len(t) /\ DOMAIN (s \o t) = 1..Len(s \o t)
  BY <1>1, LenProperties
<1>3. ASSUME NEW i \in 1..Len(s \o t), NEW j \in 1..Len(s \o t), i < j,
             (s \o t)[i] # Foreign, (s \o t)[j] # Foreign
      PROVE  (s \o t)[i] < (s \o t)[j]
  <2>1. CASE i \in 1..Len(s) /\ (s \o t)[i] = s[i] /\ j \in 1..Len(s) /\ (s \o t)[j] = s[j]
    BY <1>2, <1>3, <2>1 DEF Ordered
  <2>2. CASE /\ i \in 1..Len(s) /\ (s \o t)[i] = s[i]
             /\ j - Len(s) \in 1..Len(t) /\ (s \o t)[j] = t[j - Len(s)]
    BY <2>2
  <2>3. CASE i - Len(s) \in 1..Len(t) /\ (s \o t)[i] = t[i - Len(s)]
    <3>1. /\ j - Len(s) \in 1..Len(t) /\ ~(j \in 1..Len(s))
          /\ i - Len(s) < j - Len(s)
      BY <1>1, <1>3, <2>3, SMTT(30)
    <3>2. (s \o t)[j] = t[j - Len(s)]
      BY <1>1, <3>1
    <3> QED
      BY <1>2, <2>3, <3>1, <3>2 DEF Increasing
  <2> QED
    BY <1>1, <2>1, <2>2, <2>3
<1> QED
  BY <1>2, <1>3 DEF Ordered

\* A foreign byte in the middle changes nothing for the others.
LEMMA ForeignByte ==
  ASSUME NEW s \in Seq(Nat), NEW t \in Seq(Nat), NEW n \in Nat, Ordered(s \o t),
         \A i \in 1..Len(s \o t) : (s \o t)[i] =< n
  PROVE  /\ Ordered((s \o <<Foreign>>) \o t)
         /\ \A i \in 1..Len((s \o <<Foreign>>) \o t) :
               ((s \o <<Foreign>>) \o t)[i] =< n
<1> DEFINE f == <<Foreign>>
           u == s \o f
           w == u \o t
           v == s \o t
<1>1. f \in Seq(Nat) /\ Len(f) = 1 /\ f[1] = Foreign /\ Foreign \in Nat
  BY SMTT(30) DEF Foreign
<1>2. /\ u \in Seq(Nat) /\ Len(u) = Len(s) + 1 /\ Len(s) \in Nat
      /\ \A i \in 1..Len(u) : \/ i \in 1..Len(s) /\ u[i] = s[i]
                              \/ i - Len(s) \in 1..Len(f) /\ u[i] = f[i - Len(s)]
  <2> HIDE DEF f
  <2>1. Len(u) = Len(s) + Len(f)
    BY <1>1, ConcatElements
  <2> QED
    BY <1>1, <2>1, ConcatElements
<1>3. /\ v \in Seq(Nat) /\ Len(v) = Len(s) + Len(t) /\ Len(t) \in Nat
      /\ \A i \in 1..Len(s) : i \in 1..Len(v) /\ v[i] = s[i]
      /\ \A i \in 1..Len(t) : v[Len(s) + i] = t[i]
  BY ConcatElements
<1>4. /\ w \in Seq(Nat) /\ Len(w) = Len(u) + Len(t)
      /\ \A i \in 1..Len(w) : \/ i \in 1..Len(u) /\ w[i] = u[i]
                              \/ i - Len(u) \in 1..Len(t) /\ w[i] = t[i - Len(u)]
  <2> HIDE DEF u
  <2> QED
    BY <1>2, ConcatElements
<1> DEFINE at(i) == IF i =< Len(s) THEN i ELSE i - 1
<1> HIDE DEF f, u, w, v
<1>5. ASSUME NEW i \in 1..Len(w)
      PROVE  \/ i = Len(s) + 1 /\ w[i] = Foreign
             \/ i # Len(s) + 1 /\ at(i) \in 1..Len(v) /\ w[i] = v[at(i)]
  <2>1. CASE i \in 1..Len(s)
    <3>1. i \in 1..Len(u) /\ ~(i - Len(u) \in 1..Len(t)) /\ i =< Len(s)
          /\ ~(i - Len(s) \in 1..Len(f)) /\ i # Len(s) + 1
      BY <1>1, <1>2, <1>3, <2>1, SMTT(30)
    <3> QED
      BY <1>2, <1>3, <1>4, <2>1, <3>1
  <2>2. CASE i = Len(s) + 1
    <3>1. i \in 1..Len(u) /\ ~(i - Len(u) \in 1..Len(t)) /\ i - Len(s) = 1
          /\ ~(i \in 1..Len(s))
      BY <1>1, <1>2, <1>3, <2>2, SMTT(30)
    <3> QED
      BY <1>1, <1>2, <1>4, <2>2, <3>1
  <2>3. CASE i > Len(s) + 1
    <3>1. /\ ~(i \in 1..Len(u)) /\ ~(i =< Len(s)) /\ i # Len(s) + 1
          /\ i - Len(u) \in 1..Len(t) /\ Len(s) + (i - Len(u)) = i - 1
          /\ i - 1 \in 1..Len(v)
      <4>1. i \in Nat /\ i =< Len(s) + 1 + Len(t)
        BY <1>1, <1>2, <1>3, <1>4, SMTT(30)
      <4>2. /\ ~(i \in 1..Len(u)) /\ ~(i =< Len(s)) /\ i # Len(s) + 1
            /\ i - Len(u) \in 1..Len(t) /\ Len(s) + (i - Len(u)) = i - 1
            /\ i - 1 \in 1..Len(s) + Len(t)
        <5>1. Len(s) \in Nat /\ Len(t) \in Nat /\ Len(u) = Len(s) + 1
          BY <1>2, <1>3
        <5> QED
          BY <2>3, <4>1, <5>1, SMTT(30)
      <4> QED
        BY <1>3, <4>2
    <3>2. w[i] = t[i - Len(u)]
      BY <1>4, <3>1
    <3>3. v[Len(s) + (i - Len(u))] = t[i - Len(u)]
      BY <1>3, <3>1
    <3> QED
      BY <3>1, <3>2, <3>3
  <2>4. \/ i \in 1..Len(s) \/ i = Len(s) + 1 \/ i > Len(s) + 1
    BY <1>2, SMTT(30)
  <2> QED
    BY <2>1, <2>2, <2>3, <2>4
<1>6. DOMAIN v = 1..Len(v) /\ DOMAIN w = 1..Len(w)
  BY <1>3, <1>4, LenProperties
<1>7. Ordered(v) /\ \A i \in 1..Len(v) : v[i] =< n
  BY DEF v
<1>8. ASSUME NEW i \in 1..Len(w), NEW j \in 1..Len(w), i < j,
             w[i] # Foreign, w[j] # Foreign
      PROVE  w[i] < w[j]
  <2>1. /\ i # Len(s) + 1 /\ at(i) \in 1..Len(v) /\ w[i] = v[at(i)]
        /\ j # Len(s) + 1 /\ at(j) \in 1..Len(v) /\ w[j] = v[at(j)]
    BY <1>5, <1>8
  <2>2. at(i) < at(j)
    BY <1>2, <1>8, <2>1, SMTT(30)
  <2> HIDE DEF at
  <2> QED
    BY <1>6, <1>7, <1>8, <2>1, <2>2 DEF Ordered
<1>9. ASSUME NEW i \in 1..Len(w) PROVE w[i] =< n
  <2> HIDE DEF at
  <2>1. CASE w[i] = Foreign
    BY <2>1, SMTT(30) DEF Foreign
  <2>2. CASE w[i] # Foreign
    BY <1>5, <1>7, <2>2
  <2> QED
    BY <2>1, <2>2
<1>10. Ordered(w) /\ \A i \in 1..Len(w) : w[i] =< n
  BY <1>6, <1>8, <1>9 DEF Ordered
<1> QED
  BY <1>10 DEF w, u, f

\* The bytes on their way to the line are sequences.
LEMMA LineTypes ==
  ASSUME Types
  PROVE  /\ line \in Seq(Nat) /\ txq \in Seq(Nat) /\ outBank.bytes \in Seq(Nat)
         /\ line \o txq \in Seq(Nat) /\ Received \in Seq(Nat)
         /\ line \o txq \o Received \in Seq(Nat)
<1>1. /\ line \in Seq(Nat) /\ txq \in Seq(Nat) /\ outBank.bytes \in Seq(Nat)
      /\ ReceivedByte \in Nat \cup {-1}
  BY DEF Types, Queues, Banks
<1>2. Received \in Seq(Nat)
  BY <1>1, EmptySeq, SMTT(30) DEF Received
<1>3. line \o txq \in Seq(Nat)
  BY <1>1, ConcatProperties
<1> QED
  BY <1>1, <1>2, <1>3, ConcatProperties

\* A step that leaves the bytes for the line alone, or gives the bank back,
\* loses no byte without a reset.
LEMMA KeepsTyped ==
  ASSUME Types, Typed, [Next]_vars, host'.sent = host.sent,
         \/ ToLine' = ToLine
         \/ past'.reset /\ ToLine' = line \o txq \o Received
  PROVE  Typed'
<1>1. CASE ToLine' = ToLine
  BY <1>1, PastGrows DEF Typed, Ordered
<1>2. CASE past'.reset /\ ToLine' = line \o txq \o Received
  <2> DEFINE s == line \o txq \o Received
             t == outBank.bytes
  <2>1. s \in Seq(Nat) /\ t \in Seq(Nat)
    BY LineTypes
  <2>2. Ordered(s \o t) /\ \A i \in 1..Len(s \o t) : (s \o t)[i] =< host.sent
    BY DEF Typed, ToLine
  <2> HIDE DEF s, t
  <2>3. Ordered(s)
    BY <2>1, <2>2, OrderedPrefix
  <2>4. ASSUME NEW i \in 1..Len(s) PROVE s[i] =< host.sent
    <3>1. i \in 1..Len(s \o t) /\ (s \o t)[i] = s[i]
      BY <2>1, ConcatElements
    <3> QED
      BY <2>2, <3>1
  <2>5. ToLine' = s
    BY <1>2 DEF s
  <2> QED
    BY <1>2, <2>3, <2>4, <2>5 DEF Typed, Ordered
<1> QED
  BY <1>1, <1>2

\* Bytes move from the bank to the queue and from the queue to the line, and a
\* new packet comes only into an empty bank.
LEMMA StepTyped ==
  ASSUME Types, Endpoints, Fetching, Typed, [Next]_vars PROVE Typed'
<1>0. /\ line \in Seq(Nat) /\ txq \in Seq(Nat) /\ outBank.bytes \in Seq(Nat)
      /\ line \o txq \in Seq(Nat) /\ Received \in Seq(Nat)
      /\ line \o txq \o Received \in Seq(Nat)
  BY LineTypes
<1>e. <<>> \in Seq(Nat)
  BY EmptySeq
<1>1. CASE \/ Receive \/ Select \/ OutTests \/ OutEmpty \/ FlushDue \/ NotDue
           \/ PeekByte \/ Wait \/ Test \/ FlushTests \/ FlushClear \/ FlushWait
           \/ Write \/ Remove \/ SerialByte \/ LineEncodingWait \/ SetLineEncoding
           \/ LineEncodingGivenUp \/ Plug \/ WakeUp \/ Unplug \/ Suspend
           \/ UNCHANGED vars
  <2>1. UNCHANGED <<line, txq, ReceivedByte, outBank, host>>
    BY <1>1 DEF Receive, Select, OutTests, OutEmpty, FlushDue, NotDue, PeekByte,
       Wait, Test, FlushTests, FlushClear, FlushWait, Write, Remove, SerialByte,
       LineEncodingWait, SetLineEncoding, LineEncodingGivenUp, Plug, WakeUp,
       Unplug, Suspend, BusEvent, vars, mainVars, envVars
  <2> QED
    BY <2>1, KeepsTyped DEF ToLine, Received
<1>2. CASE HostReads
  <2>1. UNCHANGED <<line, txq, ReceivedByte, outBank>> /\ host'.sent = host.sent
    BY <1>2 DEF HostReads, mainVars, Types, Histories
  <2> QED
    BY <2>1, KeepsTyped DEF ToLine, Received
<1>3. CASE Read
  <2>1. UNCHANGED <<host, past, line, txq>> /\ pc = "outRead"
    BY <1>3 DEF Read, Goto, envVars
  <2>e. Received = <<>> /\ (line \o txq) \o <<>> = line \o txq
    <3>1. ReceivedByte = -1
      BY <2>1 DEF Types, Queues
    <3>2. Received = <<>>
      BY <3>1, SMTT(30) DEF Received
    <3> QED
      BY <1>0, <3>2, ConcatEmptySeq
  <2>2. CASE sel = "out" /\ usb.ep /\ outBank.bytes # <<>>
    <3> DEFINE h == Head(outBank.bytes)
               t == Tail(outBank.bytes)
    <3>1. h \in Nat /\ t \in Seq(Nat) /\ outBank.bytes = <<h>> \o t
      BY <1>0, <2>2, HeadConcatTail
    <3>2. ReceivedByte' = h /\ outBank'.bytes = t
      BY <1>3, <2>2 DEF Read, Types, Banks
    <3> HIDE DEF h, t
    <3>3. Received' = <<h>> /\ <<h>> \in Seq(Nat)
      BY <3>1, <3>2, SMTT(30) DEF Received
    <3>4. ((line \o txq) \o <<h>>) \o t = (line \o txq) \o (<<h>> \o t)
      BY <1>0, <3>1, <3>3, ConcatAssociative, SMTT(30)
    <3>5. ToLine' = ((line \o txq) \o <<h>>) \o t
      BY <2>1, <3>2, <3>3 DEF ToLine
    <3>6. ToLine = (line \o txq) \o (<<h>> \o t)
      BY <2>e, <3>1 DEF ToLine
    <3> QED
      BY <2>1, <3>4, <3>5, <3>6, KeepsTyped
  <2>3. CASE ~(sel = "out" /\ usb.ep /\ outBank.bytes # <<>>)
    <3>1. past.reset
      BY <2>1, <2>3 DEF Fetching, Receiving
    <3>2. ReceivedByte' = Foreign /\ outBank' = outBank
      BY <1>3, <2>3 DEF Read
    <3>3. Received' = <<Foreign>>
      BY <3>2, SMTT(30) DEF Received, Foreign
    <3>4. ToLine' = ((line \o txq) \o <<Foreign>>) \o outBank.bytes
      BY <2>1, <3>2, <3>3 DEF ToLine
    <3>5. ToLine = (line \o txq) \o outBank.bytes
      BY <2>e DEF ToLine
    <3>6. /\ Ordered((line \o txq) \o outBank.bytes) /\ host.sent \in Nat
          /\ \A i \in 1..Len((line \o txq) \o outBank.bytes) :
                ((line \o txq) \o outBank.bytes)[i] =< host.sent
      BY <3>5 DEF Typed, Types, Histories
    <3> DEFINE w == ((line \o txq) \o <<Foreign>>) \o outBank.bytes
    <3>7. Ordered(w) /\ \A i \in 1..Len(w) : w[i] =< host.sent
      BY <1>0, <3>6, ForeignByte
    <3>8. ToLine' = w
      BY <3>4
    <3> HIDE DEF w
    <3> QED
      BY <2>1, <3>1, <3>7, <3>8 DEF Typed, Ordered
  <2> QED
    BY <2>2, <2>3
<1>7. CASE OutKept \/ ClearOUT
  <2>1. UNCHANGED <<host, line>> /\ txq' = txq \o Received /\ ReceivedByte' = -1
    BY <1>7 DEF OutKept, ClearOUT, Insert, envVars
  <2>2. Received' = <<>>
    BY <2>1, SMTT(30) DEF Received
  <2>3. /\ line \o (txq \o Received) = (line \o txq) \o Received
        /\ (line \o txq \o Received) \o <<>> = line \o txq \o Received
    <3>1. (line \o txq) \o Received = line \o (txq \o Received)
      BY <1>0, ConcatAssociative, SMTT(30)
    <3> QED
      BY <1>0, <3>1, ConcatEmptySeq
  <2>4. line' \o txq' \o Received' = line \o txq \o Received
    BY <2>1, <2>2, <2>3
  <2>5. CASE outBank'.bytes = outBank.bytes
    BY <2>1, <2>4, <2>5, KeepsTyped DEF ToLine
  <2>6. CASE outBank'.bytes # outBank.bytes
    <3>1. ClearOUT /\ sel = "out" /\ usb.ep /\ outBank' = NoBank /\ pc = "outClear"
      BY <1>7, <2>6 DEF OutKept, ClearOUT, Goto
    <3>2. outBank'.bytes = <<>>
      BY <3>1 DEF NoBank
    <3>3. past.reset
      BY <2>6, <3>1, <3>2 DEF Fetching
    <3>4. past'.reset
      BY <3>3, PastGrows
    <3>5. ToLine' = line \o txq \o Received
      BY <2>3, <2>4, <3>2 DEF ToLine
    <3> QED
      BY <2>1, <3>4, <3>5, KeepsTyped
  <2> QED
    BY <2>5, <2>6
<1>4. CASE Serial
  <2>1. UNCHANGED <<host, outBank, ReceivedByte>>
    BY <1>4 DEF Serial, envVars
  <2>2. CASE txq = <<>>
    <3>1. UNCHANGED <<txq, line>>
      BY <1>4, <2>2 DEF Serial
    <3> QED
      BY <2>1, <3>1, KeepsTyped DEF ToLine, Received
  <2>3. CASE txq # <<>>
    <3> DEFINE h == Head(txq)
               t == Tail(txq)
    <3>1. h \in Nat /\ t \in Seq(Nat) /\ txq = <<h>> \o t
      BY <1>0, <2>3, HeadConcatTail
    <3>2. line' = Append(line, h) /\ txq' = t
      BY <1>4, <2>3 DEF Serial
    <3> HIDE DEF h, t
    <3>3. <<h>> \in Seq(Nat) /\ line' = line \o <<h>>
      BY <1>0, <3>1, <3>2, AppendIsConcat, SMTT(30)
    <3>4. (line \o <<h>>) \o t = line \o (<<h>> \o t)
      BY <1>0, <3>1, <3>3, ConcatAssociative, SMTT(30)
    <3>5. line' \o txq' = line \o txq
      BY <3>1, <3>2, <3>3, <3>4
    <3> QED
      BY <2>1, <3>5, KeepsTyped DEF ToLine, Received
  <2> QED
    BY <2>2, <2>3
<1>5. CASE Configure \/ BusReset
  <2>1. outBank' = NoBank /\ UNCHANGED <<line, txq, ReceivedByte>>
        /\ host' = [host EXCEPT !.open = FALSE]
    BY <1>5 DEF Configure, BusReset, ResetBanks, mainVars
  <2>2. host'.sent = host.sent
    BY <2>1 DEF Types, Histories
  <2>3. outBank'.bytes = <<>>
    BY <2>1 DEF NoBank
  <2>4. (line \o txq \o Received) \o <<>> = line \o txq \o Received
    BY <1>0, ConcatEmptySeq
  <2>5. ToLine' = line \o txq \o Received
    BY <2>1, <2>3, <2>4 DEF ToLine, Received
  <2>6. CASE usb.ep
    <3>1. Configure => Disturb(TRUE)
      BY <2>6 DEF Configure
    <3>2. past'.reset
      BY <1>5, <2>6, <3>1, PastSteps
    <3> QED
      BY <2>2, <2>5, <3>2, KeepsTyped
  <2>7. CASE ~usb.ep
    <3>1. outBank.bytes = <<>>
      BY <2>7, SMTT(30) DEF Endpoints, NoBank
    <3>2. ToLine = line \o txq \o Received
      BY <2>4, <3>1 DEF ToLine
    <3> QED
      BY <2>2, <2>5, <3>2, KeepsTyped
  <2> QED
    BY <2>6, <2>7
<1>6. ASSUME NEW n \in 0..EpSize, HostSends(n) PROVE Typed'
  <2> DEFINE s == line \o txq \o Received
             p == [i \in 1..n |-> host.sent + i]
  <2>1. /\ UNCHANGED <<line, txq, ReceivedByte, past>> /\ outBank'.bytes = p
        /\ host'.sent = host.sent + n /\ host.sent \in Nat /\ n \in Nat
    BY <1>6, USBtoSerialAssumption, SMTT(30) DEF HostSends, mainVars, Types, Histories
  <2>2. outBank.bytes = <<>>
    BY <1>6 DEF HostSends, Endpoints
  <2>3. s \o <<>> = s
    BY <1>0, ConcatEmptySeq
  <2>4. ToLine = s /\ ToLine' = s \o p
    BY <2>1, <2>2, <2>3 DEF ToLine, Received
  <2>5. p \in [1..n -> Nat] /\ \A i \in 1..n : p[i] = host.sent + i
    BY <2>1, SMTT(30)
  <2>6. s \in Seq(Nat)
    BY <1>0
  <2> HIDE DEF p, s
  <2>7. p \in Seq(Nat) /\ Len(p) = n /\ DOMAIN p = 1..n
    BY <2>1, <2>5, Counted
  <2>8. /\ Ordered(s) /\ \A i \in 1..Len(s) : s[i] =< host.sent
        /\ ~past.reset => /\ Len(s) = host.sent
                          /\ \A i \in 1..Len(s) : s[i] # Foreign
    BY <2>4 DEF Typed
  <2>9. Increasing(p)
    BY <2>1, <2>5, <2>7, SMTT(30) DEF Increasing
  <2>10. ASSUME NEW i \in 1..Len(s) PROVE s[i] \in Nat /\ s[i] =< host.sent
    BY <2>6, <2>8, ElementOfSeq
  <2>11. Ordered(s \o p)
    <3>1. ASSUME NEW i \in 1..Len(s), NEW j \in 1..Len(p) PROVE s[i] < p[j]
      <4>1. s[i] \in Nat /\ s[i] =< host.sent
        BY <2>10
      <4>2. j \in 1..n /\ p[j] = host.sent + j
        BY <2>5, <2>7
      <4> QED
        BY <2>1, <4>1, <4>2, SMTT(30)
    <3> QED
      BY <2>6, <2>7, <2>8, <2>9, <3>1, OrderedConcat
  <2>12. /\ Len(s \o p) = Len(s) + n
         /\ \A i \in 1..Len(s \o p) : \/ i \in 1..Len(s) /\ (s \o p)[i] = s[i]
                                      \/ i - Len(s) \in 1..n /\ (s \o p)[i] = p[i - Len(s)]
    BY <2>6, <2>7, ConcatElements
  <2>13. ASSUME NEW i \in 1..Len(s \o p) PROVE (s \o p)[i] =< host.sent + n
    <3>1. CASE i \in 1..Len(s) /\ (s \o p)[i] = s[i]
      BY <2>1, <2>10, <3>1, SMTT(30)
    <3>2. CASE i - Len(s) \in 1..n /\ (s \o p)[i] = p[i - Len(s)]
      <4>1. p[i - Len(s)] = host.sent + (i - Len(s))
        BY <2>5, <3>2
      <4> QED
        BY <2>1, <3>2, <4>1, SMTT(30)
    <3> QED
      BY <2>12, <3>1, <3>2
  <2>14. ~past'.reset => Len(s \o p) = host.sent + n
    BY <2>1, <2>8, <2>12
  <2>15. ASSUME ~past'.reset, NEW i \in 1..Len(s \o p) PROVE (s \o p)[i] # Foreign
    <3>1. CASE i \in 1..Len(s) /\ (s \o p)[i] = s[i]
      BY <2>1, <2>8, <2>15, <3>1
    <3>2. CASE i - Len(s) \in 1..n /\ (s \o p)[i] = p[i - Len(s)]
      <4>1. p[i - Len(s)] = host.sent + (i - Len(s))
        BY <2>5, <3>2
      <4> QED
        BY <2>1, <3>2, <4>1, SMTT(30) DEF Foreign
    <3> QED
      BY <2>12, <3>1, <3>2
  <2> QED
    BY <2>1, <2>4, <2>11, <2>13, <2>14, <2>15 DEF Typed, Ordered
<1> QED
  BY <1>1, <1>2, <1>3, <1>4, <1>5, <1>6, <1>7 DEF Next, Main

\* Bytes from the host leave on the serial line in order and none twice, also
\* when a bus reset hits CDC_Device_ReceiveByte between two of its accesses to
\* the endpoint; without a bus reset none is lost and none is foreign.
THEOREM LineKeepsOrder == Spec => []LineInOrder
<1> DEFINE Inv == Types /\ Endpoints /\ Fetching /\ Typed
<1>1. Init => Typed
  <2> SUFFICES ASSUME Init PROVE Typed
    OBVIOUS
  <2>1. Received = <<>>
    BY SMTT(30) DEF Init, Received
  <2>2. ToLine = <<>> /\ host.sent = 0 /\ Len(<<>>) = 0
    BY <2>1, EmptySeq, ConcatEmptySeq DEF Init, ToLine, NoBank
  <2> QED
    BY <2>2, SMTT(30) DEF Typed, Ordered
<1>2. Init => Endpoints
  BY SMTT(30) DEF Init, Endpoints, NoBank
<1>3. Init => Fetching
  BY DEF Init, Fetching, Receiving
<1>4. Init => Inv
  BY <1>1, <1>2, <1>3, InitTypes
<1>5. Inv /\ [Next]_vars => Inv'
  BY StepTypes, StepEndpoints, StepFetching, StepTyped
<1>6. Inv => LineInOrder
  <2> SUFFICES ASSUME Inv PROVE LineInOrder
    OBVIOUS
  <2>1. DOMAIN ToLine = 1..Len(ToLine)
    BY LineTypes, ConcatProperties, LenProperties DEF ToLine
  <2>2. {i \in DOMAIN ToLine : ToLine[i] # Foreign} = DOMAIN ToLine <=>
           \A i \in DOMAIN ToLine : ToLine[i] # Foreign
    OBVIOUS
  <2> QED
    BY <2>1, <2>2 DEF Typed, Ordered, LineInOrder, ToLine
<1> QED
  BY <1>4, <1>5, <1>6, PTL DEF Spec
=============================================================================
