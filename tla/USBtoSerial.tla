---------------------------- MODULE USBtoSerial ----------------------------
(***************************************************************************)
(* Projects/USBtoSerial: the bridge between a USB host and a serial port.  *)
(* The main loop moves bytes between two ring buffers and the CDC class    *)
(* driver; the USART receive interrupt inserts into one of the buffers;    *)
(* the USB interrupts change the device state, and a bus reset selects the *)
(* control endpoint, under the main loop's feet.  The ring buffer that     *)
(* takes serial bytes is RingBuffer's, here with an inserter that does not *)
(* test for room.  The other one is only used by the main loop: it is a    *)
(* queue (RingBufferProofs!RingIsQueue).  Serial bytes are numbered from 0 *)
(* as the USART receives them, the host's bytes from 1 as it sends them.   *)
(***************************************************************************)
EXTENDS RingBuffer, Integers, Sequences

CONSTANTS
    EpSize,      \* bytes in an endpoint bank (CDC_TXRX_EPSIZE)
    MaxOut,      \* bound: bytes the host sends
    MaxEvents    \* bound: what the host and the cable do to disturb it

ASSUME USBtoSerialAssumption ==
    /\ Data = 0..MaxBytes /\ EpSize \in Nat \ {0}
    /\ MaxOut \in Nat /\ MaxEvents \in Nat

VARIABLES
    usb,         \* USB_DeviceState, the line encoding's baud rate, endpoints,
                 \* and a SetLineEncoding that waits for its data packet
    sel,         \* the selected endpoint (UENUM)
    inBank,      \* the IN endpoint's bank: its bytes, and whether it is queued
    outBank,     \* the OUT endpoint's bank: its bytes, and whether it is held
    pc,          \* where the main loop is
    BufferCount, \* local of main
    byte,        \* the byte SendByte was called with
    ReceivedByte,\* local of CDC_Device_ReceiveByte
    txq,         \* USBtoUSART_Buffer
    host,        \* bytes and last packet the host got, bytes it sent
    line,        \* bytes that left on the serial line
    past         \* history: bus events, overruns, empty packets given up,
                 \* serial bytes heard, and those that were not inserted

mainVars == <<pc, BufferCount, byte, ReceivedByte>>
envVars == <<host, past>>
vars == <<ringVars, usb, sel, inBank, outBank, mainVars, txq, line, envVars>>

NoBank == [bytes |-> <<>>, held |-> FALSE]

States == {"unattached", "powered", "default", "configured", "suspended"}
Pcs == {"receive", "selectOut", "outReceived", "outBytes", "outRead",
        "outEmpty", "outClear", "count", "peek", "selectIn", "test", "wait",
        "write", "remove", "removed", "serial", "flushSelect", "flushBytes",
        "flushFull", "clearFull", "clearPart", "flushWait"}

\* A byte read from an endpoint the host did not send it to.
Foreign == 0

Init ==
    /\ In = 0 /\ Out = 0 /\ Count = 0
    /\ array = [i \in 0..Size - 1 |-> MaxBytes]
    /\ inserting = 0 /\ removing = 0 /\ got = MaxBytes
    /\ log = [i \in 0..MaxBytes - 1 |-> MaxBytes]
    /\ nin = 0 /\ nout = 0
    /\ usb = [state |-> "unattached", baud |-> FALSE, ep |-> FALSE,
              wait |-> "no"]
    /\ sel = "control" /\ inBank = NoBank /\ outBank = NoBank
    /\ pc = "receive" /\ BufferCount = 0 /\ byte = MaxBytes
    /\ ReceivedByte = -1
    /\ txq = <<>> /\ line = <<>>
    /\ host = [got |-> <<>>, open |-> FALSE, sent |-> 0]
    /\ past = [events |-> 0, reset |-> FALSE, overrun |-> FALSE,
               late |-> FALSE, heard |-> 0, missed |-> {}]

-----------------------------------------------------------------------------
(* The endpoint's registers, as the main loop reads and writes them.  What *)
(* a test finds out about the control endpoint is not specified.           *)

Outcomes(b) == IF sel = "control" THEN BOOLEAN ELSE {usb.ep /\ b}

\* USB_DeviceState is Configured and the host has set a line encoding.
Usable == usb.state = "configured" /\ usb.baud

\* Endpoint_IsINReady: the bank is the device's to fill.
IsINReady == sel = "in" /\ usb.ep /\ ~inBank.held

\* Mutant: room for one byte more than the bank has.
IsReadWriteAllowedLate == IsINReady /\ Len(inBank.bytes) =< EpSize

\* Endpoint_IsReadWriteAllowed
IsReadWriteAllowed == IsINReady /\ Len(inBank.bytes) < EpSize

\* Endpoint_ClearIN hands the bank to the host; it has no effect on one that
\* is already the host's.
ClearIN == inBank' = IF sel = "in" /\ usb.ep THEN [inBank EXCEPT !.held = TRUE]
                     ELSE inBank

\* Endpoint_WaitUntilReady gives up: unplugged, suspended, or no answer for
\* USB_STREAM_TIMEOUT_MS frames, which may be at any time.
WaitFails == ~IsINReady

\* A SetLineEncoding that waits in its interrupt holds up the main loop.
Goto(a, b) == usb.wait = "no" /\ pc = a /\ pc' = b

ringHist == <<In, array, inserting, log, nin>>

-----------------------------------------------------------------------------
(* The main loop.  Its locals are reset where they are dead.               *)

\* CDC_Device_ReceiveByte: its early returns.
Receive ==
    /\ \/ Goto("receive", "selectOut") /\ Len(txq) < Size /\ Usable
       \/ Goto("receive", "count") /\ ~(Len(txq) < Size /\ Usable)
    /\ UNCHANGED <<ringVars, usb, sel, inBank, outBank, BufferCount, byte,
                   ReceivedByte, txq, line, envVars>>

\* Endpoint_SelectEndpoint
Select ==
    /\ \/ Goto("selectOut", "outReceived") /\ sel' = "out"
       \/ Goto("selectIn", "test") /\ sel' = "in"
       \/ Goto("flushSelect", "flushBytes") /\ sel' = "in"
    /\ UNCHANGED <<ringVars, usb, inBank, outBank, BufferCount, byte,
                   ReceivedByte, txq, line, envVars>>

\* Endpoint_IsOUTReceived, and whether there is a byte to read.
OutTests ==
    /\ \/ \E b \in Outcomes(outBank.held) :
             Goto("outReceived", IF b THEN "outBytes" ELSE "count")
       \/ \E b \in Outcomes(outBank.bytes # <<>>) :
             Goto("outBytes", IF b THEN "outRead" ELSE "outEmpty")
    /\ UNCHANGED <<ringVars, usb, sel, inBank, outBank, BufferCount, byte,
                   ReceivedByte, txq, line, envVars>>

\* Endpoint_Read_8 from whichever endpoint is selected.
Read ==
    /\ Goto("outRead", "outEmpty")
    /\ IF sel = "out" /\ usb.ep /\ outBank.bytes # <<>>
         THEN /\ ReceivedByte' = Head(outBank.bytes)
              /\ outBank' = [outBank EXCEPT !.bytes = Tail(@)]
         ELSE ReceivedByte' = Foreign /\ UNCHANGED outBank
    /\ UNCHANGED <<ringVars, usb, sel, inBank, BufferCount, byte, txq, line,
                   envVars>>

\* What ReceiveByte returns: nothing, or a byte.
Received == IF ReceivedByte < 0 THEN <<>> ELSE <<ReceivedByte>>

\* RingBuffer_Insert, which only concerns the main loop.
Insert == txq' = txq \o Received /\ ReceivedByte' = -1

\* Mutant: the bank is given back although bytes are left in it.
BytesLeftIgnored == FALSE

\* Endpoint_BytesInEndpoint
BytesLeft == outBank.bytes # <<>>

\* A bank with bytes left is kept, and ReceiveByte returns.
OutKept ==
    /\ Goto("outEmpty", "count") /\ TRUE \in Outcomes(BytesLeft)
    /\ Insert
    /\ UNCHANGED <<ringVars, usb, sel, inBank, outBank, BufferCount, byte,
                   line, envVars>>

OutEmpty ==
    /\ Goto("outEmpty", "outClear") /\ FALSE \in Outcomes(BytesLeft)
    /\ UNCHANGED <<ringVars, usb, sel, inBank, outBank, BufferCount, byte,
                   ReceivedByte, txq, line, envVars>>

\* Endpoint_ClearOUT gives the bank back, whatever it holds by now.
ClearOUT ==
    /\ Goto("outClear", "count")
    /\ outBank' = IF sel = "out" /\ usb.ep THEN NoBank ELSE outBank
    /\ Insert
    /\ UNCHANGED <<ringVars, usb, sel, inBank, BufferCount, byte, line,
                   envVars>>

NearlyFull == 4 * Count > 3 * Size

\* RingBuffer_GetCount, and the flush timer: TOV0 may be set or not.
FlushDue ==
    /\ Goto("count", "peek")
    /\ BufferCount' = Count
    /\ UNCHANGED <<ringVars, usb, sel, inBank, outBank, byte, ReceivedByte,
                   txq, line, envVars>>

NotDue ==
    /\ Goto("count", "serial") /\ ~NearlyFull
    /\ UNCHANGED <<ringVars, usb, sel, inBank, outBank, BufferCount, byte,
                   ReceivedByte, txq, line, envVars>>

\* while (BufferCount--): peek and CDC_Device_SendByte's early return.
PeekByte ==
    /\ \/ /\ BufferCount = 0 \/ ~Usable
          /\ Goto("peek", "serial")
          /\ BufferCount' = 0 /\ UNCHANGED byte
       \/ /\ BufferCount > 0 /\ Usable
          /\ Goto("peek", "selectIn")
          /\ byte' = Peek
          /\ BufferCount' = BufferCount - 1
    /\ UNCHANGED <<ringVars, usb, sel, inBank, outBank, ReceivedByte, txq,
                   line, envVars>>

\* SendByte: a bank that cannot take the byte is sent.
Test ==
    /\ \/ Goto("test", "write") /\ TRUE \in Outcomes(IsReadWriteAllowed)
          /\ UNCHANGED inBank
       \/ Goto("test", "wait") /\ FALSE \in Outcomes(IsReadWriteAllowed)
          /\ ClearIN
    /\ UNCHANGED <<ringVars, usb, sel, outBank, BufferCount, byte,
                   ReceivedByte, txq, line, envVars>>

\* Mutant: a failed SendByte is not noticed.
AfterTimeoutIgnored == "remove"

\* "abort if there is an error without dequeuing"
AfterTimeout == "serial"

Wait ==
    /\ \/ Goto("wait", "write") /\ TRUE \in Outcomes(IsINReady)
          /\ UNCHANGED <<BufferCount, byte>>
       \/ Goto("wait", AfterTimeout) /\ WaitFails
          /\ BufferCount' = 0 /\ byte' = MaxBytes
    /\ UNCHANGED <<ringVars, usb, sel, inBank, outBank, ReceivedByte, txq,
                   line, envVars>>

\* Endpoint_Write_8 into whichever endpoint is selected.
Write ==
    /\ Goto("write", "remove")
    /\ inBank' = IF IsReadWriteAllowed
                   THEN [inBank EXCEPT !.bytes = Append(@, byte)] ELSE inBank
    /\ byte' = MaxBytes
    /\ UNCHANGED <<ringVars, usb, sel, outBank, BufferCount, ReceivedByte,
                   txq, line, envVars>>

\* Mutant: the sent byte is dequeued only if the device is still configured.
RemoveIfUsable ==
    /\ \/ Goto("remove", "removed") /\ Usable /\ Fetch /\ removing' = 1
          /\ UNCHANGED Count
       \/ Goto("remove", "serial") /\ ~Usable
          /\ UNCHANGED <<got, Out, nout, removing, Count>>
       \/ Goto("removed", "peek") /\ removing' = 0 /\ Count' = Count - 1
          /\ UNCHANGED <<got, Out, nout>>
    /\ UNCHANGED <<ringHist, usb, sel, inBank, outBank, BufferCount, byte,
                   ReceivedByte, txq, line, envVars>>

\* RingBuffer_Remove, in its two steps.
Remove ==
    /\ \/ Goto("remove", "removed") /\ Fetch /\ removing' = 1
          /\ UNCHANGED Count
       \/ Goto("removed", "peek") /\ removing' = 0 /\ Count' = Count - 1
          /\ UNCHANGED <<got, Out, nout>>
    /\ UNCHANGED <<ringHist, usb, sel, inBank, outBank, BufferCount, byte,
                   ReceivedByte, txq, line, envVars>>

\* CDC_Device_USBTask and CDC_Device_Flush: their early returns.  (The control
\* requests USB_USBTask would look for are taken by the interrupt.)
Flush == IF Usable THEN "flushSelect" ELSE "receive"

\* The next byte goes out, which only concerns the main loop.
Serial ==
    /\ Goto("serial", Flush)
    /\ IF txq = <<>> THEN UNCHANGED <<txq, line>>
       ELSE line' = Append(line, Head(txq)) /\ txq' = Tail(txq)
    /\ UNCHANGED <<ringVars, usb, sel, inBank, outBank, BufferCount, byte,
                   ReceivedByte, envVars>>

\* Mutant: no empty packet after a full one.
AfterFlushShort(full) == "receive"

AfterFlush(full) == IF full THEN "flushWait" ELSE "receive"

\* Mutant: only full banks are flushed.
NeedsFlushFull == Len(inBank.bytes) = EpSize

\* Endpoint_BytesInEndpoint
NeedsFlush == inBank.bytes # <<>>

\* Flush: an empty bank is left alone; BankFull is kept in pc.
FlushTests ==
    /\ \/ \E b \in Outcomes(NeedsFlush) :
             Goto("flushBytes", IF b THEN "flushFull" ELSE "receive")
       \/ \E b \in Outcomes(IsReadWriteAllowed) :
             Goto("flushFull", IF b THEN "clearPart" ELSE "clearFull")
    /\ UNCHANGED <<ringVars, usb, sel, inBank, outBank, BufferCount, byte,
                   ReceivedByte, txq, line, envVars>>

\* The bank is sent.
FlushClear ==
    /\ \/ Goto("clearFull", AfterFlush(TRUE))
       \/ Goto("clearPart", AfterFlush(FALSE))
    /\ ClearIN
    /\ UNCHANGED <<ringVars, usb, sel, outBank, BufferCount, byte,
                   ReceivedByte, txq, line, envVars>>

\* A full bank is followed by an empty packet.
FlushWait ==
    /\ Goto("flushWait", "receive")
    /\ \/ TRUE \in Outcomes(IsINReady) /\ ClearIN /\ UNCHANGED past
       \/ WaitFails /\ past' = [past EXCEPT !.late = TRUE] /\ UNCHANGED inBank
    /\ UNCHANGED <<ringVars, usb, sel, outBank, BufferCount, byte,
                   ReceivedByte, txq, line, host>>

Main == \/ Receive \/ Select \/ OutTests \/ Read \/ OutKept \/ OutEmpty
        \/ ClearOUT \/ FlushDue \/ NotDue \/ PeekByte \/ Test \/ Wait \/ Write
        \/ Remove \/ Serial \/ FlushTests \/ FlushClear \/ FlushWait

-----------------------------------------------------------------------------
(* Interrupts.                                                             *)

Disturb(emptied) ==
    /\ past.events < MaxEvents
    /\ past' = [past EXCEPT !.events = @ + 1, !.reset = @ \/ emptied]

\* ISR(USART1_RX_vect): RingBuffer_Insert without a test for room; a byte that
\* arrives while the device is not configured is read and dropped.
SerialByte ==
    /\ past.heard < MaxBytes
    /\ \/ /\ usb.state = "configured"
          /\ Store(past.heard) /\ Count' = Count + 1
          /\ past' = [past EXCEPT !.heard = @ + 1,
                        !.overrun = @ \/ Occupied + removing = Size]
       \/ /\ usb.state # "configured"
          /\ past' = [past EXCEPT !.heard = @ + 1,
                        !.missed = @ \cup {past.heard}]
          /\ UNCHANGED <<array, In, log, nin, Count>>
    /\ UNCHANGED <<Out, inserting, removing, got, nout, usb, sel, inBank,
                   outBank, mainVars, txq, line, host>>

\* ISR(USB_COM_vect): SET_CONFIGURATION, EVENT_USB_Device_ConfigurationChanged
\* and CDC_Device_ConfigureEndpoints; the selected endpoint is put back.  A
\* host that configures the device again has bytes in the banks thrown away.
Configure ==
    /\ usb.state \in {"default", "configured"} /\ usb.wait # "data"
    /\ usb' = [usb EXCEPT !.state = "configured", !.baud = FALSE, !.ep = TRUE]
    /\ inBank' = NoBank /\ outBank' = NoBank
    /\ IF usb.ep THEN Disturb(TRUE) ELSE UNCHANGED past
    /\ host' = [host EXCEPT !.open = FALSE]
    /\ UNCHANGED <<ringVars, sel, mainVars, txq, line>>

\* ISR(USB_COM_vect): CDC_REQ_SetLineEncoding waits for the packet with the
\* line encoding.
LineEncodingWait ==
    /\ usb.state = "configured" /\ usb.wait = "no"
    /\ usb' = [usb EXCEPT !.wait = "data"]
    /\ IF usb.baud THEN Disturb(FALSE) ELSE UNCHANGED past
    /\ UNCHANGED <<ringVars, sel, inBank, outBank, mainVars, txq, line, host>>

\* The packet comes, with a baud rate or zero.
SetLineEncoding ==
    /\ usb.state = "configured" /\ usb.wait = "data"
    /\ \E b \in BOOLEAN : usb' = [usb EXCEPT !.baud = b, !.wait = "no"]
    /\ UNCHANGED <<ringVars, sel, inBank, outBank, mainVars, txq, line,
                   envVars>>

\* The only other way out of the wait.
LineEncodingGivenUp ==
    /\ usb.state = "unattached" /\ usb.wait # "no"
    /\ usb' = [usb EXCEPT !.wait = "no"]
    /\ UNCHANGED <<ringVars, sel, inBank, outBank, mainVars, txq, line,
                   envVars>>

\* The controller disables the endpoints when the bus is reset.
ResetBanks == inBank' = NoBank /\ outBank' = NoBank

\* ISR(USB_GEN_vect), EORSTI: configuring the control endpoint selects it.  The
\* packet a SetLineEncoding waits for will not come any more; requests that the
\* host makes from now on interrupt the wait.
BusReset ==
    /\ usb.state # "unattached" /\ usb.state # "default"
    /\ usb' = [usb EXCEPT !.state = "default", !.ep = FALSE,
                          !.wait = IF @ = "data" THEN "cut" ELSE @]
    /\ sel' = "control"
    /\ ResetBanks
    /\ IF usb.state = "powered" THEN past' = [past EXCEPT !.reset = @ \/ usb.ep]
       ELSE Disturb(TRUE)
    /\ host' = [host EXCEPT !.open = FALSE]
    /\ UNCHANGED <<ringVars, mainVars, txq, line>>

\* ISR(USB_GEN_vect), VBUSTI, SUSPI and WAKEUPI: the banks are kept.
BusEvent(from, to) ==
    /\ usb.state \in from
    /\ usb' = [usb EXCEPT !.state = to]
    /\ UNCHANGED <<ringVars, sel, inBank, outBank, mainVars, txq, line, host>>

Plug == BusEvent({"unattached"}, "powered") /\ UNCHANGED past
WakeUp == BusEvent({"suspended"}, "configured") /\ UNCHANGED past

\* (Somebody always pulls the cable of a bridge that hangs.)
Unplug ==
    /\ BusEvent(States \ {"unattached"}, "unattached")
    /\ IF usb.wait = "cut" THEN UNCHANGED past ELSE Disturb(FALSE)

\* (Before it is configured a suspended device differs in nothing that counts.)
Suspend == BusEvent({"configured"}, "suspended") /\ Disturb(FALSE)

-----------------------------------------------------------------------------
(* The host.                                                               *)

HostReads ==
    /\ usb.state = "configured" /\ inBank.held
    /\ inBank' = NoBank
    /\ host' = [host EXCEPT !.got = @ \o inBank.bytes,
                            !.open = Len(inBank.bytes) = EpSize]
    /\ UNCHANGED <<ringVars, usb, sel, outBank, mainVars, txq, line, past>>

\* A packet of n bytes; the host numbers the bytes it sends.
HostSends(n) ==
    /\ usb.state = "configured" /\ usb.baud /\ usb.ep /\ ~outBank.held
    /\ host.sent + n =< MaxOut
    /\ outBank' = [bytes |-> [i \in 1..n |-> host.sent + i], held |-> TRUE]
    /\ host' = [host EXCEPT !.sent = @ + n]
    /\ UNCHANGED <<ringVars, usb, sel, inBank, mainVars, txq, line, past>>

Next == \/ Main \/ SerialByte
        \/ Configure \/ LineEncodingWait \/ SetLineEncoding
        \/ LineEncodingGivenUp \/ BusReset \/ Plug \/ WakeUp \/ Unplug
        \/ Suspend
        \/ HostReads \/ \E n \in 0..EpSize : HostSends(n)

\* The main loop never stops, the flush timer keeps expiring, and a host that
\* keeps the device configured keeps polling its IN endpoint.
Spec == /\ Init /\ [][Next]_vars
        /\ WF_vars(Main) /\ SF_vars(FlushDue) /\ WF_vars(HostReads)

-----------------------------------------------------------------------------
(* Properties.                                                             *)

\* Types: the pointers stay inside the array even when it is overrun, and no
\* bank is ever given more bytes than Endpoint_IsReadWriteAllowed lets in.
TypeOK ==
    /\ In \in 0..Size - 1 /\ Out \in 0..Size - 1
    /\ Count \in 0..MaxBytes /\ nin \in 0..MaxBytes /\ nout \in 0..nin
    /\ array \in [0..Size - 1 -> Data] /\ log \in [0..MaxBytes - 1 -> Data]
    /\ inserting = 0 /\ removing \in {0, 1} /\ got \in Data
    /\ usb \in [state : States, baud : BOOLEAN, ep : BOOLEAN,
                wait : {"no", "data", "cut"}]
    /\ sel \in {"control", "in", "out"} /\ pc \in Pcs
    /\ inBank.held \in BOOLEAN /\ Len(inBank.bytes) =< EpSize
    /\ outBank.held \in BOOLEAN /\ Len(outBank.bytes) =< EpSize
    /\ Len(txq) =< Size /\ byte \in Data /\ BufferCount \in 0..MaxBytes
    /\ ReceivedByte \in Nat \cup {-1}

Increasing(s) == \A i, j \in DOMAIN s : i < j => s[i] < s[j]

\* The serial bytes still in the ring buffer, read from the array, without
\* one that is written into the endpoint but not dequeued yet.
Waiting ==
    LET all == [i \in 1..Occupied |-> array[Wrap(Out + i - 1)]]
    IN IF pc = "remove" THEN Tail(all) ELSE all

\* No byte from the serial line reaches the host twice or out of order,
\* whatever timeouts, suspends, resets and unpluggings hit the main loop
\* between peeking at a byte, sending it and dequeuing it, unless the receive
\* interrupt overran the buffer.
HostInOrder ==
    ~past.overrun => Increasing(host.got \o inBank.bytes \o Waiting)

\* As long as the bus is not reset and the buffer not overrun, the main loop
\* loses no byte, whatever timeouts, suspends and unpluggings hit it: what the
\* host got, what is in the bank and what is in the buffer are all the bytes
\* that ever arrived at the USART, but for those the receive interrupt dropped
\* because the device was suspended or not configured when they arrived.
NothingLost ==
    ~past.overrun /\ ~past.reset =>
        LET kept == host.got \o inBank.bytes \o Waiting
        IN {kept[i] : i \in DOMAIN kept} = (0..past.heard - 1) \ past.missed

\* Bytes from the host leave on the serial line in order and none twice, also
\* when a bus reset hits CDC_Device_ReceiveByte between two of its accesses to
\* the endpoint.  Such a reset may lose bytes, and may have a byte read from
\* the control endpoint go out; without one none is lost and none is foreign.
LineInOrder ==
    LET out  == line \o txq \o Received \o outBank.bytes
        sent == {i \in DOMAIN out : out[i] # Foreign}
    IN /\ \A i, j \in sent : i < j => out[i] < out[j]
       /\ ~past.reset => Len(out) = host.sent /\ sent = DOMAIN out

\* The host keeps the bridge configured and open, and no SetLineEncoding waits
\* for a packet that does not come.
Serving == Usable /\ usb.wait = "no"

\* While the bridge is served like that, both directions drain.
BridgeDrains ==
    <>[]Serving => []<>(/\ nin = nout /\ inBank.bytes = <<>>
                        /\ txq = <<>> /\ ~outBank.held)

\* A transfer whose last packet was full is ended by a shorter one, unless
\* CDC_Device_Flush gave up waiting to queue it: then nothing makes up for it.
TransferEnds == <>[]Serving /\ []~past.late => []<>(~host.open)
=============================================================================
