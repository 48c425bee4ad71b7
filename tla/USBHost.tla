------------------------------ MODULE USBHost ------------------------------
(***************************************************************************)
(* LUFA's host side (Host_AVR8.c, HostStandardReq.c and the host's part of *)
(* USBInterrupt_AVR8.c) on one end of the cable, LUFA's device side on the *)
(* other: attachment, enumeration, the requests of the host's application, *)
(* unplugging at any time, a voltage dip, suspending and resuming the bus. *)
(*                                                                         *)
(* The host's main loop reads USB_HostState in a switch and stores the     *)
(* next state at the end of the case; interrupts that store it too come in *)
(* between.  hpc is the case the main loop is in.                          *)
(***************************************************************************)
EXTENDS USBDevice

CONSTANTS
    MaxFaults     \* bound: how often the cable is pulled, VBUS dips or the
                  \* device is too late for the host

VARIABLES
    cable,     \* is the device connected to the host?
    host,      \* USB_HostState, its registers and globals
    hpend,     \* host interrupt flags not served yet
    hpc,       \* the case of the switch, or the call, the main loop is in
    ctl,       \* USB_Host_SendControlRequest: request, stage, was the bus suspended
    past       \* history: faults, was an answer late, did a
               \* request time out since the enumeration began, was
               \* one cut off in the middle

hostVars == <<host, hpend, hpc, ctl>>
vars == <<busVars, deviceVars, ep0, cable, hostVars, past>>

HostStates == {"Unattached", "WaitForDevice", "Powered", "Settle",
               "WaitForConnect", "DoReset", "ConfigPipe", "Default",
               "PostReset", "PostAddressSet", "Addressed", "Configured"}

NoTransfer == [req |-> None, stage |-> "none", suspended |-> FALSE]

Init ==
    /\ InitDevice /\ cable = FALSE
    /\ host = [state |-> "Unattached", post |-> "Unattached", config |-> 0,
               address |-> FALSE, enabled |-> {"SRPI"}, vbus |-> TRUE]
    /\ hpend = {} /\ hpc = "idle" /\ ctl = NoTransfer
    /\ past = [faults |-> 0, late |-> FALSE, timeout |-> FALSE, cut |-> FALSE]

-----------------------------------------------------------------------------
(* The cable, VBUS and the controllers.                                    *)

\* In a millisecond a device that is not late has done what it could.
Millisecond == DeviceWaits \/ past.late

\* VBUS at the device changes.  It falls slowly enough for interrupts that were
\* due before, and comes back slowly enough for the device to see that it was
\* gone.
Power(on) ==
    /\ on /\ ~plugged => DeviceWaits
    /\ ~on /\ plugged => pend = {} \/ ~InterruptsOn
    /\ plugged' = on
    /\ pend' = IF on = plugged THEN pend ELSE pend \cup {"VBUSTI"}
    /\ UNCHANGED <<dev, dpc, target>>

\* USB_INT_HasOccurred and USB_INT_IsEnabled.  While the bus is suspended the
\* controller raises no interrupt: a disconnection waits for it to be resumed.
Raised(flag) == flag \in hpend /\ flag \in host.enabled /\ bus = "active"

\* A device attached again shows when the main loop has seen that it was gone.
AttachDue == "SRPI" \in host.enabled /\ cable /\ hpc = "idle"

\* Interrupts come before the next step of the program they interrupt.
HostReady == ~Raised("DDISCI") /\ ~Raised("VBERRI") /\ ~AttachDue

\* Mutant: session requests are not enabled again.
ResetInterfaceDeaf ==
    /\ host' = [host EXCEPT !.state = "Unattached", !.config = 0,
                             !.address = FALSE, !.enabled = {}, !.vbus = TRUE]
    /\ hpend' = {} /\ bus' = "active"
    /\ Power(cable)

\* USB_ResetInterface ends in USB_Init_Host, which switches VBUS on.  The
\* static PostWaitState is kept.
ResetInterface ==
    /\ host' = [host EXCEPT !.state = "Unattached", !.config = 0,
                             !.address = FALSE, !.enabled = {"SRPI"},
                             !.vbus = TRUE]
    /\ hpend' = {} /\ bus' = "active"
    /\ Power(cable)

\* The host gives up a request that the device has still in hand.
Cut == [past EXCEPT !.cut = @ \/ ep0.setup # None \/ (plugged' /\ dpc # "idle")]

\* The cable is slower than an interrupt.
Plug ==
    /\ ~cable /\ HostReady /\ cable' = TRUE
    /\ Power(host.vbus)
    /\ UNCHANGED <<bus, ep0, hostVars, past>>

Unplug ==
    /\ cable /\ past.faults < MaxFaults
    /\ cable' = FALSE
    /\ Power(FALSE) /\ past' = [Cut EXCEPT !.faults = @ + 1]
    /\ hpend' = hpend \cup {"DDISCI"}
    /\ UNCHANGED <<bus, ep0, host, hpc, ctl>>

\* A device without power of its own forgets everything, or another one is put
\* in its place.
PowerLost ==
    /\ ~plugged
    /\ dev' = NewDevice /\ pend' = {} /\ ep0' = Quiet
    /\ dpc' = "idle" /\ target' = "Unattached"
    /\ UNCHANGED <<busVars, cable, hostVars, past>>

\* A bus reset: the device's controller forgets its address and clears the
\* control endpoint before the device's interrupt runs.  It takes 10 ms.
ResetBus ==
    /\ Millisecond
    /\ \/ /\ plugged
          /\ dev' = [dev EXCEPT !.addressed = FALSE]
          /\ pend' = pend \cup {"EORSTI"}
          /\ ep0' = Quiet /\ bus' = "active"
          /\ UNCHANGED <<plugged, dpc, target>>
       \/ ~plugged /\ UNCHANGED <<busVars, deviceVars, ep0>>

-----------------------------------------------------------------------------
(* ISR(USB_GEN_vect) on the host.                                          *)

\* DDISCI: the device is gone.
DisconnectISR ==
    /\ Raised("DDISCI")
    /\ ResetInterface
    /\ UNCHANGED <<ep0, cable, hpc, ctl, past>>

\* VBERRI: VBUS is switched off, and as it falls the device seems to go.
VoltageISR ==
    /\ Raised("VBERRI") /\ ~Raised("DDISCI")
    /\ host' = [host EXCEPT !.state = "Unattached", !.vbus = FALSE]
    /\ hpend' = hpend \ {"VBERRI"}
    /\ Power(FALSE) /\ past' = Cut
    /\ UNCHANGED <<bus, ep0, cable, hpc, ctl>>

Discharged ==
    /\ cable /\ ~plugged /\ DeviceWaits
    /\ "DDISCI" \notin hpend /\ hpend' = hpend \cup {"DDISCI"}
    /\ UNCHANGED <<busVars, deviceVars, ep0, cable, host, hpc, ctl, past>>

\* SRPI: with VBUS on, something attached shows.
AttachISR ==
    /\ AttachDue
    /\ host' = [host EXCEPT !.state = "Powered",
                            !.enabled = (@ \ {"SRPI"}) \cup {"DDISCI"}]
    /\ UNCHANGED <<busVars, deviceVars, ep0, cable, hpend, hpc, ctl, past>>

HostInterrupt == DisconnectISR \/ VoltageISR \/ Discharged \/ AttachISR

Dip ==
    /\ "VBERRI" \in host.enabled /\ plugged /\ past.faults < MaxFaults
    /\ hpend' = hpend \cup {"VBERRI"}
    /\ past' = [past EXCEPT !.faults = @ + 1]
    /\ UNCHANGED <<busVars, deviceVars, ep0, cable, host, hpc, ctl>>

-----------------------------------------------------------------------------
(* USB_Host_SendControlRequest.                                            *)

Case(c) == hpc = c /\ HostReady /\ ctl.stage = "none"

Begin(r) ==
    /\ ctl' = [req |-> r, stage |-> "setup", suspended |-> bus = "idle"]
    /\ bus' = "active"
    /\ UNCHANGED <<plugged, deviceVars, ep0, cable, host, hpend, past>>

\* The device answers to the address the host uses.
Reaches == plugged /\ dev.addressed = host.address

Stage(s) == ctl.stage = s /\ HostReady

GoTo(s) ==
    /\ ctl' = [ctl EXCEPT !.stage = s]
    /\ UNCHANGED <<busVars, deviceVars, cable, host, hpend, hpc>>

Connected == host.state # "Unattached" /\ Reaches

\* GET STATUS is sent with wLength 0: no data stage.
FirstStage(r) ==
    CASE r.kind \in {"DescriptorSize", "GetDescriptor", "GetConfiguration"} -> "in"
      [] r.kind = "GetStatus" -> "out"
      [] OTHER -> "ack"

\* A SETUP packet is always accepted, and clears what the endpoint held.
SetupSent ==
    /\ Stage("setup") /\ Connected /\ Millisecond
    /\ ep0' = [Quiet EXCEPT !.setup = ctl.req]
    /\ GoTo(FirstStage(ctl.req)) /\ UNCHANGED past

Ready(s) ==
    CASE s \in {"in", "ack"} -> ep0.in # None
      [] s = "out" -> ep0.setup = None /\ ~ep0.out /\ ~ep0.stall

\* Only an empty packet or a full buffer ends the loop, not a short packet.
MoreData == ctl.req = Request("GetDescriptor", 1) /\ ep0.in # ZLP

InReceived ==
    /\ Stage("in") /\ Connected /\ Ready("in")
    /\ ep0' = [ep0 EXCEPT !.in = None]
    /\ GoTo(IF MoreData THEN "in" ELSE "out") /\ UNCHANGED past

OutSent ==
    /\ Stage("out") /\ Connected /\ Ready("out")
    /\ ep0' = [ep0 EXCEPT !.out = TRUE]
    /\ GoTo("ok") /\ UNCHANGED past

AckReceived ==
    /\ Stage("ack") /\ Connected /\ Ready("ack")
    /\ ep0' = [ep0 EXCEPT !.in = None]
    /\ GoTo("ok") /\ UNCHANGED past

\* USB_Host_WaitMS: disconnected, a pipe error or a stall.
WaitFails ==
    /\ \E s \in {"setup", "in", "out", "ack"} :
          Stage(s) /\ (~Connected \/ (ep0.stall /\ s # "setup"))
    /\ GoTo("error") /\ past' = Cut /\ UNCHANGED ep0

\* Mutant: only the data stage times out.
TimesOutInData ==
    /\ Stage("in") /\ Connected /\ ~ep0.stall /\ ~Ready("in")
    /\ DeviceWaits /\ past' = [past EXCEPT !.timeout = TRUE]
    /\ GoTo("timeout") /\ UNCHANGED ep0

\* USB_HOST_TIMEOUT_MS has passed.
TimesOut ==
    /\ \E s \in {"in", "out", "ack"} :
          Stage(s) /\ Connected /\ ~ep0.stall /\ ~Ready(s)
    /\ \/ DeviceWaits /\ past' = [past EXCEPT !.timeout = TRUE]
       \/ /\ ~DeviceWaits /\ past.faults < MaxFaults
          /\ past' = [past EXCEPT !.faults = @ + 1, !.late = TRUE,
                              !.timeout = TRUE]
    /\ GoTo("timeout") /\ UNCHANGED ep0

Transfer == \/ SetupSent \/ InReceived \/ OutSent \/ AckReceived
            \/ WaitFails \/ TimesOut

Returns(c, ok) ==
    /\ hpc = c /\ HostReady
    /\ ctl.stage \in IF ok THEN {"ok"} ELSE {"error", "timeout"}
    /\ ctl' = NoTransfer /\ hpc' = "idle"
    /\ UNCHANGED <<cable, past>>

-----------------------------------------------------------------------------
(* USB_Host_ProcessNextHostState.                                          *)

\* switch (USB_HostState)
Switch ==
    /\ Case("idle")
    /\ host.state \notin {"Unattached", "Addressed", "Configured"}
    /\ hpc' = host.state
    /\ UNCHANGED <<busVars, deviceVars, ep0, cable, host, hpend, ctl, past>>

Store(c, h) ==
    /\ Case(c) /\ hpc' = "idle" /\ host' = h
    /\ UNCHANGED <<ctl, cable, past>>

Becomes(s) == [host EXCEPT !.state = s]

\* HOST_TASK_NONBLOCK_WAIT
NonBlockWait(s) == [host EXCEPT !.state = "WaitForDevice", !.post = s]

\* USB_Host_ResetDevice; DDISCI is ignored as long as frames are seen.
ResetDevice(s) ==
    /\ ResetBus
    /\ host' = [NonBlockWait(s) EXCEPT !.config = 0,
                                       !.enabled = @ \cup {"DDISCI"}]
    /\ hpend' = IF plugged THEN hpend \ {"DDISCI"} ELSE hpend

Fail ==
    \/ host.state = "Unattached" /\ UNCHANGED <<busVars, deviceVars, host, hpend>>
    \/ host.state # "Unattached" /\ ResetInterface

\* The waits are long enough for the device to do what it was asked.
WaitForDevice ==
    \/ /\ Case("WaitForDevice") /\ host.state = "Unattached"
       /\ hpc' = "idle" /\ ResetInterface
       /\ UNCHANGED <<ep0, ctl, cable, past>>
    \/ /\ host.state # "Unattached" /\ DeviceWaits
       /\ Store("WaitForDevice", Becomes(host.post))
       /\ UNCHANGED <<busVars, deviceVars, ep0, hpend>>

Powered == /\ Store("Powered", Becomes("Settle"))
           /\ UNCHANGED <<busVars, deviceVars, ep0, hpend>>

Settled == /\ Store("Settle", Becomes("WaitForConnect"))
           /\ UNCHANGED <<busVars, deviceVars, ep0, hpend>>

\* DCONNI shows a device, and still does when it was pulled on a suspended bus.
WaitForConnect ==
    \/ /\ plugged \/ "DDISCI" \in hpend
       /\ Store("WaitForConnect",
                [NonBlockWait("DoReset") EXCEPT !.enabled = @ \cup {"VBERRI"}])
       /\ hpend' = hpend \ {"DDISCI", "VBERRI"}
       /\ bus' = "active"
       /\ UNCHANGED <<plugged, deviceVars, ep0>>
    \/ /\ ~plugged /\ Store("WaitForConnect", host)
       /\ UNCHANGED <<busVars, deviceVars, ep0, hpend>>

DoReset ==
    /\ Case("DoReset") /\ hpc' = "idle"
    /\ ResetDevice("ConfigPipe")
    /\ past' = [past EXCEPT !.timeout = FALSE]
    /\ UNCHANGED <<ctl, cable>>

ConfigPipe == /\ Store("ConfigPipe", Becomes("Default"))
              /\ UNCHANGED <<busVars, deviceVars, ep0, hpend>>

Default ==
    \/ Case("Default") /\ Begin(Request("DescriptorSize", 0)) /\ UNCHANGED hpc
    \/ Returns("Default", TRUE) /\ ResetDevice("PostReset")
    \/ Returns("Default", FALSE) /\ Fail /\ UNCHANGED ep0

PostReset ==
    \/ Case("PostReset") /\ Begin(Request("SetAddress", 1)) /\ UNCHANGED hpc
    \/ /\ Returns("PostReset", TRUE)
       /\ host' = NonBlockWait("PostAddressSet")
       /\ UNCHANGED <<busVars, deviceVars, ep0, hpend>>
    \/ Returns("PostReset", FALSE) /\ Fail /\ UNCHANGED ep0

PostAddressSet ==
    /\ Store("PostAddressSet", [Becomes("Addressed") EXCEPT !.address = TRUE])
    /\ UNCHANGED <<busVars, deviceVars, ep0, hpend>>

HostTask == \/ Switch \/ WaitForDevice \/ Powered \/ Settled \/ WaitForConnect
            \/ DoReset \/ ConfigPipe \/ Default \/ PostReset \/ PostAddressSet

-----------------------------------------------------------------------------
(* The host's application.                                                 *)

Enumerated == host.state \in {"Addressed", "Configured"}

Asks(r) ==
    /\ Case("idle") /\ Enumerated
    /\ hpc' = "request" /\ Begin(r)

\* USB_Host_SetDeviceConfiguration stores the configuration that was accepted.
StoreConfiguration(r) ==
    IF r.kind = "SetConfiguration"
      THEN [host EXCEPT !.config = r.arg,
                        !.state = IF r.arg # 0 THEN "Configured" ELSE "Addressed"]
      ELSE host

Answered ==
    /\ \/ Returns("request", TRUE) /\ host' = StoreConfiguration(ctl.req)
       \/ Returns("request", FALSE) /\ host' = host
    /\ bus' = IF ctl.suspended THEN "idle" ELSE bus
    /\ UNCHANGED <<plugged, deviceVars, ep0, hpend>>

\* USB_Host_SuspendBus and, milliseconds later, USB_Host_ResumeBus.
DriveBus ==
    /\ Case("idle") /\ Enumerated
    /\ \/ bus = "active" /\ bus' = "idle"
       \/ bus = "idle" /\ DeviceWaits /\ bus' = "active"
    /\ UNCHANGED <<plugged, deviceVars, ep0, cable, hostVars, past>>

AppRequests == {r \in Requests : r.kind \notin {"DescriptorSize", "SetAddress"}}

Device == \/ Interrupt /\ UNCHANGED <<cable, hostVars, past>>
          \/ DeviceTask /\ UNCHANGED <<cable, hostVars, past>>
HostMain == Transfer \/ HostTask \/ Answered

Next == \/ HostInterrupt \/ Device \/ HostMain
        \/ \E r \in AppRequests : Asks(r)
        \/ DriveBus \/ Plug \/ Unplug \/ PowerLost \/ Dip

Spec == /\ Init /\ [][Next]_vars
        /\ WF_vars(HostInterrupt) /\ WF_vars(HostMain)
        /\ WF_vars(Interrupt /\ UNCHANGED <<cable, hostVars, past>>)
        /\ WF_vars(DeviceTask /\ UNCHANGED <<cable, hostVars, past>>)

-----------------------------------------------------------------------------
(* Properties.                                                             *)

\* Types of the state of both ends: USB_HostState and USB_DeviceState hold
\* states of their enumerations, no configuration the device does not have
\* is ever stored.
TypeOK ==
    /\ plugged \in BOOLEAN /\ bus \in {"active", "idle"} /\ cable \in BOOLEAN
    /\ dev.state \in DeviceStates /\ dev.config \in 0..NumberOfConfigurations
    /\ dev.addressed \in BOOLEAN /\ dev.enabled \subseteq {"SUSPI", "WAKEUPI"}
    /\ pend \subseteq Flags
    /\ ep0.setup \in Requests \cup {None}
    /\ host.state \in HostStates /\ host.post \in HostStates
    /\ host.config \in 0..NumberOfConfigurations
    /\ host.enabled \subseteq {"SRPI", "DDISCI", "VBERRI"}
    /\ hpc \in HostStates \cup {"idle", "request"}

\* What the host's application may rely on between two requests: when
\* USB_HostState says that the device in the socket is addressed or configured
\* and no disconnection waits to be noticed, the device has the address, the
\* configuration number of the device is USB_Host_ConfigurationNumber, and on an
\* active bus USB_DeviceState gets to what the host believes it is.  Refused and
\* failed requests, suspending and devices pulled, put back or exchanged while
\* the bus is active do not break it.  A device exchanged on a suspended bus is
\* noticed when the bus is resumed; an answer that came too late is not.
EnumeratedAgrees ==
    Enumerated /\ hpc = "idle" /\ HostReady /\ plugged /\ "DDISCI" \notin hpend
    /\ ~past.timeout
        => /\ dev.addressed /\ dev.config = host.config
           /\ bus = "active" /\ dpc = "idle" /\ ~InterruptDue =>
                /\ dev.state \in {"Addressed", "Configured"}
                /\ host.config # 0 => dev.state = "Configured"

\* A descriptor shorter than the buffer of USB_Host_GetDescriptor arrives: the
\* request does not time out when the device is not late.
ShortDescriptorArrives ==
    ctl.stage = "timeout" /\ ctl.req.kind = "GetDescriptor" => past.late

\* The host's main loop always comes back: every wait of a request ends.
HostReturns == hpc # "idle" ~> hpc = "idle"

\* Every request is begun, answered in time and read to its end, and VBUS is
\* not switched off during one that was made on a suspended bus: the bus would
\* be suspended again, and nothing would switch VBUS on.
Orderly == /\ ~past.late /\ ~past.cut
           /\ ctl.req # Request("GetDescriptor", 1)
           /\ ~(ctl.suspended /\ ~host.vbus)

\* As long as the requests are orderly, a device that stays in the socket gets
\* enumerated, also after unplugging, voltage dips and refused requests, and
\* also when it was exchanged on a bus that is then resumed.
HostRecovers ==
    <>[]cable /\ []Orderly
        => []<>(Enumerated /\ (bus = "active" => plugged /\ dev.addressed))

\* USB_DeviceTask returns as long as the host reads its requests to the end
\* and the cable is put back, even if it was pulled while SET_ADDRESS had
\* turned interrupts off.
DeviceReturns == <>[]cable /\ []Orderly => []<>(dpc = "idle")
=============================================================================
