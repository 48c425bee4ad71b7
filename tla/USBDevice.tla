----------------------------- MODULE USBDevice -----------------------------
(***************************************************************************)
(* LUFA's device side: the interrupt handler that follows the bus          *)
(* (USBInterrupt_AVR8.c), the main loop's USB_DeviceTask and the standard  *)
(* control requests it serves (DeviceStandardReq.c).                       *)
(*                                                                         *)
(* The control endpoint is one record: a SETUP packet not read yet, the    *)
(* packet waiting for the host's IN, an OUT packet not read yet, a stall.  *)
(* Interrupts are taken between any two steps of the main loop, except     *)
(* while SET_ADDRESS keeps them off.  The application handles no request   *)
(* of its own.                                                             *)
(***************************************************************************)
EXTENDS Naturals, FiniteSets

CONSTANTS
    NumberOfConfigurations,   \* of the device descriptor
    None                      \* no packet, no request

ASSUME USBDeviceAssumption == NumberOfConfigurations \in Nat

VARIABLES
    plugged,   \* VBUS, and with it the cable
    bus,       \* "active" or "idle", as the host drives it
    dev,       \* USB_DeviceState, USB_Device_ConfigurationNumber, the
               \* address register, and which of SUSPI, WAKEUPI is enabled
    pend,      \* interrupt flags not served yet
    ep0,       \* the control endpoint
    dpc,       \* where USB_DeviceTask is
    target     \* the state SET_CONFIGURATION is about to store

deviceVars == <<dev, pend, dpc, target>>
busVars == <<plugged, bus>>

DeviceStates == {"Unattached", "Powered", "Default", "Addressed",
                 "Configured", "Suspended"}
Flags == {"VBUSTI", "EORSTI"}

\* Standard requests: the kind, and the argument that matters.  GetDescriptor
\* asks for just the length of the descriptor, or has room for more.
Request(kind, arg) == [kind |-> kind, arg |-> arg]
Requests ==
    {Request(k, 0) : k \in {"GetStatus", "GetConfiguration", "DescriptorSize",
                            "ClearHalt", "Other"}}
    \cup {Request("GetDescriptor", room) : room \in {0, 1}}
    \cup {Request("SetAddress", 1)}
    \cup {Request("SetConfiguration", n) : n \in 0..NumberOfConfigurations + 1}

ASSUME NoneAssumption == None \notin Requests

Status(selfPowered) == [status |-> selfPowered]
ConfigurationIs(n) == [configuration |-> n]
Descriptor == [descriptor |-> 8]
ZLP == [length |-> 0]

Quiet == [setup |-> None, in |-> None, out |-> FALSE, stall |-> FALSE]

\* USB_Init_Device
NewDevice == [state |-> "Unattached", config |-> 0, addressed |-> FALSE,
              enabled |-> {"SUSPI"}]

InitDevice ==
    /\ dev = NewDevice
    /\ pend = {} /\ ep0 = Quiet /\ dpc = "idle" /\ target = "Unattached"
    /\ plugged = FALSE /\ bus = "active"

-----------------------------------------------------------------------------
(* ISR(USB_GEN_vect): every flag that is set and enabled, in this order.   *)

OnVBUS(d) ==
    IF "VBUSTI" \in pend
      THEN [d EXCEPT !.state = IF plugged THEN "Powered" ELSE "Unattached"]
      ELSE d

OnSuspend(d) ==
    IF plugged /\ bus = "idle" /\ "SUSPI" \in d.enabled
      THEN [d EXCEPT !.state = "Suspended",
                     !.enabled = (@ \ {"SUSPI"}) \cup {"WAKEUPI"}]
      ELSE d

\* The state after a wake-up, and after SET_CONFIGURATION.
Woken(d) ==
    IF d.config # 0 \/ d.addressed THEN "Configured" ELSE "Powered"

OnWakeUp(d) ==
    IF plugged /\ bus = "active" /\ "WAKEUPI" \in d.enabled
      THEN [d EXCEPT !.state = Woken(d),
                     !.enabled = (@ \ {"WAKEUPI"}) \cup {"SUSPI"}]
      ELSE d

\* Mutant: a reset device keeps its configuration number.
OnResetConfigured(d) ==
    IF "EORSTI" \in pend
      THEN [d EXCEPT !.state = "Default",
                     !.enabled = (@ \ {"SUSPI"}) \cup {"WAKEUPI"}]
      ELSE d

OnReset(d) ==
    IF "EORSTI" \in pend
      THEN [d EXCEPT !.state = "Default", !.config = 0,
                     !.enabled = (@ \ {"SUSPI"}) \cup {"WAKEUPI"}]
      ELSE d

\* Interrupts are off between the two halves of SET_ADDRESS.
InterruptsOn == dpc # "address"

Served == OnReset(OnWakeUp(OnSuspend(OnVBUS(dev))))

InterruptDue == InterruptsOn /\ <<Served, {}>> # <<dev, pend>>

Interrupt ==
    /\ InterruptDue
    /\ dev' = Served /\ pend' = {}
    /\ UNCHANGED <<busVars, ep0, dpc, target>>

-----------------------------------------------------------------------------
(* USB_DeviceTask: USB_Device_ProcessControlRequest and the handlers.      *)

\* Endpoint_ClearSETUP, and a packet handed to Endpoint_ClearIN.
Answer(packet) == ep0' = [ep0 EXCEPT !.setup = None, !.in = packet]

Busy(next) == dpc' = next /\ UNCHANGED <<dev, pend, target>>

Handle(kind) ==
    /\ dpc = "idle" /\ dev.state # "Unattached"
    /\ ep0.setup # None /\ ep0.setup.kind = kind
    /\ UNCHANGED busVars

\* The end of USB_Device_ProcessControlRequest, with the endpoint as the handler
\* left it: Endpoint_StallTransaction and Endpoint_ClearSETUP for a SETUP packet
\* that is still, or again, there.
Return(e) ==
    /\ dpc' = "idle"
    /\ ep0' = IF e.setup # None THEN [e EXCEPT !.setup = None, !.stall = TRUE] ELSE e

\* Both end in Endpoint_ClearStatusStage, waiting for the host's OUT.
GetStatus == Handle("GetStatus") /\ Answer(Status(1)) /\ Busy("status")
GetConfiguration ==
    /\ Handle("GetConfiguration")
    /\ Answer(ConfigurationIs(dev.config))
    /\ Busy("status")

\* Endpoint_Write_Control_Stream_LE: a full packet leaves it in its first
\* loop, which wants to add an empty packet; a short one in its second.
GetDescriptor ==
    \/ Handle("DescriptorSize") /\ Answer(Descriptor) /\ Busy("stream")
    \/ Handle("GetDescriptor") /\ Answer(Descriptor) /\ Busy("streamed")

\* GlobalInterruptDisable, and the status stage is queued.
SetAddress == Handle("SetAddress") /\ Answer(ZLP) /\ Busy("address")

\* Only when the host has taken the status stage does the address change.
AddressSet ==
    /\ dpc = "address" /\ ep0.in = None
    /\ dev' = [dev EXCEPT !.addressed = TRUE, !.state = "Addressed"]
    /\ Return(ep0)
    /\ UNCHANGED <<busVars, pend, target>>

KnownConfiguration(n) == n =< NumberOfConfigurations

\* The status stage is queued without waiting for the host to take it.
SetConfiguration ==
    /\ Handle("SetConfiguration")
    /\ KnownConfiguration(ep0.setup.arg)
    /\ Answer(ZLP)
    /\ dev' = [dev EXCEPT !.config = ep0.setup.arg]
    /\ dpc' = "configure"
    /\ UNCHANGED <<pend, target>>

\* The test of USB_Device_ConfigurationNumber, which a reset may have cleared.
TestConfiguration ==
    /\ dpc = "configure" /\ dpc' = "configured"
    /\ target' = Woken(dev)
    /\ UNCHANGED <<busVars, ep0, dev, pend>>

\* The assignment, and EVENT_USB_Device_ConfigurationChanged.
Configured ==
    /\ dpc = "configured"
    /\ dev' = [dev EXCEPT !.state = target]
    /\ Return(ep0)
    /\ UNCHANGED <<busVars, pend, target>>

\* The stall bits of the other endpoints are not modelled.
ClearFeature == Handle("ClearHalt") /\ Answer(ZLP) /\ Busy("idle")

\* No handler took the SETUP packet.
Stall ==
    /\ \/ Handle("Other")
       \/ Handle("SetConfiguration") /\ ~KnownConfiguration(ep0.setup.arg)
    /\ Return(ep0)
    /\ UNCHANGED <<dev, pend, target>>

\* The first loop of the control stream.
Stream ==
    /\ dpc = "stream"
    /\ \/ /\ dev.state \in {"Unattached", "Suspended"} \/ ep0.setup # None
             \/ ep0.out
          /\ Return([ep0 EXCEPT !.out = FALSE])
       \/ /\ dev.state \notin {"Unattached", "Suspended"} /\ ep0.setup = None
          /\ ~ep0.out /\ ep0.in = None
          /\ dpc' = "streamed" /\ ep0' = [ep0 EXCEPT !.in = ZLP]
    /\ UNCHANGED <<busVars, dev, pend, target>>

\* Its second loop: it does not look for a new SETUP packet.
Streamed ==
    /\ dpc = "streamed"
    /\ ep0.out \/ dev.state \in {"Unattached", "Suspended"}
    /\ Return([ep0 EXCEPT !.out = FALSE])
    /\ UNCHANGED <<busVars, dev, pend, target>>

\* Mutant: only a disconnection ends the wait, not the host's packet.
StatusOverDeaf == dev.state = "Unattached"

StatusOver == ep0.out \/ dev.state = "Unattached"

\* Endpoint_ClearStatusStage of a request that sends data.
ClearStatusStage ==
    /\ dpc = "status" /\ StatusOver
    /\ Return([ep0 EXCEPT !.out = FALSE])
    /\ UNCHANGED <<busVars, dev, pend, target>>

\* An interrupt that is due comes before the next step of the main loop.
DeviceTask ==
    /\ ~InterruptDue
    /\ \/ GetStatus \/ GetConfiguration \/ GetDescriptor
       \/ SetAddress \/ AddressSet
       \/ SetConfiguration \/ TestConfiguration \/ Configured
       \/ ClearFeature \/ Stall \/ Stream \/ Streamed \/ ClearStatusStage

\* Nothing happens in the device until the host does something: DeviceTask is
\* not enabled.
DeviceWaits ==
    /\ ~InterruptDue
    /\ CASE dpc = "idle" -> ep0.setup = None \/ dev.state = "Unattached"
         [] dpc = "address" -> ep0.in # None
         [] dpc = "status" -> ~StatusOver
         [] dpc = "stream" -> /\ ep0.in # None /\ ~ep0.out /\ ep0.setup = None
                              /\ dev.state \notin {"Unattached", "Suspended"}
         [] dpc = "streamed" -> /\ ~ep0.out
                                /\ dev.state \notin {"Unattached", "Suspended"}
         [] OTHER -> FALSE
=============================================================================
