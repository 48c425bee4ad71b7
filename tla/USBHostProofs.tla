--------------------------- MODULE USBHostProofs ---------------------------
(***************************************************************************)
(* Proofs about USBHost for any number of configurations and of faults:    *)
(* what the host believes about an enumerated device is so.                *)
(***************************************************************************)
EXTENDS USBHost, TLAPS

\* A leaf goes to Zenon unless it names another prover.
USE ZenonT(30)

-----------------------------------------------------------------------------
(* Types.                                                                   *)

Packets == {Status(1), Descriptor, ZLP}
           \cup {ConfigurationIs(n) : n \in 0..NumberOfConfigurations}

Tasks == {"idle", "status", "stream", "streamed", "address", "configure",
          "configured"}
Stages == {"none", "setup", "in", "out", "ack", "ok", "error", "timeout"}

Devices == [state : DeviceStates, config : 0..NumberOfConfigurations,
            addressed : BOOLEAN, enabled : SUBSET {"SUSPI", "WAKEUPI"}]

Endpoints == [setup : Requests \cup {None}, in : Packets \cup {None},
              out : BOOLEAN, stall : BOOLEAN]

Hosts == [state : HostStates, post : HostStates, config : Nat,
          address : BOOLEAN, enabled : SUBSET {"SRPI", "DDISCI", "VBERRI"},
          vbus : BOOLEAN]

DeviceTypes ==
    /\ plugged \in BOOLEAN /\ bus \in {"active", "idle"}
    /\ dev \in Devices /\ pend \in SUBSET Flags
    /\ dpc \in Tasks /\ target \in DeviceStates

Ep0Types == ep0 \in Endpoints

HostTypes ==
    /\ cable \in BOOLEAN /\ host \in Hosts
    /\ hpend \subseteq {"DDISCI", "VBERRI"}
    /\ hpc \in HostStates \cup {"idle", "request"}

Transfers == [req : Requests \cup {None}, stage : Stages, suspended : BOOLEAN]
CtlTypes == ctl \in Transfers

Pasts == [faults : Nat, late : BOOLEAN, timeout : BOOLEAN, cut : BOOLEAN]
PastTypes == past \in Pasts

Types == DeviceTypes /\ Ep0Types /\ HostTypes /\ CtlTypes /\ PastTypes

-----------------------------------------------------------------------------
(* The invariant.                                                           *)

\* The device has power when it is connected and the host's VBUS is on, and the
\* host looks for disconnections unless it waits for a device to be attached.
Wiring ==
    /\ plugged <=> cable /\ host.vbus
    /\ "SRPI" \notin host.enabled => "DDISCI" \in host.enabled

\* A request resumes the bus.
Driven == ctl.stage # "none" => bus = "active"

\* Requests are sent from three places, each its own kind.
Requesting ==
    /\ hpc \notin {"Default", "PostReset", "request"} => ctl.stage = "none"
    /\ hpc = "PostReset" /\ ctl.stage # "none" =>
         ctl.req = Request("SetAddress", 1) /\ ctl.stage \notin {"in", "out"}
    /\ hpc = "request" =>
         /\ ctl.stage # "none" /\ ctl.req \in Requests
         /\ ctl.req.kind \notin {"DescriptorSize", "SetAddress"}
         /\ ctl.req.kind = "SetConfiguration" => ctl.stage \notin {"in", "out"}

\* A SETUP packet clears the endpoint, and nothing happens to it before the
\* packet is read.
SetupAlone == ep0.setup # None => ep0.in = None /\ ~ep0.out /\ ~ep0.stall

\* A request that timed out is remembered until the next enumeration.
Noted == ctl.stage = "timeout" => past.timeout

\* Since the host attached a device it has neither been reset nor switched VBUS
\* off.
Attached == "SRPI" \notin host.enabled /\ host.vbus

\* Then no interrupt has changed USB_HostState under the main loop's feet.
InCase ==
    Attached => /\ host.state # "Unattached"
                /\ hpc \in HostStates => host.state = hpc
                /\ hpc = "request" => Enumerated
                /\ host.state = "WaitForDevice" =>
                     host.post \in {"DoReset", "ConfigPipe", "PostReset",
                                   "PostAddressSet"}

\* The second bus reset is still to come.
Early == \/ host.state \in {"Powered", "Settle", "WaitForConnect", "DoReset",
                            "ConfigPipe", "Default"}
         \/ host.state = "WaitForDevice" /\ host.post \in {"DoReset", "ConfigPipe"}

\* A device pulled on a suspended bus whose disconnection WaitForConnect cleared
\* is missed at the next request.
Missed == Attached /\ ~cable /\ "DDISCI" \notin hpend
Unnoticed == Missed => Early /\ ctl.stage \in {"none", "setup", "error"}

\* The device has been in the socket since the host attached it, or else since
\* before the second bus reset.
Session == "SRPI" \notin host.enabled /\ plugged /\ "DDISCI" \notin hpend

\* A step during which neither the cable, VBUS nor the attachment changes.
Calm ==
    /\ UNCHANGED <<plugged, cable>> /\ host'.vbus = host.vbus
    /\ host.enabled \subseteq host'.enabled
    /\ "SRPI" \in host'.enabled => "SRPI" \in host.enabled
    /\ "DDISCI" \in hpend' => "DDISCI" \in hpend
    /\ "DDISCI" \in hpend => \/ "DDISCI" \in hpend'
                             \/ Early' /\ ctl'.stage = "none"
                             \/ plugged /\ HostReady /\ ctl.stage # "none"

\* The device after the second reset, which it may not have served yet.
WasReset ==
    /\ host.config = 0 /\ ep0.setup = None
    /\ dpc \in {"address", "stream"} => ep0.in = None
    /\ dev.config = 0 \/ "EORSTI" \in pend

\* No interrupt flag is set, and no packet is left to come from the last stream.
Steady == dpc # "stream" /\ pend = {}

\* USB_DeviceState of a device with an address, as far as the interrupts and
\* SET_CONFIGURATION are through with it.
Fit ==
    /\ dpc # "address"
    /\ dev.state \in {"Addressed", "Configured", "Suspended"}
    /\ dev.state = "Suspended" => "WAKEUPI" \in dev.enabled
    /\ dpc = "configured" => target = "Configured"
    /\ dev.config # 0 /\ dpc \notin {"configure", "configured"} =>
         dev.state # "Addressed"

\* The status stage of SET_ADDRESS was read: the address is about to be taken,
\* or was.
Taken == \/ dpc = "address" /\ ep0.in = None
         \/ dev.addressed /\ Fit

\* SET_ADDRESS is about to be sent, is on its way, is taken.
Addressing ==
    /\ host.config = 0 /\ dev.config = 0 /\ Steady
    /\ ep0.setup \in {None, Request("SetAddress", 1)}
    /\ ctl.stage \in {"none", "setup"} => ep0.setup = None
    /\ ctl.stage = "ack" => ep0.setup # None \/ dpc = "address" \/ ep0.in = None
    /\ ctl.stage = "ok" => ep0.setup = None /\ Taken

\* The device has read the status stage and is about to take the address.
AddressTaken ==
    /\ host.config = 0 /\ dev.config = 0 /\ Steady /\ ep0.setup = None
    /\ Taken

\* A request of the application is on its way, refused, or accepted.
Underway(r) ==
    /\ ep0.setup \in {None, r}
    /\ \/ /\ dev.config = host.config
          /\ r.kind = "SetConfiguration" /\ ep0.setup = None => ep0.in = None
       \/ /\ r.kind = "SetConfiguration" /\ dev.config = r.arg
          /\ ep0.setup = None /\ ~ep0.stall

Agreed ==
    /\ host.address /\ dev.addressed /\ Steady /\ Fit
    /\ ctl.stage \in {"none", "setup", "error"} =>
         ep0.setup = None /\ dev.config = host.config
    /\ ctl.stage \in {"in", "out", "ack"} => Underway(ctl.req)
    /\ ctl.stage = "ok" =>
         /\ ep0.setup = None
         /\ dev.config = IF ctl.req.kind = "SetConfiguration" THEN ctl.req.arg
                         ELSE host.config

\* What each state of the state machine knows about the device.
Promises ==
    /\ host.state = "WaitForDevice" /\ host.post = "PostReset" => WasReset
    /\ host.state = "PostReset" => Addressing
    /\ host.state = "WaitForDevice" /\ host.post = "PostAddressSet" => AddressTaken
    /\ host.state = "PostAddressSet" => AddressTaken /\ dev.addressed /\ Fit
    /\ Enumerated => Agreed

Progress == Session /\ ~past.timeout => Promises

\* The device refuses a configuration that it does not have: no status stage
\* can make the host believe the contrary.
UnknownAsked ==
    /\ hpc = "request" /\ ctl.req.kind = "SetConfiguration"
    /\ ctl.req.arg > NumberOfConfigurations

Unaccepted ==
    UnknownAsked => /\ ctl.stage # "ok"
                    /\ ctl.stage = "ack" =>
                         /\ ep0.in = None /\ ep0.setup \in {None, ctl.req}
                         /\ ep0.setup = None => dpc # "stream"

Inv == /\ Types /\ Wiring /\ Driven /\ Requesting /\ SetupAlone /\ Noted /\ InCase
       /\ Unnoticed /\ Progress

\* What a request and the endpoint's records are made of.
LEMMA RequestFields ==
  ASSUME NEW r \in Requests
  PROVE  r.arg \in Nat /\ r = Request(r.kind, r.arg)
BY USBDeviceAssumption, SMTT(30) DEF Requests, Request

\* What the handlers answer is a packet.
LEMMA Packaged ==
  /\ Status(1) \in Packets /\ Descriptor \in Packets /\ ZLP \in Packets
  /\ \A n \in 0..NumberOfConfigurations : ConfigurationIs(n) \in Packets
BY DEF Packets

\* A cleared control endpoint is one.
LEMMA QuietTypes == Quiet \in Endpoints
BY DEF Quiet, Endpoints

\* A device fresh from USB_Init_Device is one.
LEMMA NewTypes == NewDevice \in Devices
<1>1. 0 \in 0..NumberOfConfigurations
  BY USBDeviceAssumption, SMTT(30)
<1> QED
  BY <1>1 DEF NewDevice, Devices, DeviceStates

\* An endpoint is one after each thing that the handlers and the host do to it.
LEMMA Ep0Steps ==
  ASSUME NEW e \in Endpoints, NEW r \in Requests \cup {None},
         NEW p \in Packets \cup {None}, NEW b \in BOOLEAN
  PROVE  /\ [Quiet EXCEPT !.setup = r] \in Endpoints
         /\ [e EXCEPT !.setup = r, !.in = p] \in Endpoints
         /\ [e EXCEPT !.in = p] \in Endpoints
         /\ [e EXCEPT !.out = b] \in Endpoints
         /\ [e EXCEPT !.setup = r, !.stall = TRUE] \in Endpoints
BY DEF Quiet, Endpoints

\* So is one that a handler returns with: a SETUP packet is gone, what waits for
\* the host's IN is not, and without a SETUP packet nothing changes.
LEMMA Returning ==
  ASSUME NEW e \in Endpoints, Return(e)
  PROVE  /\ ep0' \in Endpoints /\ dpc' = "idle" /\ ep0'.setup = None
         /\ ep0'.in = e.in /\ ep0'.out = e.out
         /\ e.setup # None => ep0'.stall
         /\ e.setup = None => ep0' = e
<1>1. CASE e.setup = None
  BY <1>1 DEF Return
<1>2. CASE e.setup # None
  <2>1. ep0' = [e EXCEPT !.setup = None, !.stall = TRUE] /\ dpc' = "idle"
    BY <1>2 DEF Return
  <2> QED
    BY <1>2, <2>1 DEF Endpoints
<1> QED
  BY <1>1, <1>2

\* Each part of the interrupt handler keeps the address, and only the part for
\* a reset changes the configuration.
LEMMA ServedParts ==
  ASSUME NEW d \in Devices, plugged \in BOOLEAN
  PROVE  /\ OnVBUS(d) \in Devices
         /\ OnVBUS(d).config = d.config /\ OnVBUS(d).addressed = d.addressed
         /\ OnSuspend(d) \in Devices
         /\ OnSuspend(d).config = d.config /\ OnSuspend(d).addressed = d.addressed
         /\ OnWakeUp(d) \in Devices
         /\ OnWakeUp(d).config = d.config /\ OnWakeUp(d).addressed = d.addressed
         /\ OnReset(d) \in Devices
         /\ OnReset(d).config = (IF "EORSTI" \in pend THEN 0 ELSE d.config)
         /\ OnReset(d).addressed = d.addressed
<1>1. /\ OnVBUS(d) \in Devices
      /\ OnVBUS(d).config = d.config /\ OnVBUS(d).addressed = d.addressed
  BY DEF OnVBUS, Devices, DeviceStates
<1>2. /\ OnSuspend(d) \in Devices
      /\ OnSuspend(d).config = d.config /\ OnSuspend(d).addressed = d.addressed
  BY DEF OnSuspend, Devices, DeviceStates
<1>3. /\ OnWakeUp(d) \in Devices
      /\ OnWakeUp(d).config = d.config /\ OnWakeUp(d).addressed = d.addressed
  BY DEF OnWakeUp, Woken, Devices, DeviceStates
<1>4. /\ OnReset(d) \in Devices
      /\ OnReset(d).config = (IF "EORSTI" \in pend THEN 0 ELSE d.config)
      /\ OnReset(d).addressed = d.addressed
  <2>1. 0 \in 0..NumberOfConfigurations
    BY USBDeviceAssumption, SMTT(30)
  <2> QED
    BY <2>1 DEF OnReset, Devices, DeviceStates
<1> QED
  BY <1>1, <1>2, <1>3, <1>4

\* So the whole handler keeps the address, and clears the configuration only
\* after a reset.
LEMMA ServedDevice ==
  ASSUME DeviceTypes
  PROVE  /\ Served \in Devices /\ Served.addressed = dev.addressed
         /\ Served.config = IF "EORSTI" \in pend THEN 0 ELSE dev.config
<1> DEFINE a == OnVBUS(dev)
           b == OnSuspend(a)
           c == OnWakeUp(b)
<1>1. dev \in Devices /\ plugged \in BOOLEAN
  BY DEF DeviceTypes
<1>2. a \in Devices /\ a.config = dev.config /\ a.addressed = dev.addressed
  BY <1>1, ServedParts
<1> HIDE DEF a
<1>3. b \in Devices /\ b.config = a.config /\ b.addressed = a.addressed
  BY <1>1, <1>2, ServedParts
<1> HIDE DEF b
<1>4. c \in Devices /\ c.config = b.config /\ c.addressed = b.addressed
  BY <1>1, <1>3, ServedParts
<1> HIDE DEF c
<1>5. /\ OnReset(c) \in Devices /\ OnReset(c).addressed = c.addressed
      /\ OnReset(c).config = IF "EORSTI" \in pend THEN 0 ELSE c.config
  BY <1>1, <1>4, ServedParts
<1>6. Served = OnReset(c)
  BY DEF Served, a, b, c
<1> QED
  BY <1>2, <1>3, <1>4, <1>5, <1>6

\* What the steps do to the host's globals, the transfer and the history.
LEMMA HostSteps ==
  ASSUME NEW h \in Hosts, NEW s \in HostStates, NEW t \in HostStates, NEW c \in Nat,
         NEW b \in BOOLEAN, NEW E \in SUBSET {"SRPI", "DDISCI", "VBERRI"}
  PROVE  /\ [h EXCEPT !.state = s] \in Hosts
         /\ [h EXCEPT !.state = s, !.post = t] \in Hosts
         /\ [h EXCEPT !.state = s, !.enabled = E] \in Hosts
         /\ [h EXCEPT !.enabled = E] \in Hosts
         /\ [h EXCEPT !.address = b] \in Hosts
         /\ [h EXCEPT !.config = c, !.enabled = E] \in Hosts
         /\ [h EXCEPT !.config = c, !.state = s] \in Hosts
BY DEF Hosts

\* A transfer that begins or goes to another stage is a transfer.
LEMMA TransferSteps ==
  ASSUME NEW c \in Transfers, NEW r \in Requests \cup {None}, NEW s \in Stages,
         NEW b \in BOOLEAN
  PROVE  /\ [c EXCEPT !.stage = s] \in Transfers
         /\ [req |-> r, stage |-> s, suspended |-> b] \in Transfers
BY DEF Transfers

\* What a step leaves alone keeps its type.
LEMMA FrameTypes ==
  ASSUME Types
  PROVE  /\ UNCHANGED <<busVars, deviceVars>> => DeviceTypes'
         /\ UNCHANGED ep0 => Ep0Types'
         /\ UNCHANGED <<cable, host, hpend, hpc>> => HostTypes'
         /\ UNCHANGED ctl => CtlTypes'
         /\ UNCHANGED past => PastTypes'
BY DEF Types, busVars, deviceVars, DeviceTypes, Ep0Types, HostTypes, CtlTypes, PastTypes

\* The device's main loop.
LEMMA DeviceTaskTypes ==
  ASSUME Types, DeviceTask PROVE DeviceTypes' /\ Ep0Types'
<1>0. DeviceTypes /\ Ep0Types /\ dev \in Devices /\ ep0 \in Endpoints
      /\ dev.config \in 0..NumberOfConfigurations
  BY DEF Types, DeviceTypes, Ep0Types, Devices
<1>1. ASSUME NEW p \in Packets \cup {None}, Answer(p) PROVE Ep0Types'
  BY <1>0, <1>1, Ep0Steps DEF Answer, Ep0Types
<1>2. ASSUME NEW t \in Tasks, Busy(t), UNCHANGED busVars PROVE DeviceTypes'
  BY <1>0, <1>2 DEF Busy, DeviceTypes, busVars
<1>3. {"idle", "status", "stream", "streamed", "address", "configure",
       "configured"} = Tasks
  BY DEF Tasks
<1>4. CASE GetStatus \/ GetConfiguration \/ GetDescriptor \/ SetAddress \/ ClearFeature
  <2>1. UNCHANGED busVars
    BY <1>4 DEF GetStatus, GetConfiguration, GetDescriptor, SetAddress, ClearFeature,
       Handle
  <2>2. \E t \in Tasks : Busy(t)
    BY <1>3, <1>4 DEF GetStatus, GetConfiguration, GetDescriptor, SetAddress,
       ClearFeature
  <2>3. \E p \in Packets \cup {None} : Answer(p)
    BY <1>0, <1>4, Packaged DEF GetStatus, GetConfiguration, GetDescriptor,
       SetAddress, ClearFeature
  <2> QED
    BY <1>1, <1>2, <2>1, <2>2, <2>3
<1>5. CASE AddressSet
  <2>1. [dev EXCEPT !.addressed = TRUE, !.state = "Addressed"] \in Devices
    BY <1>0 DEF Devices, DeviceStates
  <2> QED
    BY <1>0, <1>5, <2>1, Returning DEF AddressSet, DeviceTypes, Tasks, busVars, Ep0Types
<1>6. CASE SetConfiguration
  <2>1. ep0.setup.arg \in 0..NumberOfConfigurations
    <3>1. ep0.setup \in Requests
      BY <1>0, <1>6 DEF SetConfiguration, Handle, Endpoints
    <3> QED
      BY <1>6, <3>1, RequestFields, USBDeviceAssumption, SMTT(30) DEF SetConfiguration,
         KnownConfiguration
  <2>2. [dev EXCEPT !.config = ep0.setup.arg] \in Devices
    BY <1>0, <2>1 DEF Devices
  <2>3. Ep0Types'
    BY <1>1, <1>6, Packaged DEF SetConfiguration
  <2> QED
    BY <1>0, <1>6, <2>2, <2>3 DEF SetConfiguration, Handle, DeviceTypes, Tasks, busVars
<1>7. CASE TestConfiguration
  BY <1>0, <1>7 DEF TestConfiguration, Woken, DeviceTypes, DeviceStates, Tasks, busVars,
     Ep0Types
<1>8. CASE Configured
  <2>1. [dev EXCEPT !.state = target] \in Devices
    BY <1>0 DEF Devices, DeviceTypes
  <2> QED
    BY <1>0, <1>8, <2>1, Returning DEF Configured, DeviceTypes, Tasks, busVars, Ep0Types
<1>9. CASE Stall
  BY <1>0, <1>9, Returning DEF Stall, Handle, DeviceTypes, Tasks, busVars, Ep0Types
<1>10. CASE Stream \/ Streamed \/ ClearStatusStage
  <2>1. UNCHANGED <<busVars, dev, pend, target>> /\ dpc' \in Tasks
    BY <1>10 DEF Stream, Streamed, ClearStatusStage, Return, Tasks
  <2>2. [ep0 EXCEPT !.out = FALSE] \in Endpoints /\ [ep0 EXCEPT !.in = ZLP] \in Endpoints
    BY <1>0, Packaged DEF Endpoints
  <2>3. ep0' \in Endpoints
    BY <1>10, <2>2, Returning DEF Stream, Streamed, ClearStatusStage
  <2> QED
    BY <1>0, <2>1, <2>3 DEF DeviceTypes, busVars, Ep0Types
<1> QED
  BY <1>4, <1>5, <1>6, <1>7, <1>8, <1>9, <1>10 DEF DeviceTask

\* VBUS, USB_ResetInterface and a bus reset keep the types.
LEMMA PowerTypes ==
  ASSUME Types, NEW on \in BOOLEAN, Power(on), bus' \in {"active", "idle"}
  PROVE  DeviceTypes' /\ plugged' = on /\ UNCHANGED <<dev, dpc>>
<1>1. pend' \in SUBSET Flags
  BY DEF Types, DeviceTypes, Power, Flags
<1> QED
  BY <1>1 DEF Types, DeviceTypes, Power

\* USB_ResetInterface leaves a host that waits for a device to be attached.
LEMMA ResetInterfaceTypes ==
  ASSUME Types, ResetInterface
  PROVE  /\ DeviceTypes' /\ host' \in Hosts /\ hpend' = {}
         /\ host'.enabled = {"SRPI"} /\ host'.vbus /\ plugged' = cable
<1>1. /\ Power(cable) /\ cable \in BOOLEAN /\ host \in Hosts /\ hpend' = {}
      /\ bus' = "active"
  BY DEF Types, HostTypes, ResetInterface
<1>2. host' = [host EXCEPT !.state = "Unattached", !.config = 0,
                           !.address = FALSE, !.enabled = {"SRPI"}, !.vbus = TRUE]
  BY DEF ResetInterface
<1>3. host' \in Hosts /\ host'.enabled = {"SRPI"} /\ host'.vbus
  <2>1. 0 \in Nat /\ {"SRPI"} \in SUBSET {"SRPI", "DDISCI", "VBERRI"}
        /\ "Unattached" \in HostStates
    BY DEF HostStates
  <2> QED
    BY <1>1, <1>2, <2>1 DEF Hosts
<1> QED
  BY <1>1, <1>3, PowerTypes

\* That a request was cut off says nothing about timeouts.
LEMMA CutTypes ==
  ASSUME Types
  PROVE  /\ Cut \in Pasts /\ Cut.timeout = past.timeout /\ Cut.faults = past.faults
<1> DEFINE c == past.cut \/ ep0.setup # None \/ (plugged' /\ dpc # "idle")
<1>1. Cut = [past EXCEPT !.cut = c] /\ c \in BOOLEAN /\ past \in Pasts
  BY DEF Cut, Types, PastTypes, Pasts
<1> HIDE DEF c
<1> QED
  BY <1>1 DEF Pasts

\* A bus reset, whether or not a device is there to see it.
LEMMA ResetBusTypes ==
  ASSUME Types, ResetBus PROVE DeviceTypes' /\ Ep0Types'
<1>1. CASE plugged
  <2>1. [dev EXCEPT !.addressed = FALSE] \in Devices
    BY DEF Types, DeviceTypes, Devices
  <2>2. pend \cup {"EORSTI"} \in SUBSET Flags
    BY DEF Types, DeviceTypes, Flags
  <2> QED
    BY <1>1, <2>1, <2>2, QuietTypes DEF Types, ResetBus, DeviceTypes, Ep0Types
<1>2. CASE ~plugged
  BY <1>2, FrameTypes DEF ResetBus
<1> QED
  BY <1>1, <1>2

\* USB_Host_SendControlRequest.
LEMMA TransferTypes ==
  ASSUME Types, Transfer PROVE Types'
<1>0. /\ ctl \in Transfers /\ ep0 \in Endpoints /\ past \in Pasts /\ past.faults \in Nat
      /\ ctl.req \in Requests \cup {None}
  BY DEF Types, CtlTypes, Transfers, Ep0Types, PastTypes, Pasts
<1>1. /\ UNCHANGED <<busVars, deviceVars, cable, host, hpend, hpc>>
      /\ \E s \in Stages : GoTo(s)
  <2>1. {"in", "out", "ack", "ok", "error", "timeout"} \subseteq Stages
    BY DEF Stages
  <2>2. FirstStage(ctl.req) \in {"in", "out", "ack"}
    BY DEF FirstStage
  <2>3. \E s \in Stages : GoTo(s)
    BY <2>1, <2>2 DEF Transfer, SetupSent, InReceived, OutSent, AckReceived,
       WaitFails, TimesOut
  <2> QED
    BY <2>3 DEF GoTo
<1>2. ctl' \in Transfers
  BY <1>0, <1>1, TransferSteps DEF GoTo
<1>3. ep0' \in Endpoints
  <2>1. CASE SetupSent
    BY <1>0, <2>1, Ep0Steps DEF SetupSent
  <2>2. CASE InReceived \/ AckReceived
    BY <1>0, <2>2, Ep0Steps DEF InReceived, AckReceived
  <2>3. CASE OutSent
    BY <1>0, <2>3, Ep0Steps DEF OutSent
  <2>4. CASE WaitFails \/ TimesOut
    BY <1>0, <2>4 DEF WaitFails, TimesOut
  <2> QED
    BY <2>1, <2>2, <2>3, <2>4 DEF Transfer
<1>4. past' \in Pasts
  <2>1. CASE SetupSent \/ InReceived \/ OutSent \/ AckReceived
    BY <1>0, <2>1 DEF SetupSent, InReceived, OutSent, AckReceived
  <2>2. CASE WaitFails
    BY <2>2, CutTypes DEF WaitFails
  <2>3. CASE TimesOut
    <3>1. \/ past' = [past EXCEPT !.timeout = TRUE]
          \/ past' = [past EXCEPT !.faults = past.faults + 1, !.late = TRUE,
                                  !.timeout = TRUE]
      BY <2>3 DEF TimesOut
    <3>2. past.faults + 1 \in Nat
      BY <1>0, SMTT(30)
    <3> QED
      BY <1>0, <3>1, <3>2 DEF Pasts
  <2> QED
    BY <2>1, <2>2, <2>3 DEF Transfer
<1> QED
  BY <1>1, <1>2, <1>3, <1>4, FrameTypes DEF Types, Ep0Types, CtlTypes, PastTypes

\* USB_Host_ProcessNextHostState.
LEMMA HostTaskTypes ==
  ASSUME Types, HostTask PROVE Types'
<1>0. /\ host \in Hosts /\ host.enabled \subseteq {"SRPI", "DDISCI", "VBERRI"}
      /\ hpend \subseteq {"DDISCI", "VBERRI"} /\ cable \in BOOLEAN
      /\ host.post \in HostStates /\ host.state \in HostStates /\ hpc \in HostStates \cup {"idle", "request"}
      /\ past \in Pasts
  BY DEF Types, HostTypes, Hosts, PastTypes
<1>s. {"Unattached", "WaitForDevice", "Powered", "Settle", "WaitForConnect",
       "DoReset", "ConfigPipe", "Default", "PostReset", "PostAddressSet",
       "Addressed", "Configured"} = HostStates
  BY DEF HostStates
<1>1. ASSUME host' \in Hosts, hpend' \subseteq {"DDISCI", "VBERRI"}, hpc' = "idle",
             UNCHANGED cable
      PROVE  HostTypes'
  BY <1>0, <1>1 DEF HostTypes
<1>2. ASSUME NEW s \in HostStates PROVE Becomes(s) \in Hosts
  BY <1>0, HostSteps DEF Becomes, Hosts
<1>3. ASSUME NEW s \in HostStates PROVE NonBlockWait(s) \in Hosts /\ NonBlockWait(s).enabled = host.enabled
  BY <1>0, <1>s DEF NonBlockWait, Hosts
<1>4. ASSUME NEW c, NEW h \in Hosts, Store(c, h),
             UNCHANGED <<busVars, deviceVars, ep0, hpend>>
      PROVE  Types'
  <2>1. HostTypes'
    BY <1>0, <1>1, <1>4 DEF Store
  <2> QED
    BY <1>4, <2>1, FrameTypes DEF Store, Types
<1>5. ASSUME NEW s \in HostStates, ResetDevice(s)
      PROVE  /\ DeviceTypes' /\ Ep0Types' /\ host' \in Hosts
             /\ hpend' \subseteq {"DDISCI", "VBERRI"}
  <2>1. host.enabled \cup {"DDISCI"} \in SUBSET {"SRPI", "DDISCI", "VBERRI"}
    BY <1>0
  <2>2. host' = [NonBlockWait(s) EXCEPT !.config = 0,
                                        !.enabled = host.enabled \cup {"DDISCI"}]
    BY <1>3, <1>5 DEF ResetDevice
  <2>3. 0 \in Nat /\ NonBlockWait(s) \in Hosts
    BY <1>3
  <2>4. host' \in Hosts
    BY <2>1, <2>2, <2>3 DEF Hosts
  <2> QED
    BY <1>0, <1>5, <2>4, ResetBusTypes DEF ResetDevice
<1>6. ASSUME Fail PROVE /\ DeviceTypes' /\ host' \in Hosts
                        /\ hpend' \subseteq {"DDISCI", "VBERRI"}
  BY <1>0, <1>6, ResetInterfaceTypes, FrameTypes DEF Fail
<1>7. NoTransfer \in Transfers
  BY DEF NoTransfer, Transfers, Stages
<1>8. ASSUME NEW r \in Requests, Begin(r), UNCHANGED hpc PROVE Types'
  <2>1. ctl' \in Transfers
    BY <1>8 DEF Begin, Transfers, Stages
  <2>2. DeviceTypes'
    BY <1>8 DEF Begin, deviceVars, Types, DeviceTypes
  <2> QED
    BY <1>8, <2>1, <2>2, FrameTypes DEF Begin, Types, CtlTypes
<1>9. ASSUME NEW c, NEW ok, Returns(c, ok)
      PROVE  CtlTypes' /\ PastTypes' /\ hpc' = "idle" /\ cable' = cable
  BY <1>7, <1>9, FrameTypes DEF Returns, CtlTypes
<1>10. Request("DescriptorSize", 0) \in Requests /\ Request("SetAddress", 1) \in Requests
  BY DEF Requests
<1>11. CASE Switch
  <2>1. HostTypes'
    BY <1>0, <1>11 DEF Switch, HostTypes
  <2> QED
    BY <1>11, <2>1, FrameTypes DEF Switch, Types
<1>12. CASE WaitForDevice
  <2>1. CASE hpc' = "idle" /\ ResetInterface /\ UNCHANGED <<ep0, ctl, cable, past>>
    <3>1. DeviceTypes' /\ host' \in Hosts /\ hpend' = {}
      BY <2>1, ResetInterfaceTypes
    <3> QED
      BY <1>1, <2>1, <3>1, FrameTypes DEF Types
  <2>2. CASE Store("WaitForDevice", Becomes(host.post))
             /\ UNCHANGED <<busVars, deviceVars, ep0, hpend>>
    BY <1>0, <1>2, <1>4, <2>2
  <2> QED
    BY <1>12, <2>1, <2>2 DEF WaitForDevice
<1>13. CASE Powered \/ Settled \/ ConfigPipe
  BY <1>2, <1>4, <1>13, <1>s DEF Powered, Settled, ConfigPipe
<1>14. CASE PostAddressSet
  <2>1. [Becomes("Addressed") EXCEPT !.address = TRUE] \in Hosts
    <3>1. Becomes("Addressed") \in Hosts
      BY <1>2, <1>s
    <3> QED
      BY <3>1 DEF Hosts
  <2> QED
    BY <1>4, <1>14, <2>1 DEF PostAddressSet
<1>15. CASE WaitForConnect
  <2> DEFINE h == [NonBlockWait("DoReset") EXCEPT !.enabled = host.enabled \cup {"VBERRI"}]
  <2>1. h \in Hosts
    <3>1. NonBlockWait("DoReset") \in Hosts
      BY <1>3, <1>s
    <3>2. host.enabled \cup {"VBERRI"} \in SUBSET {"SRPI", "DDISCI", "VBERRI"}
      BY <1>0
    <3> QED
      BY <3>1, <3>2 DEF Hosts
  <2>2. CASE /\ Store("WaitForConnect", h) /\ hpend' = hpend \ {"DDISCI", "VBERRI"}
             /\ bus' = "active" /\ UNCHANGED <<plugged, deviceVars, ep0>>
    <3>1. HostTypes'
      BY <1>0, <1>1, <2>1, <2>2 DEF Store
    <3>2. DeviceTypes'
      BY <2>2 DEF Types, DeviceTypes, deviceVars
    <3> QED
      BY <2>2, <3>1, <3>2, FrameTypes DEF Store, Types
  <2>3. CASE Store("WaitForConnect", host) /\ UNCHANGED <<busVars, deviceVars, ep0, hpend>>
    BY <1>0, <1>4, <2>3
  <2>4. [NonBlockWait("DoReset") EXCEPT !.enabled = @ \cup {"VBERRI"}] = h
    BY <1>3, <1>s
  <2> QED
    BY <1>15, <2>2, <2>3, <2>4 DEF WaitForConnect
<1>16. CASE DoReset
  <2>1. past' \in Pasts
    BY <1>0, <1>16 DEF DoReset, Pasts
  <2>2. DeviceTypes' /\ Ep0Types' /\ host' \in Hosts /\ hpend' \subseteq {"DDISCI", "VBERRI"}
    BY <1>5, <1>16, <1>s DEF DoReset
  <2> QED
    BY <1>1, <1>16, <2>1, <2>2, FrameTypes DEF DoReset, Types, PastTypes
<1>17. CASE Default
  <2>1. CASE Begin(Request("DescriptorSize", 0)) /\ UNCHANGED hpc
    BY <1>8, <1>10, <2>1
  <2>2. CASE Returns("Default", TRUE) /\ ResetDevice("PostReset")
    BY <1>1, <1>5, <1>9, <1>s, <2>2 DEF Types
  <2>3. CASE Returns("Default", FALSE) /\ Fail /\ UNCHANGED ep0
    BY <1>1, <1>6, <1>9, <2>3, FrameTypes DEF Types
  <2> QED
    BY <1>17, <2>1, <2>2, <2>3 DEF Default
<1>18. CASE PostReset
  <2>1. CASE Begin(Request("SetAddress", 1)) /\ UNCHANGED hpc
    BY <1>8, <1>10, <2>1
  <2>2. CASE /\ Returns("PostReset", TRUE) /\ host' = NonBlockWait("PostAddressSet")
             /\ UNCHANGED <<busVars, deviceVars, ep0, hpend>>
    <3>1. host' \in Hosts
      BY <1>3, <1>s, <2>2
    <3> QED
      BY <1>0, <1>1, <1>9, <2>2, <3>1, FrameTypes DEF Types
  <2>3. CASE Returns("PostReset", FALSE) /\ Fail /\ UNCHANGED ep0
    BY <1>1, <1>6, <1>9, <2>3, FrameTypes DEF Types
  <2> QED
    BY <1>18, <2>1, <2>2, <2>3 DEF PostReset
<1> QED
  BY <1>11, <1>12, <1>13, <1>14, <1>15, <1>16, <1>17, <1>18 DEF HostTask

\* Every step keeps the types.
LEMMA StepTypes == Types /\ Requesting /\ [Next]_vars => Types'
<1> SUFFICES ASSUME Types, Requesting, [Next]_vars PROVE Types'
  OBVIOUS
<1>0. /\ host \in Hosts /\ host.enabled \subseteq {"SRPI", "DDISCI", "VBERRI"}
      /\ hpend \subseteq {"DDISCI", "VBERRI"} /\ cable \in BOOLEAN
      /\ past \in Pasts /\ past.faults \in Nat /\ ctl.req \in Requests \cup {None}
  BY DEF Types, HostTypes, Hosts, PastTypes, Pasts, CtlTypes, Transfers
<1>1. CASE DisconnectISR
  <2>1. DeviceTypes' /\ host' \in Hosts /\ hpend' = {}
    BY <1>1, ResetInterfaceTypes DEF DisconnectISR
  <2>2. HostTypes'
    BY <1>1, <2>1 DEF DisconnectISR, HostTypes, Types
  <2> QED
    BY <1>1, <2>1, <2>2, FrameTypes DEF DisconnectISR, Types
<1>2. CASE VoltageISR
  <2>1. DeviceTypes'
    BY <1>2, PowerTypes DEF VoltageISR, Types, DeviceTypes
  <2>2. PastTypes'
    BY <1>2, CutTypes DEF VoltageISR, PastTypes
  <2>3. [host EXCEPT !.state = "Unattached", !.vbus = FALSE] \in Hosts
    BY <1>0 DEF Hosts, HostStates
  <2>4. HostTypes'
    BY <1>0, <1>2, <2>3 DEF VoltageISR, HostTypes, Types
  <2> QED
    BY <1>2, <2>1, <2>2, <2>4, FrameTypes DEF VoltageISR, Types
<1>3. CASE Discharged \/ Dip
  <2>1. HostTypes'
    BY <1>0, <1>3 DEF Discharged, Dip, HostTypes, Types
  <2>2. PastTypes'
    <3>1. past.faults + 1 \in Nat
      BY <1>0, SMTT(30)
    <3>2. [past EXCEPT !.faults = past.faults + 1] \in Pasts
      BY <1>0, <3>1 DEF Pasts
    <3> QED
      BY <1>0, <1>3, <3>2 DEF Discharged, Dip, PastTypes
  <2> QED
    BY <1>3, <2>1, <2>2, FrameTypes DEF Discharged, Dip, Types
<1>4. CASE AttachISR
  <2> DEFINE E == (host.enabled \ {"SRPI"}) \cup {"DDISCI"}
  <2>1. E \in SUBSET {"SRPI", "DDISCI", "VBERRI"}
    BY <1>0
  <2>2. host' = [host EXCEPT !.state = "Powered", !.enabled = E]
    BY <1>4 DEF AttachISR
  <2> HIDE DEF E
  <2>3. host' \in Hosts
    BY <1>0, <2>1, <2>2 DEF Hosts, HostStates
  <2>4. HostTypes'
    BY <1>4, <2>3 DEF AttachISR, HostTypes, Types
  <2> QED
    BY <1>4, <2>4, FrameTypes DEF AttachISR, Types
<1>5. CASE Device
  <2>1. CASE Interrupt /\ UNCHANGED <<cable, hostVars, past>>
    <3>1. DeviceTypes'
      BY <2>1, ServedDevice DEF Interrupt, Types, DeviceTypes, busVars, Flags
    <3> QED
      BY <2>1, <3>1, FrameTypes DEF Interrupt, hostVars, Types
  <2>2. CASE DeviceTask /\ UNCHANGED <<cable, hostVars, past>>
    BY <2>2, DeviceTaskTypes, FrameTypes DEF hostVars, Types
  <2> QED
    BY <1>5, <2>1, <2>2 DEF Device
<1>6. CASE Answered
  <2>1. /\ ctl' = NoTransfer /\ hpc' = "idle" /\ UNCHANGED <<cable, past, ep0, hpend>>
        /\ UNCHANGED <<plugged, deviceVars>> /\ bus' \in {"idle", bus}
        /\ host' = StoreConfiguration(ctl.req) \/ host' = host
    BY <1>6 DEF Answered, Returns
  <2>2. StoreConfiguration(ctl.req) \in Hosts
    <3>1. ctl.req.arg \in Nat
      BY <1>6, RequestFields DEF Answered, Returns, Requesting
    <3> QED
      BY <1>0, <3>1 DEF StoreConfiguration, Hosts, HostStates
  <2>3. HostTypes'
    BY <1>0, <2>1, <2>2 DEF HostTypes
  <2>4. DeviceTypes'
    BY <2>1 DEF Types, DeviceTypes, deviceVars
  <2>5. CtlTypes'
    BY <2>1 DEF CtlTypes, NoTransfer, Transfers, Stages
  <2> QED
    BY <2>1, <2>3, <2>4, <2>5, FrameTypes DEF Types
<1>7. ASSUME NEW r \in AppRequests, Asks(r) PROVE Types'
  <2>1. r \in Requests
    BY DEF AppRequests
  <2>2. ctl' \in Transfers
    BY <1>7, <2>1 DEF Asks, Begin, Transfers, Stages
  <2>3. DeviceTypes'
    BY <1>7 DEF Asks, Begin, deviceVars, Types, DeviceTypes
  <2>4. HostTypes'
    BY <1>0, <1>7 DEF Asks, Begin, HostTypes
  <2> QED
    BY <1>7, <2>2, <2>3, <2>4, FrameTypes DEF Asks, Begin, Types, CtlTypes
<1>8. CASE DriveBus
  <2>1. DeviceTypes'
    BY <1>8 DEF DriveBus, deviceVars, Types, DeviceTypes
  <2> QED
    BY <1>8, <2>1, FrameTypes DEF DriveBus, hostVars, Types
<1>9. CASE Plug
  <2>1. DeviceTypes'
    <3>1. host.vbus \in BOOLEAN /\ bus' \in {"active", "idle"} /\ Power(host.vbus)
      BY <1>0, <1>9 DEF Plug, Hosts, Types, DeviceTypes
    <3> QED
      BY <3>1, PowerTypes
  <2>2. HostTypes'
    BY <1>9 DEF Plug, hostVars, Types, HostTypes
  <2> QED
    BY <1>9, <2>1, <2>2, FrameTypes DEF Plug, hostVars, Types
<1>10. CASE Unplug
  <2>1. DeviceTypes'
    BY <1>10, PowerTypes DEF Unplug, Types, DeviceTypes
  <2>2. HostTypes'
    BY <1>10 DEF Unplug, Types, HostTypes
  <2>3. PastTypes'
    <3>1. Cut \in Pasts /\ Cut.faults + 1 \in Nat
      BY <1>0, CutTypes, SMTT(30)
    <3>2. past' = [Cut EXCEPT !.faults = Cut.faults + 1]
      BY <1>10, <3>1 DEF Unplug, Pasts
    <3> QED
      BY <3>1, <3>2 DEF Pasts, PastTypes
  <2> QED
    BY <1>10, <2>1, <2>2, <2>3, FrameTypes DEF Unplug, Types
<1>11. CASE UNCHANGED vars
  BY <1>11, FrameTypes DEF vars, hostVars, Types
<1>12. CASE Transfer \/ HostTask
  BY <1>12, TransferTypes, HostTaskTypes
<1>13. CASE PowerLost
  <2>1. DeviceTypes'
    BY <1>13, NewTypes DEF PowerLost, Types, DeviceTypes, Tasks, DeviceStates, busVars
  <2> QED
    BY <1>13, <2>1, QuietTypes, FrameTypes DEF PowerLost, hostVars, Types, Ep0Types
<1> QED
  BY <1>1, <1>2, <1>3, <1>4, <1>5, <1>6, <1>7, <1>8, <1>9, <1>10, <1>11, <1>12, <1>13
     DEF Next, HostInterrupt, HostMain

-----------------------------------------------------------------------------
(* Attachment.                                                              *)

\* The fields that the steps of the state machine write and keep.
LEMMA HostFields ==
  ASSUME NEW h \in Hosts, NEW s, NEW t, NEW b, NEW n, NEW E
  PROVE  /\ [h EXCEPT !.state = s].state = s
         /\ [h EXCEPT !.state = s].post = h.post
         /\ [h EXCEPT !.state = s].config = h.config
         /\ [h EXCEPT !.state = s].address = h.address
         /\ [h EXCEPT !.state = s, !.post = t].state = s
         /\ [h EXCEPT !.state = s, !.post = t].post = t
         /\ [h EXCEPT !.state = s, !.post = t].config = h.config
         /\ [h EXCEPT !.state = s, !.enabled = E].state = s
         /\ [h EXCEPT !.config = n, !.enabled = E].state = h.state
         /\ [h EXCEPT !.config = n, !.enabled = E].post = h.post
         /\ [h EXCEPT !.config = n, !.enabled = E].config = n
         /\ [h EXCEPT !.enabled = E].state = h.state
         /\ [h EXCEPT !.enabled = E].post = h.post
         /\ [h EXCEPT !.config = n, !.state = s].state = s
         /\ [h EXCEPT !.config = n, !.state = s].config = n
         /\ [h EXCEPT !.config = n, !.state = s].address = h.address
         /\ [h EXCEPT !.address = b].state = h.state
         /\ [h EXCEPT !.address = b].config = h.config
         /\ [h EXCEPT !.address = b].address = b
BY DEF Hosts

\* HOST_TASK_NONBLOCK_WAIT, alone and at the end of USB_Host_ResetDevice.
LEMMA Waiting ==
  ASSUME host \in Hosts, NEW s \in HostStates
  PROVE  /\ NonBlockWait(s) \in Hosts /\ NonBlockWait(s).state = "WaitForDevice"
         /\ NonBlockWait(s).post = s /\ NonBlockWait(s).config = host.config
         /\ ResetDevice(s) => host'.state = "WaitForDevice" /\ host'.post = s
                              /\ host'.config = 0
<1>1. /\ NonBlockWait(s) \in Hosts /\ NonBlockWait(s).state = "WaitForDevice"
      /\ NonBlockWait(s).post = s /\ NonBlockWait(s).config = host.config
  <2>1. "WaitForDevice" \in HostStates
    BY DEF HostStates
  <2> QED
    BY <2>1 DEF NonBlockWait, Hosts
<1>2. ASSUME ResetDevice(s)
      PROVE  host'.state = "WaitForDevice" /\ host'.post = s /\ host'.config = 0
  <2>1. PICK E : host' = [NonBlockWait(s) EXCEPT !.config = 0, !.enabled = E]
    BY <1>2 DEF ResetDevice
  <2> QED
    BY <1>1, <2>1, HostFields, SMTT(30)
<1> QED
  BY <1>1, <1>2

\* Most steps leave the cable, VBUS and the attachment alone.
LEMMA Steps ==
  ASSUME Types, [Next]_vars
  PROVE  \/ Calm \/ (ResetInterface /\ cable' = cable) \/ VoltageISR
         \/ Unplug \/ Plug \/ AttachISR \/ Discharged
<1>0. host \in Hosts
  BY DEF Types, HostTypes
<1>1. ASSUME UNCHANGED <<plugged, cable, hpend>>, host'.enabled = host.enabled,
             host'.vbus = host.vbus
      PROVE  Calm
  BY <1>1 DEF Calm
<1>2. ASSUME NEW s PROVE /\ Becomes(s).enabled = host.enabled
                         /\ NonBlockWait(s).enabled = host.enabled
                         /\ Becomes(s).vbus = host.vbus
                         /\ NonBlockWait(s).vbus = host.vbus
  BY <1>0 DEF Becomes, NonBlockWait, Hosts
<1>3. ASSUME NEW s, ResetDevice(s), UNCHANGED cable,
             \/ Early' /\ ctl'.stage = "none"
             \/ HostReady /\ ctl.stage # "none"
      PROVE  Calm
  <2>1. plugged' = plugged
    BY <1>3 DEF ResetDevice, ResetBus, busVars
  <2>2. host'.enabled = host.enabled \cup {"DDISCI"} /\ host'.vbus = host.vbus
    <3>1. DOMAIN NonBlockWait(s) = {"state", "post", "config", "address", "enabled",
                                    "vbus"}
      BY <1>0 DEF NonBlockWait, Hosts
    <3>2. host' = [NonBlockWait(s) EXCEPT !.config = 0,
                        !.enabled = NonBlockWait(s).enabled \cup {"DDISCI"}]
      BY <1>3 DEF ResetDevice
    <3> QED
      BY <1>2, <3>1, <3>2
  <2>3. hpend' \subseteq hpend /\ (~plugged => hpend' = hpend)
    BY <1>3 DEF ResetDevice
  <2> QED
    BY <1>3, <2>1, <2>2, <2>3 DEF Calm
<1>4. CASE Device
  <2>1. UNCHANGED <<plugged, cable, hpend, host>>
    BY <1>4 DEF Device, Interrupt, DeviceTask, hostVars, GetStatus,
       GetConfiguration, GetDescriptor, SetAddress, AddressSet, SetConfiguration,
       TestConfiguration, Configured, ClearFeature, Stall, Stream, Streamed,
       ClearStatusStage, Handle, busVars
  <2> QED
    BY <1>1, <2>1
<1>5. CASE Transfer
  <2>1. UNCHANGED <<plugged, cable, hpend, host>>
    BY <1>5 DEF Transfer, SetupSent, InReceived, OutSent, AckReceived, WaitFails,
       TimesOut, GoTo, busVars
  <2> QED
    BY <1>1, <2>1
<1>6. CASE \/ Switch \/ DriveBus \/ PowerLost \/ (\E r \in AppRequests : Asks(r))
           \/ UNCHANGED vars
  <2>1. UNCHANGED <<plugged, cable, hpend, host>>
    BY <1>6 DEF Switch, DriveBus, PowerLost, Asks, Begin, vars, busVars, hostVars
  <2> QED
    BY <1>1, <2>1
<1>7. CASE Powered \/ Settled \/ ConfigPipe
  BY <1>1, <1>2, <1>7, SMTT(30) DEF Powered, Settled, ConfigPipe, Store, busVars
<1>8. CASE PostAddressSet
  <2>1. host' = [Becomes("Addressed") EXCEPT !.address = TRUE]
        /\ UNCHANGED <<plugged, cable, hpend>>
    BY <1>8 DEF PostAddressSet, Store, busVars
  <2>2. host'.enabled = host.enabled /\ host'.vbus = host.vbus
    BY <1>0, <2>1 DEF Becomes, Hosts
  <2> QED
    BY <1>1, <2>1, <2>2
<1>9. CASE WaitForDevice
  <2>1. CASE ResetInterface /\ cable' = cable
    BY <2>1
  <2>2. CASE Store("WaitForDevice", Becomes(host.post))
             /\ UNCHANGED <<busVars, deviceVars, ep0, hpend>>
    BY <1>1, <1>2, <2>2 DEF Store, busVars
  <2> QED
    BY <1>9, <2>1, <2>2 DEF WaitForDevice
<1>10. CASE WaitForConnect
  <2>1. CASE Store("WaitForConnect", host) /\ UNCHANGED <<busVars, deviceVars, ep0, hpend>>
    BY <1>1, <2>1 DEF Store, busVars
  <2>2. CASE /\ Store("WaitForConnect",
                  [NonBlockWait("DoReset") EXCEPT !.enabled = @ \cup {"VBERRI"}])
             /\ hpend' = hpend \ {"DDISCI", "VBERRI"} /\ UNCHANGED plugged
    <3>1. cable' = cable /\ hpend' \subseteq hpend /\ ctl'.stage = "none"
      BY <2>2 DEF Store, Case
    <3>2. /\ host'.enabled = host.enabled \cup {"VBERRI"} /\ host'.vbus = host.vbus
          /\ host'.state = "WaitForDevice" /\ host'.post = "DoReset"
      <4>1. /\ DOMAIN NonBlockWait("DoReset") =
                 {"state", "post", "config", "address", "enabled", "vbus"}
            /\ NonBlockWait("DoReset").state = "WaitForDevice"
            /\ NonBlockWait("DoReset").post = "DoReset"
        BY <1>0 DEF NonBlockWait, Hosts
      <4>2. host' = [NonBlockWait("DoReset") EXCEPT
                       !.enabled = NonBlockWait("DoReset").enabled \cup {"VBERRI"}]
        BY <2>2 DEF Store
      <4> QED
        BY <1>2, <4>1, <4>2
    <3> QED
      BY <2>2, <3>1, <3>2 DEF Calm, Early
  <2> QED
    BY <1>10, <2>1, <2>2 DEF WaitForConnect
<1>11. CASE DoReset
  <2>1. ResetDevice("ConfigPipe") /\ cable' = cable /\ ctl'.stage = "none"
    BY <1>11 DEF DoReset, Case
  <2>2. "ConfigPipe" \in HostStates
    BY DEF HostStates
  <2>3. host'.state = "WaitForDevice" /\ host'.post = "ConfigPipe"
    BY <1>0, <2>1, <2>2, Waiting
  <2> QED
    BY <1>3, <2>1, <2>3 DEF Early
<1>12. CASE Default \/ PostReset
  <2>1. CASE \E r : Begin(r)
    BY <1>1, <2>1 DEF Begin
  <2>2. CASE Returns("Default", TRUE) /\ ResetDevice("PostReset")
    BY <1>3, <2>2 DEF Returns
  <2>3. CASE /\ Returns("PostReset", TRUE) /\ host' = NonBlockWait("PostAddressSet")
             /\ UNCHANGED <<busVars, deviceVars, ep0, hpend>>
    BY <1>1, <1>2, <2>3 DEF Returns, busVars
  <2>4. CASE Fail /\ cable' = cable
    BY <1>1, <2>4 DEF Fail, busVars
  <2> QED
    BY <1>12, <2>1, <2>2, <2>3, <2>4 DEF Default, PostReset, Returns
<1>13. CASE Answered
  <2>1. UNCHANGED <<plugged, cable, hpend>>
        /\ (host' = StoreConfiguration(ctl.req) \/ host' = host)
    BY <1>13 DEF Answered, Returns
  <2>2. /\ StoreConfiguration(ctl.req).enabled = host.enabled
        /\ StoreConfiguration(ctl.req).vbus = host.vbus
    BY <1>0 DEF StoreConfiguration, Hosts
  <2> QED
    BY <1>1, <2>1, <2>2
<1>14. CASE Dip
  <2>1. UNCHANGED <<plugged, cable, host>> /\ hpend' = hpend \cup {"VBERRI"}
    BY <1>14 DEF Dip, busVars
  <2> QED
    BY <2>1 DEF Calm
<1>15. CASE DisconnectISR
  BY <1>15 DEF DisconnectISR
<1> QED
  BY <1>4, <1>5, <1>6, <1>7, <1>8, <1>9, <1>10, <1>11, <1>12, <1>13, <1>14, <1>15
     DEF Next, HostInterrupt, HostMain, HostTask

\* So a device that is still there has been there since it was attached, or the
\* second bus reset is still to come.
LEMMA StepWiring ==
  ASSUME Types, Wiring, Driven, Unnoticed, [Next]_vars
  PROVE  /\ Wiring'
         /\ Session' => (Session /\ Calm) \/ Early'
         /\ Attached' => Attached \/ AttachISR
         /\ Attached' => ~ResetInterface /\ ~VoltageISR
<1>0. /\ host \in Hosts /\ hpend \subseteq {"DDISCI", "VBERRI"} /\ plugged \in BOOLEAN
      /\ cable \in BOOLEAN /\ host.vbus \in BOOLEAN
  BY DEF Types, HostTypes, DeviceTypes, Hosts
<1>a. VoltageISR => /\ ~plugged' /\ cable' = cable /\ host'.enabled = host.enabled
                    /\ hpend' = hpend \ {"VBERRI"} /\ ~host'.vbus
  BY <1>0 DEF VoltageISR, Power, Hosts
<1>b. ResetInterface => plugged' = cable /\ host'.enabled = {"SRPI"} /\ host'.vbus
  BY ResetInterfaceTypes
<1>c. Attached' => ~ResetInterface /\ ~VoltageISR
  BY <1>a, <1>b DEF Attached
<1>1. CASE Calm
  <2>1. Wiring' /\ (Attached' => Attached)
    BY <1>1 DEF Calm, Wiring, Attached
  <2>2. ASSUME Session' PROVE Session \/ Early'
    <3>1. "SRPI" \notin host.enabled /\ plugged /\ "DDISCI" \notin hpend'
      BY <1>1, <2>2 DEF Calm, Session
    <3>2. CASE HostReady /\ ctl.stage # "none"
      BY <3>1, <3>2 DEF Driven, HostReady, Raised, Wiring, Session
    <3> QED
      BY <1>1, <3>1, <3>2 DEF Calm, Session
  <2> QED
    BY <1>1, <1>c, <2>1, <2>2
<1>2. CASE ResetInterface /\ cable' = cable
  BY <1>0, <1>2, <1>b, <1>c, SMTT(30) DEF Wiring, Session, Attached
<1>3. CASE VoltageISR
  BY <1>3, <1>a, <1>c DEF Wiring, Session, Attached
<1>4. CASE Unplug
  <2>1. ~plugged' /\ ~cable' /\ host' = host /\ "DDISCI" \in hpend'
    BY <1>4 DEF Unplug, Power
  <2> QED
    BY <1>c, <2>1 DEF Wiring, Session, Attached
<1>5. CASE Plug
  <2>1. ~cable /\ cable' /\ UNCHANGED <<host, hpend>> /\ plugged' = host.vbus
    BY <1>5 DEF Plug, hostVars, Power
  <2>2. Session' => Missed
    BY <2>1 DEF Session, Missed, Attached
  <2> QED
    BY <1>c, <2>1, <2>2 DEF Wiring, Attached, Unnoticed, Early
<1>6. CASE AttachISR
  <2>1. UNCHANGED <<cable, plugged, hpend>>
    BY <1>6 DEF AttachISR, AttachDue, busVars
  <2>2. /\ host'.enabled = (host.enabled \ {"SRPI"}) \cup {"DDISCI"}
        /\ host'.vbus = host.vbus /\ host'.state = "Powered"
    BY <1>0, <1>6 DEF AttachISR, Hosts
  <2> QED
    BY <1>6, <1>c, <2>1, <2>2 DEF Wiring, Early
<1>7. CASE Discharged
  <2>1. UNCHANGED <<plugged, cable, host>> /\ hpend' = hpend \cup {"DDISCI"}
    BY <1>7 DEF Discharged, busVars
  <2> QED
    BY <1>c, <2>1 DEF Wiring, Session, Attached
<1> QED
  BY <1>1, <1>2, <1>3, <1>4, <1>5, <1>6, <1>7, Steps

-----------------------------------------------------------------------------
(* Requests and the control endpoint.                                       *)

\* A transfer goes from one of its stages to another.
LEMMA Staging ==
  ASSUME Types, Transfer
  PROVE  /\ UNCHANGED <<busVars, deviceVars, cable, host, hpend, hpc>>
         /\ ctl.stage # "none" /\ ctl'.stage # "none" /\ ctl'.req = ctl.req
<1>0. ctl \in Transfers
  BY DEF Types, CtlTypes
<1>1. PICK s : GoTo(s) /\ ctl.stage # "none" /\ s # "none"
  <2>1. FirstStage(ctl.req) # "none"
    BY DEF FirstStage
  <2> QED
    BY <2>1 DEF Transfer, SetupSent, InReceived, OutSent, AckReceived, WaitFails,
       TimesOut, Stage
<1>2. ctl' = [ctl EXCEPT !.stage = s]
  BY <1>1 DEF GoTo
<1> QED
  BY <1>0, <1>1, <1>2 DEF Transfers, GoTo

\* Only what is waited for in the data stage has one.
LEMMA NoDataStage ==
  ASSUME Types, Transfer, ctl.stage \notin {"in", "out"},
         ctl.req.kind \in {"SetAddress", "SetConfiguration"}
  PROVE  ctl'.stage \notin {"in", "out"}
<1>0. ctl \in Transfers
  BY DEF Types, CtlTypes
<1>1. PICK s : GoTo(s) /\ s \notin {"in", "out"}
  <2>1. FirstStage(ctl.req) = "ack"
    BY DEF FirstStage
  <2> QED
    BY <2>1, SMTT(30) DEF Transfer, SetupSent, InReceived, OutSent, AckReceived, WaitFails,
       TimesOut, Stage
<1>2. ctl' = [ctl EXCEPT !.stage = s]
  BY <1>1 DEF GoTo
<1> QED
  BY <1>0, <1>1, <1>2 DEF Transfers

\* Each place sends its own requests.
LEMMA StepRequesting ==
  ASSUME Types, Requesting, [Next]_vars PROVE Requesting'
<1>1. ASSUME UNCHANGED <<hpc, ctl>> PROVE Requesting'
  BY <1>1 DEF Requesting
<1>2. ASSUME hpc' \notin {"Default", "PostReset", "request"}, ctl'.stage = "none"
      PROVE  Requesting'
  BY <1>2 DEF Requesting
<1>3. ASSUME NEW c, Returns(c, TRUE) \/ Returns(c, FALSE) PROVE Requesting'
  <2>1. hpc' = "idle" /\ ctl' = NoTransfer
    BY <1>3 DEF Returns
  <2> QED
    BY <1>2, <2>1 DEF NoTransfer
<1>4. ASSUME NEW c, NEW h, Store(c, h) PROVE Requesting'
  BY <1>2, <1>4 DEF Store, Case
<1>5. CASE Device \/ HostInterrupt \/ DriveBus \/ Plug \/ Unplug \/ PowerLost \/ Dip
           \/ UNCHANGED vars
  <2>1. UNCHANGED <<hpc, ctl>>
    BY <1>5 DEF Device, HostInterrupt, DisconnectISR, VoltageISR, Discharged,
       AttachISR, DriveBus, Plug, Unplug, PowerLost, Dip, vars, hostVars
  <2> QED
    BY <1>1, <2>1
<1>6. CASE Transfer
  <2>1. hpc' = hpc /\ ctl.stage # "none" /\ ctl'.stage # "none" /\ ctl'.req = ctl.req
    BY <1>6, Staging
  <2>2. ASSUME hpc = "PostReset" PROVE ctl.req = Request("SetAddress", 1)
                                       /\ ctl'.stage \notin {"in", "out"}
    BY <1>6, <2>1, <2>2, NoDataStage, SMTT(30) DEF Requesting, Request
  <2>3. ASSUME hpc = "request", ctl.req.kind = "SetConfiguration"
        PROVE ctl'.stage \notin {"in", "out"}
    BY <1>6, <2>1, <2>3, NoDataStage DEF Requesting
  <2> QED
    BY <2>1, <2>2, <2>3 DEF Requesting
<1>7. CASE Switch
  <2>1. host.state # "request"
    BY DEF Types, HostTypes, Hosts, HostStates
  <2>2. hpc' = host.state /\ ctl' = ctl /\ ctl.stage = "none"
    BY <1>7 DEF Switch, Case
  <2> QED
    BY <2>1, <2>2 DEF Requesting
<1>8. CASE DoReset
  BY <1>2, <1>8 DEF DoReset, Case
<1>9. CASE WaitForDevice \/ Powered \/ Settled \/ WaitForConnect \/ ConfigPipe
           \/ PostAddressSet
  BY <1>2, <1>4, <1>9 DEF WaitForDevice, Powered, Settled, WaitForConnect, ConfigPipe,
     PostAddressSet, Case
<1>10. CASE Default \/ PostReset
  <2>1. CASE /\ Case("Default") /\ Begin(Request("DescriptorSize", 0)) /\ UNCHANGED hpc
    BY <2>1 DEF Case, Begin, Requesting
  <2>2. CASE /\ Case("PostReset") /\ Begin(Request("SetAddress", 1)) /\ UNCHANGED hpc
    BY <2>2 DEF Case, Begin, Requesting
  <2> QED
    BY <1>3, <1>10, <2>1, <2>2 DEF Default, PostReset
<1>11. CASE Answered
  BY <1>3, <1>11 DEF Answered
<1>12. CASE \E r \in AppRequests : Asks(r)
  <2>1. PICK r \in Requests : r.kind \notin {"DescriptorSize", "SetAddress"} /\ Asks(r)
    BY <1>12 DEF AppRequests
  <2>2. hpc' = "request" /\ ctl'.stage = "setup" /\ ctl'.req = r
    BY <2>1 DEF Asks, Begin
  <2> QED
    BY <2>1, <2>2 DEF Requesting
<1> QED
  BY <1>5, <1>6, <1>7, <1>8, <1>9, <1>10, <1>11, <1>12 DEF Next, HostMain, HostTask

\* A SETUP packet finds the endpoint empty and leaves it so.
LEMMA StepSetupAlone ==
  ASSUME Types, SetupAlone, [Next]_vars PROVE SetupAlone'
<1>0. ep0 \in Endpoints
  BY DEF Types, Ep0Types
<1>1. ASSUME UNCHANGED ep0 PROVE SetupAlone'
  BY <1>1 DEF SetupAlone
<1>2. ASSUME ep0'.setup = None PROVE SetupAlone'
  BY <1>2 DEF SetupAlone
<1>3. ASSUME ResetBus PROVE SetupAlone'
  <2>1. ep0' = Quiet \/ UNCHANGED ep0
    BY <1>3 DEF ResetBus
  <2> QED
    BY <1>1, <1>2, <2>1, SMTT(30) DEF Quiet
<1>4. CASE Device
  <2>1. CASE Interrupt \/ TestConfiguration
    BY <1>1, <2>1 DEF Interrupt, TestConfiguration
  <2>2. ASSUME NEW p, Answer(p) PROVE SetupAlone'
    <3>1. ep0'.setup = None
      BY <1>0, <2>2 DEF Answer, Endpoints
    <3> QED
      BY <1>2, <3>1
  <2>3. CASE GetStatus \/ GetConfiguration \/ GetDescriptor \/ SetAddress
             \/ SetConfiguration \/ ClearFeature
    BY <2>2, <2>3 DEF GetStatus, GetConfiguration, GetDescriptor, SetAddress,
       SetConfiguration, ClearFeature
  <2>4. ASSUME NEW e \in Endpoints, Return(e) PROVE SetupAlone'
    BY <1>2, <2>4, Returning
  <2>5. [ep0 EXCEPT !.out = FALSE] \in Endpoints
    BY <1>0 DEF Endpoints
  <2>6. CASE AddressSet \/ Configured \/ Stall \/ Streamed \/ ClearStatusStage
    BY <1>0, <2>4, <2>5, <2>6 DEF AddressSet, Configured, Stall, Streamed, ClearStatusStage
  <2>7. ASSUME ep0' = [ep0 EXCEPT !.in = ZLP], ep0.setup = None PROVE SetupAlone'
    BY <1>0, <2>7 DEF SetupAlone, Endpoints
  <2>8. CASE Stream
    BY <2>4, <2>5, <2>7, <2>8 DEF Stream
  <2> QED
    BY <1>4, <2>1, <2>3, <2>6, <2>8 DEF Device, DeviceTask
<1>5. CASE Transfer
  <2>1. CASE SetupSent
    BY <2>1 DEF SetupSent, SetupAlone, Quiet
  <2>2. CASE InReceived \/ AckReceived
    BY <1>0, <2>2 DEF InReceived, AckReceived, SetupAlone, Endpoints
  <2>3. CASE OutSent
    <3>1. ep0.setup = None /\ ep0' = [ep0 EXCEPT !.out = TRUE]
      BY <2>3 DEF OutSent, Ready
    <3> QED
      BY <1>0, <1>2, <3>1 DEF Endpoints
  <2>4. CASE WaitFails \/ TimesOut
    BY <1>1, <2>4 DEF WaitFails, TimesOut
  <2> QED
    BY <1>5, <2>1, <2>2, <2>3, <2>4 DEF Transfer
<1>6. CASE HostInterrupt \/ DriveBus \/ Plug \/ Unplug \/ Dip \/ UNCHANGED vars
           \/ \E r \in AppRequests : Asks(r)
  <2>1. UNCHANGED ep0
    BY <1>6 DEF HostInterrupt, DisconnectISR, VoltageISR, Discharged,
       AttachISR, DriveBus, Plug, Unplug, Dip, vars, Asks, Begin
  <2> QED
    BY <1>1, <2>1
<1>7. CASE Switch \/ WaitForDevice \/ Powered \/ Settled \/ WaitForConnect
           \/ ConfigPipe \/ PostAddressSet \/ Answered
  <2>1. UNCHANGED ep0
    BY <1>7 DEF Switch, WaitForDevice, Powered, Settled, WaitForConnect, ConfigPipe,
       PostAddressSet, Answered
  <2> QED
    BY <1>1, <2>1
<1>8. CASE DoReset \/ Default \/ PostReset
  <2>1. UNCHANGED ep0 \/ ResetBus
    BY <1>8 DEF DoReset, Default, PostReset, ResetDevice, Begin
  <2> QED
    BY <1>1, <1>3, <2>1
<1>9. CASE PowerLost
  <2>1. ep0'.setup = None
    BY <1>9, SMTT(30) DEF PowerLost, Quiet
  <2> QED
    BY <1>2, <2>1
<1> QED
  BY <1>4, <1>5, <1>6, <1>7, <1>8, <1>9 DEF Next, HostMain, HostTask

\* While the device stays attached the state machine is in the state whose
\* case it runs: no interrupt has reset it.
LEMMA StepInCase ==
  ASSUME Types, Wiring, Driven, Unnoticed, InCase, [Next]_vars PROVE InCase'
<1> SUFFICES ASSUME Attached'
             PROVE  /\ host'.state # "Unattached"
                    /\ hpc' \in HostStates => host'.state = hpc'
                    /\ hpc' = "request" => host'.state \in {"Addressed", "Configured"}
                    /\ host'.state = "WaitForDevice" =>
                         host'.post \in {"DoReset", "ConfigPipe", "PostReset",
                                         "PostAddressSet"}
  BY DEF InCase, Enumerated
<1>0. host \in Hosts /\ "idle" \notin HostStates /\ "request" \notin HostStates
      /\ {"DoReset", "ConfigPipe", "PostReset", "PostAddressSet"} \subseteq HostStates
  BY DEF Types, HostTypes, HostStates
<1>1. CASE AttachISR
  <2>1. host'.state = "Powered" /\ hpc' = "idle"
    BY <1>0, <1>1 DEF AttachISR, AttachDue, Hosts
  <2> QED
    BY <1>0, <2>1
<1>2. CASE Attached /\ ~ResetInterface /\ ~VoltageISR
  <2>0. /\ host.state # "Unattached" /\ (hpc \in HostStates => host.state = hpc)
        /\ hpc = "request" => Enumerated
        /\ host.state = "WaitForDevice" =>
             host.post \in {"DoReset", "ConfigPipe", "PostReset", "PostAddressSet"}
    BY <1>2 DEF InCase
  <2>a. ASSUME UNCHANGED <<host, hpc>> PROVE InCase'
    BY <2>0, <2>a DEF InCase, Enumerated
  <2>b. ASSUME NEW s \in HostStates \ {"Unattached", "WaitForDevice"}, hpc' = "idle",
               host' = Becomes(s)
        PROVE  InCase'
    BY <1>0, <2>b, HostFields, SMTT(30) DEF InCase, Becomes
  <2>c. ASSUME NEW s \in {"DoReset", "ConfigPipe", "PostReset", "PostAddressSet"},
               hpc' = "idle", host'.state = "WaitForDevice", host'.post = s
        PROVE  InCase'
    BY <1>0, <2>c DEF InCase
  <2>1. CASE Device \/ Transfer \/ DriveBus \/ Dip \/ Plug \/ Unplug \/ PowerLost
             \/ Discharged \/ UNCHANGED vars
    <3>1. UNCHANGED <<host, hpc>>
      BY <2>1, Staging DEF Device, DriveBus, Dip, Plug, Unplug, PowerLost, Discharged,
         hostVars, vars
    <3> QED
      BY <2>a, <3>1 DEF InCase, Enumerated
  <2>2. CASE Switch
    <3>1. hpc' = host.state /\ host' = host
      BY <2>2 DEF Switch
    <3> QED
      BY <1>0, <2>0, <3>1 DEF Hosts
  <2>3. CASE WaitForDevice
    <3>1. hpc = "WaitForDevice" /\ hpc' = "idle" /\ host' = Becomes(host.post)
      BY <1>2, <2>3 DEF WaitForDevice, Store, Case
    <3>2. host.post \in HostStates \ {"Unattached", "WaitForDevice"}
      BY <1>0, <2>0, <3>1 DEF HostStates
    <3> QED
      BY <2>b, <3>1, <3>2 DEF InCase, Enumerated
  <2>4. CASE Powered \/ Settled \/ ConfigPipe
    <3>1. \E s \in HostStates \ {"Unattached", "WaitForDevice"} :
             hpc' = "idle" /\ host' = Becomes(s)
      BY <2>4 DEF Powered, Settled, ConfigPipe, Store, HostStates
    <3> QED
      BY <2>b, <3>1 DEF InCase, Enumerated
  <2>5. CASE PostAddressSet
    <3>1. hpc' = "idle" /\ host' = [Becomes("Addressed") EXCEPT !.address = TRUE]
      BY <2>5 DEF PostAddressSet, Store
    <3>2. host'.state = "Addressed"
      BY <1>0, <3>1 DEF Becomes, Hosts
    <3> QED
      BY <1>0, <3>1, <3>2
  <2>6. CASE WaitForConnect
    <3>1. CASE Store("WaitForConnect", host)
      <4>1. hpc' = "idle" /\ host' = host /\ host.state = "WaitForConnect"
        BY <2>0, <3>1 DEF Store, Case, HostStates
      <4> QED
        BY <1>0, <4>1
    <3>2. CASE Store("WaitForConnect",
                  [NonBlockWait("DoReset") EXCEPT !.enabled = @ \cup {"VBERRI"}])
      <4>1. PICK E : host' = [NonBlockWait("DoReset") EXCEPT !.enabled = E]
                     /\ hpc' = "idle"
        BY <3>2 DEF Store
      <4>2. NonBlockWait("DoReset") \in Hosts
            /\ NonBlockWait("DoReset").state = "WaitForDevice"
            /\ NonBlockWait("DoReset").post = "DoReset"
        BY <1>0, Waiting
      <4>3. host'.state = "WaitForDevice" /\ host'.post = "DoReset"
        BY <4>1, <4>2, HostFields, SMTT(30)
      <4> QED
        BY <2>c, <4>1, <4>3 DEF InCase, Enumerated
    <3> QED
      BY <2>6, <3>1, <3>2 DEF WaitForConnect
  <2>7. CASE DoReset
    <3>1. hpc' = "idle" /\ ResetDevice("ConfigPipe")
      BY <2>7 DEF DoReset
    <3>2. host'.state = "WaitForDevice" /\ host'.post = "ConfigPipe"
      BY <1>0, <3>1, Waiting
    <3> QED
      BY <2>c, <3>1, <3>2 DEF InCase, Enumerated
  <2>8. CASE Default \/ PostReset
    <3>1. CASE \E r : Begin(r) /\ UNCHANGED hpc
      BY <2>a, <3>1 DEF Begin, InCase, Enumerated
    <3>2. CASE Returns("Default", TRUE) /\ ResetDevice("PostReset")
      <4>1. hpc' = "idle" /\ host'.state = "WaitForDevice" /\ host'.post = "PostReset"
        BY <1>0, <3>2, Waiting DEF Returns
      <4> QED
        BY <2>c, <4>1 DEF InCase, Enumerated
    <3>3. CASE Returns("PostReset", TRUE) /\ host' = NonBlockWait("PostAddressSet")
      <4>1. hpc' = "idle" /\ host'.state = "WaitForDevice"
            /\ host'.post = "PostAddressSet"
        BY <1>0, <3>3, Waiting DEF Returns
      <4> QED
        BY <2>c, <4>1 DEF InCase, Enumerated
    <3>4. ~Fail
      BY <1>2, <2>0 DEF Fail
    <3> QED
      BY <2>8, <3>1, <3>2, <3>3, <3>4 DEF Default, PostReset
  <2>9. CASE Answered
    <3>1. hpc = "request" /\ hpc' = "idle"
          /\ (host' = StoreConfiguration(ctl.req) \/ host' = host)
      BY <2>9 DEF Answered, Returns
    <3>2. StoreConfiguration(ctl.req) = host
          \/ StoreConfiguration(ctl.req).state \in {"Addressed", "Configured"}
      BY <1>0 DEF StoreConfiguration, Hosts
    <3> QED
      BY <1>0, <2>0, <3>1, <3>2 DEF Enumerated
  <2>10. CASE \E r \in AppRequests : Asks(r)
    <3>1. hpc' = "request" /\ host' = host /\ Enumerated
      BY <2>10 DEF Asks, Begin
    <3> QED
      BY <1>0, <2>0, <3>1 DEF Enumerated
  <2>11. ~DisconnectISR
    BY <1>2 DEF DisconnectISR
  <2> QED
    BY <1>1, <1>2, <2>1, <2>2, <2>3, <2>4, <2>5, <2>6, <2>7, <2>8, <2>9, <2>10, <2>11
       DEF Next, HostInterrupt, HostMain, HostTask
<1> QED
  BY <1>1, <1>2, StepWiring

-----------------------------------------------------------------------------
(* Enumeration.                                                             *)

\* What a step of the device's main loop does to what the host will see.
LEMMA Handlers ==
  ASSUME Types, DeviceTask
  PROVE  /\ pend' = pend
         /\ \/ /\ ep0.setup # None /\ ep0'.setup = None /\ dev' = dev
               /\ dpc = "idle" /\ dpc' \notin {"address", "configure", "configured"}
               /\ dpc' = "stream" => ep0.setup.kind = "DescriptorSize"
               /\ ep0.setup.kind \notin {"SetAddress", "SetConfiguration"}
            \/ SetAddress
            \/ /\ ep0.setup # None /\ ep0.setup.kind = "SetConfiguration"
               /\ ep0'.setup = None /\ ep0'.stall = ep0.stall
               /\ dev'.config = ep0.setup.arg /\ dev'.addressed = dev.addressed
               /\ dev'.state = dev.state /\ dev'.enabled = dev.enabled
               /\ dpc = "idle" /\ dpc' = "configure"
            \/ /\ ep0.setup # None /\ ep0.setup.kind = "SetConfiguration"
               /\ ep0'.setup = None /\ ep0'.in = ep0.in /\ ep0'.stall
               /\ dev' = dev /\ dpc' = dpc /\ dpc = "idle"
            \/ AddressSet
            \/ /\ ep0' = ep0 /\ dev' = dev
               /\ dpc = "configure" /\ dpc' = "configured" /\ target' = Woken(dev)
            \/ /\ dev'.config = dev.config /\ dev'.addressed = dev.addressed
               /\ dev'.state = target /\ dev'.enabled = dev.enabled
               /\ dpc = "configured" /\ dpc' = "idle"
               /\ ep0'.setup = None /\ ep0'.in = ep0.in
               /\ ep0.setup = None => ep0'.stall = ep0.stall
            \/ /\ dpc \in {"stream", "streamed", "status"} /\ dev' = dev /\ dpc' = "idle"
               /\ ep0'.setup = None /\ ep0'.in = ep0.in
               /\ ep0.setup = None => ep0'.stall = ep0.stall
            \/ /\ dpc = "stream" /\ dpc' = "streamed" /\ dev' = dev
               /\ ep0.setup = None /\ ep0'.setup = None
<1>0. dev \in Devices /\ ep0 \in Endpoints
  BY DEF Types, DeviceTypes, Ep0Types
<1>1. ASSUME NEW p, Answer(p) PROVE ep0'.setup = None /\ ep0'.stall = ep0.stall
  BY <1>0, <1>1 DEF Answer, Endpoints
<1>2. CASE GetStatus \/ GetConfiguration \/ ClearFeature
  <2>1. \E p : Answer(p)
    BY <1>2 DEF GetStatus, GetConfiguration, ClearFeature
  <2>2. ep0'.setup = None
    BY <1>1, <2>1
  <2> QED
    BY <1>2, <2>2 DEF GetStatus, GetConfiguration, ClearFeature, Handle, Busy
<1>3. CASE GetDescriptor
  <2>1. \E p : Answer(p)
    BY <1>3 DEF GetDescriptor
  <2>2. ep0'.setup = None
    BY <1>1, <2>1
  <2> QED
    BY <1>3, <2>2 DEF GetDescriptor, Handle, Busy
<1>4. CASE SetAddress
  BY <1>4 DEF SetAddress, Busy
<1>5. CASE SetConfiguration
  <2>1. ep0'.setup = None /\ ep0'.stall = ep0.stall
    BY <1>1, <1>5 DEF SetConfiguration
  <2>2. /\ dev'.config = ep0.setup.arg /\ dev'.addressed = dev.addressed
        /\ dev'.state = dev.state /\ dev'.enabled = dev.enabled
    BY <1>0, <1>5 DEF SetConfiguration, Devices
  <2> QED
    BY <1>5, <2>1, <2>2 DEF SetConfiguration, Handle
<1>6. CASE Stall
  <2>1. (Handle("Other") \/ Handle("SetConfiguration")) /\ Return(ep0)
    BY <1>6 DEF Stall
  <2>2. ep0.setup # None /\ dpc = "idle"
    BY <2>1 DEF Handle
  <2>3. ep0'.setup = None /\ ep0'.in = ep0.in /\ ep0'.stall /\ dpc' = "idle"
    BY <1>0, <2>1, <2>2, Returning
  <2>4. dev' = dev /\ pend' = pend
    BY <1>6 DEF Stall
  <2> QED
    BY <2>1, <2>2, <2>3, <2>4 DEF Handle
<1>7. CASE AddressSet
  BY <1>7 DEF AddressSet
<1>8. CASE TestConfiguration
  BY <1>8 DEF TestConfiguration
<1>9. CASE Configured
  <2>1. /\ dev'.config = dev.config /\ dev'.addressed = dev.addressed
        /\ dev'.state = target /\ dev'.enabled = dev.enabled
    BY <1>0, <1>9 DEF Configured, Devices
  <2>2. /\ dpc' = "idle" /\ ep0'.setup = None /\ ep0'.in = ep0.in
        /\ ep0.setup = None => ep0' = ep0
    BY <1>0, <1>9, Returning DEF Configured
  <2> QED
    BY <1>9, <2>1, <2>2 DEF Configured
<1>10. CASE Stream \/ Streamed \/ ClearStatusStage
  <2>1. /\ pend' = pend /\ dev' = dev
        /\ \/ Return([ep0 EXCEPT !.out = FALSE])
           \/ /\ dpc = "stream" /\ dpc' = "streamed" /\ ep0.setup = None
              /\ ep0' = [ep0 EXCEPT !.in = ZLP]
        /\ dpc \in {"stream", "streamed", "status"}
    BY <1>10 DEF Stream, Streamed, ClearStatusStage
  <2>2. CASE Return([ep0 EXCEPT !.out = FALSE])
    <3> DEFINE e == [ep0 EXCEPT !.out = FALSE]
    <3>1. e \in Endpoints /\ e.setup = ep0.setup /\ e.in = ep0.in /\ e.stall = ep0.stall
      BY <1>0 DEF Endpoints
    <3>2. Return(e)
      BY <2>2
    <3> HIDE DEF e
    <3>3. /\ dpc' = "idle" /\ ep0'.setup = None /\ ep0'.in = e.in
          /\ e.setup = None => ep0' = e
      BY <3>1, <3>2, Returning
    <3> QED
      BY <2>1, <3>1, <3>3
  <2>3. CASE /\ ep0' = [ep0 EXCEPT !.in = ZLP] /\ dpc = "stream" /\ dpc' = "streamed"
             /\ ep0.setup = None
    <3>1. ep0'.setup = None
      BY <1>0, <2>3 DEF Endpoints
    <3> QED
      BY <2>1, <2>3, <3>1
  <2> QED
    BY <2>1, <2>2, <2>3
<1> QED
  BY <1>2, <1>3, <1>4, <1>5, <1>6, <1>7, <1>8, <1>9, <1>10 DEF DeviceTask

\* The two halves of SET_ADDRESS.
LEMMA AddressHandlers ==
  ASSUME Types
  PROVE  /\ SetAddress => /\ dpc = "idle" /\ ep0.setup # None
                          /\ ep0.setup.kind = "SetAddress"
                          /\ ep0'.setup = None /\ ep0'.stall = ep0.stall
                          /\ dpc' = "address" /\ dev' = dev
         /\ AddressSet => /\ dpc = "address" /\ dpc' = "idle"
                          /\ ep0.in = None /\ ep0'.in = None /\ ep0'.setup = None
                          /\ dev'.addressed /\ dev'.config = dev.config
                          /\ dev'.state = "Addressed"
<1>0. dev \in Devices /\ ep0 \in Endpoints
  BY DEF Types, DeviceTypes, Ep0Types
<1>1. ASSUME SetAddress PROVE ep0'.setup = None /\ ep0'.stall = ep0.stall
  BY <1>0, <1>1 DEF SetAddress, Answer, Endpoints
<1>2. ASSUME AddressSet
      PROVE  dev'.addressed /\ dev'.config = dev.config /\ dev'.state = "Addressed"
  BY <1>0, <1>2 DEF AddressSet, Devices
<1>3. ASSUME AddressSet
      PROVE  dpc' = "idle" /\ ep0'.in = ep0.in /\ ep0'.setup = None
  BY <1>0, <1>3, Returning DEF AddressSet
<1> QED
  BY <1>1, <1>2, <1>3 DEF SetAddress, Handle, Busy, AddressSet

\* The interrupt handler: after a reset the configuration is 0.
LEMMA Interrupted ==
  ASSUME Types, Interrupt
  PROVE  /\ dev'.addressed = dev.addressed /\ pend' = {}
         /\ dev'.config = IF "EORSTI" \in pend THEN 0 ELSE dev.config
         /\ UNCHANGED <<ep0, dpc, target>>
<1>1. DeviceTypes /\ dev' = Served /\ pend' = {} /\ UNCHANGED <<ep0, dpc, target>>
  BY DEF Types, Interrupt
<1> QED
  BY <1>1, ServedDevice

\* Suspending and waking up leave USB_DeviceState fit.
LEMMA InterruptFit ==
  ASSUME Types, Interrupt, pend = {}, dev.addressed, Fit PROVE Fit'
<1>0. dev \in Devices /\ dev' = Served /\ UNCHANGED <<dpc, target>>
  BY DEF Types, DeviceTypes, Interrupt
<1> DEFINE b == OnSuspend(dev)
           c == OnWakeUp(b)
<1>1. OnVBUS(dev) = dev /\ OnReset(c) = c
  BY DEF OnVBUS, OnReset
<1>2. dev' = c
  BY <1>0, <1>1 DEF Served
<1>3. /\ b \in Devices /\ b.config = dev.config /\ b.addressed = dev.addressed
      /\ b.state = "Suspended" => "WAKEUPI" \in b.enabled
      /\ b.state \in {"Suspended", dev.state}
  <2>1. CASE b = dev
    BY <1>0, <2>1 DEF Fit
  <2>2. CASE b = [dev EXCEPT !.state = "Suspended",
                             !.enabled = (dev.enabled \ {"SUSPI"}) \cup {"WAKEUPI"}]
    BY <1>0, <2>2 DEF Devices, DeviceStates
  <2> QED
    BY <1>0, <2>1, <2>2 DEF OnSuspend, Devices
<1> HIDE DEF b
<1>4. /\ c.config = dev.config
      /\ c.state = "Configured" \/ (c.state = b.state /\ c.enabled = b.enabled)
  <2>1. CASE c = b
    BY <1>3, <2>1
  <2>2. CASE c = [b EXCEPT !.state = "Configured",
                           !.enabled = (b.enabled \ {"WAKEUPI"}) \cup {"SUSPI"}]
    BY <1>3, <2>2 DEF Devices
  <2>3. Woken(b) = "Configured"
    BY <1>3 DEF Woken
  <2> QED
    BY <1>3, <2>1, <2>2, <2>3 DEF OnWakeUp, Devices
<1> HIDE DEF c
<1> QED
  BY <1>0, <1>2, <1>3, <1>4 DEF Fit

\* Left alone, the device stays on the way the host believes it to be on.
LEMMA DeviceKeeps ==
  ASSUME Types, SetupAlone, Device
  PROVE  /\ WasReset => WasReset'
         /\ Addressing => Addressing'
         /\ AddressTaken => AddressTaken'
         /\ AddressTaken /\ dev.addressed /\ Fit => dev'.addressed /\ Fit'
         /\ Agreed /\ ctl.stage # "timeout" /\
              (ctl.stage # "none" => ctl.req.kind \notin {"DescriptorSize", "SetAddress"})
              => Agreed'
<1>0. UNCHANGED <<host, ctl>>
  BY DEF Device, hostVars
<1>1. CASE Interrupt
  <2>1. /\ dev'.addressed = dev.addressed /\ pend' = {} /\ ep0' = ep0 /\ dpc' = dpc
        /\ dev'.config = IF "EORSTI" \in pend THEN 0 ELSE dev.config
    BY <1>1, Interrupted
  <2>2. WasReset => WasReset'
    BY <1>0, <2>1 DEF WasReset
  <2>3. ASSUME pend = {}, dev.addressed, Fit PROVE Fit'
    BY <1>1, <2>3, InterruptFit
  <2>4. ASSUME pend = {}, Taken PROVE Taken'
    BY <2>1, <2>3, <2>4 DEF Taken
  <2>5. (Addressing => Addressing') /\ (AddressTaken => AddressTaken')
    BY <1>0, <2>1, <2>4 DEF Addressing, AddressTaken, Steady
  <2>6. Agreed => Agreed'
    BY <1>0, <2>1, <2>3 DEF Agreed, Underway, Steady
  <2> QED
    BY <2>1, <2>2, <2>3, <2>5, <2>6 DEF AddressTaken, Steady
<1>2. CASE DeviceTask
  <2>0. pend' = pend
    BY <1>2, Handlers
  <2>1. CASE /\ ep0.setup # None /\ ep0'.setup = None /\ dev' = dev
             /\ dpc = "idle" /\ dpc' \notin {"address", "configure", "configured"}
             /\ dpc' = "stream" => ep0.setup.kind = "DescriptorSize"
             /\ ep0.setup.kind \notin {"SetAddress", "SetConfiguration"}
    <3>1. ~WasReset /\ ~AddressTaken /\ ~Addressing
      BY <2>1, SMTT(30) DEF WasReset, AddressTaken, Addressing, Request
    <3>2. Agreed /\ ctl.stage # "timeout" => ctl.stage \in {"in", "out", "ack"}
      BY <2>1 DEF Agreed, Types, CtlTypes, Transfers, Stages
    <3>3. Fit => Fit'
      BY <2>1 DEF Fit
    <3> QED
      BY <1>0, <2>0, <2>1, <3>1, <3>2, <3>3 DEF Agreed, Underway, Steady
  <2>2. CASE SetAddress
    <3>1. ~WasReset /\ ~AddressTaken
      BY <2>2, AddressHandlers DEF WasReset, AddressTaken
    <3>2. Addressing => Addressing'
      BY <1>0, <2>0, <2>2, AddressHandlers DEF Addressing, Steady
    <3>3. Agreed /\ ctl.stage # "timeout" => ctl.stage \in {"in", "out", "ack"}
      BY <2>2, AddressHandlers DEF Agreed, Types, CtlTypes, Transfers, Stages
    <3> QED
      BY <2>2, <3>1, <3>2, <3>3, AddressHandlers DEF Agreed, Underway
  <2>3. CASE /\ ep0.setup # None /\ ep0.setup.kind = "SetConfiguration"
             /\ ep0'.setup = None /\ ep0'.stall = ep0.stall
             /\ dev'.config = ep0.setup.arg /\ dev'.addressed = dev.addressed
             /\ dev'.state = dev.state /\ dev'.enabled = dev.enabled
             /\ dpc = "idle" /\ dpc' = "configure"
    <3>1. ~WasReset /\ ~AddressTaken /\ ~Addressing
      BY <2>3, SMTT(30) DEF WasReset, AddressTaken, Addressing, Request
    <3>2. Agreed /\ ctl.stage # "timeout" => ctl.stage \in {"in", "out", "ack"}
      BY <2>3 DEF Agreed, Types, CtlTypes, Transfers, Stages
    <3>3. Fit => Fit'
      BY <2>3 DEF Fit
    <3> QED
      BY <1>0, <2>0, <2>3, <3>1, <3>2, <3>3 DEF SetupAlone, Agreed, Underway, Steady
  <2>4. CASE /\ ep0.setup # None /\ ep0.setup.kind = "SetConfiguration"
             /\ ep0'.setup = None /\ ep0'.in = ep0.in /\ ep0'.stall
             /\ dev' = dev /\ dpc' = dpc /\ dpc = "idle"
    <3>1. ~WasReset /\ ~AddressTaken /\ ~Addressing
      BY <2>4, SMTT(30) DEF WasReset, AddressTaken, Addressing, Request
    <3>2. Agreed /\ ctl.stage # "timeout" => ctl.stage \in {"in", "out", "ack"}
      BY <2>4 DEF Agreed, Types, CtlTypes, Transfers, Stages
    <3>3. Fit => Fit'
      BY <2>4 DEF Fit
    <3> QED
      BY <1>0, <2>0, <2>4, <3>1, <3>2, <3>3 DEF SetupAlone, Agreed, Underway, Steady
  <2>5. CASE AddressSet
    <3>1. dev.config = 0 => dev'.addressed /\ Fit'
      BY <2>5, AddressHandlers DEF Fit
    <3>2. ~Fit
      BY <2>5, AddressHandlers DEF Fit
    <3>3. WasReset => WasReset'
      BY <1>0, <2>0, <2>5, AddressHandlers DEF WasReset
    <3>4. (Addressing => Addressing') /\ (AddressTaken => AddressTaken')
      BY <1>0, <2>0, <2>5, <3>1, AddressHandlers DEF Addressing, AddressTaken, Steady, Taken
    <3> QED
      BY <3>2, <3>3, <3>4 DEF Agreed
  <2>6. CASE /\ ep0' = ep0 /\ dev' = dev
             /\ dpc = "configure" /\ dpc' = "configured" /\ target' = Woken(dev)
    <3>1. dev.addressed /\ Fit => Fit'
      BY <2>6 DEF Fit, Woken
    <3>2. Taken => Taken'
      BY <2>6, <3>1 DEF Taken
    <3>3. (WasReset => WasReset') /\ (AddressTaken => AddressTaken')
      BY <1>0, <2>0, <2>6, <3>2 DEF WasReset, AddressTaken, Steady
    <3>4. Addressing => Addressing'
      BY <1>0, <2>0, <2>6, <3>2 DEF Addressing, Steady
    <3>5. Agreed => Agreed'
      BY <1>0, <2>0, <2>6, <3>1 DEF Agreed, Underway, Steady
    <3> QED
      BY <2>6, <3>1, <3>3, <3>4, <3>5
  <2>7. CASE /\ \/ /\ dev'.config = dev.config /\ dev'.addressed = dev.addressed
                   /\ dev'.state = target /\ dev'.enabled = dev.enabled
                   /\ dpc = "configured"
                \/ dpc \in {"stream", "streamed", "status"} /\ dev' = dev
             /\ dpc' = "idle" /\ ep0'.setup = None /\ ep0'.in = ep0.in
             /\ ep0.setup = None => ep0'.stall = ep0.stall
    <3>0. dev'.config = dev.config /\ dev'.addressed = dev.addressed
      BY <2>7
    <3>1. Fit => Fit'
      BY <2>7 DEF Fit
    <3>2. Taken => Taken'
      BY <2>7, <3>0, <3>1 DEF Taken
    <3>3. (WasReset => WasReset') /\ (AddressTaken => AddressTaken')
      BY <1>0, <2>0, <2>7, <3>0, <3>2 DEF WasReset, AddressTaken, Steady
    <3>4. Addressing => Addressing'
      BY <1>0, <2>0, <2>7, <3>0, <3>2 DEF Addressing, Steady, SetupAlone
    <3>5. Agreed => Agreed'
      BY <1>0, <2>0, <2>7, <3>0, <3>1 DEF Agreed, Underway, Steady, SetupAlone
    <3> QED
      BY <3>0, <3>1, <3>3, <3>4, <3>5
  <2>8. CASE /\ dpc = "stream" /\ dpc' = "streamed" /\ dev' = dev
             /\ ep0.setup = None /\ ep0'.setup = None
    BY <1>0, <2>0, <2>8 DEF WasReset, Addressing, AddressTaken, Agreed, Steady
  <2> QED
    BY <1>2, <2>1, <2>2, <2>3, <2>4, <2>5, <2>6, <2>7, <2>8, Handlers
<1> QED
  BY <1>1, <1>2 DEF Device

\* USB_HOST_TIMEOUT_MS has passed, which is recorded.
LEMMA TimesOutNoted ==
  ASSUME Types, TimesOut PROVE past'.timeout
<1>1. PICK n : \/ past' = [past EXCEPT !.timeout = TRUE]
               \/ past' = [past EXCEPT !.faults = n, !.late = TRUE, !.timeout = TRUE]
  BY DEF TimesOut
<1> QED
  BY <1>1 DEF Types, PastTypes, Pasts

\* Apart from that, the record is cleared at the next first reset.
LEMMA Timeouts ==
  ASSUME Types, [Next]_vars
  PROVE  past'.timeout = past.timeout \/ DoReset \/ (TimesOut /\ past'.timeout)
<1>0. past \in Pasts
  BY DEF Types, PastTypes
<1>1. CASE TimesOut
  BY <1>1, TimesOutNoted
<1>2. CASE WaitFails \/ VoltageISR
  <2>1. past' = Cut
    BY <1>2 DEF WaitFails, VoltageISR
  <2> QED
    BY <2>1, CutTypes
<1>3. CASE Unplug
  <2>1. PICK n : past' = [Cut EXCEPT !.faults = n]
    BY <1>3 DEF Unplug
  <2> QED
    BY <2>1, CutTypes DEF Pasts
<1>4. CASE Dip
  <2>1. PICK n : past' = [past EXCEPT !.faults = n]
    BY <1>4 DEF Dip
  <2> QED
    BY <1>0, <2>1 DEF Pasts
<1>5. CASE Device \/ DisconnectISR \/ Discharged \/ AttachISR \/ DriveBus \/ Plug
           \/ PowerLost \/ UNCHANGED vars \/ (\E r \in AppRequests : Asks(r))
           \/ SetupSent \/ InReceived \/ OutSent \/ AckReceived
  <2>1. UNCHANGED past
    BY <1>5 DEF Device, DisconnectISR, Discharged, AttachISR, DriveBus, Plug, PowerLost,
       vars, Asks, Begin, SetupSent, InReceived, OutSent, AckReceived
  <2> QED
    BY <2>1
<1>6. CASE Switch \/ WaitForDevice \/ Powered \/ Settled \/ WaitForConnect
           \/ ConfigPipe \/ PostAddressSet \/ Answered \/ Default \/ PostReset
  <2>1. UNCHANGED past
    BY <1>6 DEF Switch, WaitForDevice, Powered, Settled, WaitForConnect, ConfigPipe,
       PostAddressSet, Answered, Default, PostReset, Store, Returns, Begin
  <2> QED
    BY <2>1
<1> QED
  BY <1>1, <1>2, <1>3, <1>4, <1>5, <1>6
     DEF Next, HostInterrupt, HostMain, HostTask, Transfer

\* The stage of a transfer after a step of its own, and after another step.
LEMMA StageSteps ==
  ASSUME Types, [Next]_vars
  PROVE  ctl' = ctl \/ ctl'.stage \in {"none", "setup"} \/ Transfer
<1>1. CASE Device \/ HostInterrupt \/ DriveBus \/ Plug \/ Unplug \/ PowerLost \/ Dip
           \/ UNCHANGED vars
  BY <1>1 DEF Device, HostInterrupt, DisconnectISR, VoltageISR, Discharged,
     AttachISR, DriveBus, Plug, Unplug, PowerLost, Dip, vars, hostVars
<1>2. ASSUME NEW r, Begin(r) PROVE ctl'.stage = "setup"
  BY <1>2 DEF Begin
<1>3. ASSUME ctl' = NoTransfer PROVE ctl'.stage = "none"
  BY <1>3 DEF NoTransfer
<1>4. CASE Switch \/ WaitForDevice \/ Powered \/ Settled \/ WaitForConnect
           \/ ConfigPipe \/ PostAddressSet \/ DoReset
  BY <1>4 DEF Switch, WaitForDevice, Powered, Settled, WaitForConnect, ConfigPipe,
     PostAddressSet, DoReset, Store
<1>5. CASE Default \/ PostReset \/ Answered \/ \E r \in AppRequests : Asks(r)
  <2>1. (\E r : Begin(r)) \/ ctl' = NoTransfer
    BY <1>5 DEF Default, PostReset, Answered, Asks, Returns
  <2> QED
    BY <1>2, <1>3, <2>1
<1> QED
  BY <1>1, <1>4, <1>5 DEF Next, HostMain, HostTask

\* The bus is resumed for a request, and suspended again only after it.
LEMMA StepDriven ==
  ASSUME Types, Driven, [Next]_vars PROVE Driven'
<1>1. ASSUME bus' = bus, ctl'.stage # "none" => ctl.stage # "none" PROVE Driven'
  BY <1>1 DEF Driven
<1>2. ASSUME bus' = "active" \/ ctl'.stage = "none" PROVE Driven'
  BY <1>2 DEF Driven
<1>3. ASSUME ResetInterface PROVE Driven'
  BY <1>2, <1>3 DEF ResetInterface
<1>4. ASSUME ResetBus, ctl'.stage = "none" \/ UNCHANGED ctl PROVE Driven'
  BY <1>1, <1>2, <1>4 DEF ResetBus, busVars
<1>5. CASE Transfer
  BY <1>1, <1>5, Staging DEF busVars
<1>6. CASE Device
  <2>1. UNCHANGED <<bus, ctl>>
    BY <1>6 DEF Device, Interrupt, DeviceTask, hostVars, GetStatus,
       GetConfiguration, GetDescriptor, SetAddress, AddressSet, SetConfiguration,
       TestConfiguration, Configured, ClearFeature, Stall, Stream, Streamed,
       ClearStatusStage, Handle, busVars
  <2> QED
    BY <1>1, <2>1
<1>7. CASE VoltageISR \/ Discharged \/ AttachISR \/ Plug \/ Unplug \/ PowerLost \/ Dip
           \/ Switch \/ UNCHANGED vars
  <2>1. UNCHANGED <<bus, ctl>>
    BY <1>7 DEF VoltageISR, Discharged, AttachISR, Plug, Unplug, PowerLost, Dip, Switch,
       vars, busVars, hostVars
  <2> QED
    BY <1>1, <2>1
<1>8. CASE DriveBus
  BY <1>2, <1>8 DEF DriveBus, Case, hostVars
<1>9. ASSUME NEW r, Begin(r) PROVE Driven'
  BY <1>2, <1>9 DEF Begin
<1>10. ASSUME ctl' = NoTransfer PROVE Driven'
  BY <1>2, <1>10 DEF NoTransfer
<1>11. ASSUME NEW c, NEW h, Store(c, h) PROVE Driven'
  BY <1>2, <1>11 DEF Store, Case
<1>12. CASE DisconnectISR \/ WaitForDevice
  BY <1>3, <1>11, <1>12 DEF DisconnectISR, WaitForDevice
<1>13. CASE DoReset
  BY <1>2, <1>13 DEF DoReset, Case
<1>14. CASE Powered \/ Settled \/ WaitForConnect \/ ConfigPipe \/ PostAddressSet
  BY <1>11, <1>14 DEF Powered, Settled, WaitForConnect, ConfigPipe, PostAddressSet
<1>15. CASE Default \/ PostReset \/ Answered \/ \E r \in AppRequests : Asks(r)
  <2>1. (\E r : Begin(r)) \/ ctl' = NoTransfer
    BY <1>15 DEF Default, PostReset, Answered, Asks, Returns
  <2> QED
    BY <1>9, <1>10, <2>1
<1> QED
  BY <1>5, <1>6, <1>7, <1>8, <1>12, <1>13, <1>14, <1>15
     DEF Next, HostInterrupt, HostMain, HostTask

\* A device that was pulled unnoticed is missed before the second bus reset.
LEMMA StepUnnoticed ==
  ASSUME Types, Wiring, Driven, Requesting, InCase, Unnoticed, [Next]_vars
  PROVE  Unnoticed'
<1> SUFFICES ASSUME Missed'
             PROVE  Early' /\ ctl'.stage \in {"none", "setup", "error"}
  BY DEF Unnoticed
<1>0. /\ host \in Hosts /\ ctl \in Transfers /\ ~cable' /\ "DDISCI" \notin hpend'
      /\ Attached' /\ ~ResetInterface /\ ~VoltageISR
  BY StepWiring DEF Missed, Types, HostTypes, CtlTypes
<1>1. ~Unplug /\ ~Plug /\ ~AttachISR /\ ~Discharged
  <2>1. ~Unplug /\ ~Discharged
    BY <1>0 DEF Unplug, Discharged
  <2>2. ~Plug
    BY <1>0 DEF Plug
  <2>3. ~AttachISR
    <3>1. AttachISR => cable /\ cable' = cable
      BY DEF AttachISR, AttachDue
    <3> QED
      BY <1>0, <3>1, SMTT(30)
  <2> QED
    BY <2>1, <2>2, <2>3
<1>2. Calm /\ Attached /\ ~cable
  <2>1. Calm
    BY <1>0, <1>1, Steps
  <2>2. cable' = cable
    BY <2>1 DEF Calm
  <2> QED
    BY <1>0, <1>1, <2>1, <2>2, StepWiring
<1>3. CASE "DDISCI" \in hpend
  BY <1>0, <1>2, <1>3 DEF Calm, Wiring
<1>4. CASE "DDISCI" \notin hpend
  <2>0. /\ Early /\ ctl.stage \in {"none", "setup", "error"} /\ ~plugged
        /\ host.state # "Unattached"
        /\ hpc \in HostStates => host.state = hpc
        /\ hpc = "request" => Enumerated
    BY <1>2, <1>4 DEF Missed, Unnoticed, Wiring, InCase
  <2>1. ctl'.stage \in {"none", "setup", "error"}
    <3>1. CASE Transfer
      <4>1. WaitFails
        BY <2>0, <3>1 DEF Transfer, SetupSent, Connected, Reaches, InReceived, OutSent,
           AckReceived, TimesOut, Stage
      <4>2. ctl' = [ctl EXCEPT !.stage = "error"]
        BY <4>1 DEF WaitFails, GoTo
      <4> QED
        BY <1>0, <4>2 DEF Transfers
    <3> QED
      BY <2>0, <3>1, StageSteps
  <2>2. ASSUME UNCHANGED host PROVE Early'
    BY <2>0, <2>2 DEF Early
  <2>3. CASE Device \/ Transfer \/ Switch \/ DriveBus \/ PowerLost \/ Dip \/ UNCHANGED vars
             \/ \E r \in AppRequests : Asks(r)
    <3>1. UNCHANGED host
      BY <2>3, Staging DEF Device, Switch, DriveBus, PowerLost, Dip, vars, hostVars, Asks,
         Begin
    <3> QED
      BY <2>1, <2>2, <3>1
  <2>4. ASSUME NEW s \in {"Powered", "Settle", "WaitForConnect", "DoReset", "ConfigPipe",
                         "Default"}, host' = Becomes(s)
        PROVE  Early'
    <3>1. Becomes(s).state = s
      BY <1>0 DEF Becomes, Hosts
    <3> QED
      BY <2>4, <3>1 DEF Early
  <2>5. CASE Powered \/ Settled \/ ConfigPipe
    BY <2>1, <2>4, <2>5 DEF Powered, Settled, ConfigPipe, Store
  <2>6. CASE WaitForDevice
    <3>1. host.state = "WaitForDevice" /\ host' = Becomes(host.post)
      BY <1>0, <2>0, <2>6 DEF WaitForDevice, Store, Case, HostStates
    <3>2. host.post \in {"DoReset", "ConfigPipe"}
      BY <2>0, <3>1 DEF Early
    <3> QED
      BY <2>1, <2>4, <3>1, <3>2
  <2>7. ASSUME NEW s \in {"DoReset", "ConfigPipe"}, NEW n, NEW E,
               \/ host' = [NonBlockWait(s) EXCEPT !.enabled = E]
               \/ host' = [NonBlockWait(s) EXCEPT !.config = n, !.enabled = E]
        PROVE  Early'
    <3>1. /\ NonBlockWait(s) \in Hosts /\ NonBlockWait(s).state = "WaitForDevice"
          /\ NonBlockWait(s).post = s
      BY <1>0, Waiting DEF HostStates
    <3>2. host'.state = "WaitForDevice" /\ host'.post = s
      <4>1. CASE host' = [NonBlockWait(s) EXCEPT !.enabled = E]
        BY <3>1, <4>1, HostFields
      <4>2. CASE host' = [NonBlockWait(s) EXCEPT !.config = n, !.enabled = E]
        BY <3>1, <4>2, HostFields, SMTT(30)
      <4> QED
        BY <2>7, <4>1, <4>2
    <3> QED
      BY <3>2 DEF Early
  <2>8. CASE WaitForConnect
    <3>1. \/ UNCHANGED host
          \/ host' = [NonBlockWait("DoReset") EXCEPT !.enabled = @ \cup {"VBERRI"}]
      BY <2>8 DEF WaitForConnect, Store
    <3> QED
      BY <2>1, <2>2, <2>7, <3>1
  <2>9. CASE DoReset
    BY <2>1, <2>7, <2>9 DEF DoReset, ResetDevice
  <2>10. CASE Default
    <3>1. ~Fail /\ ~Returns("Default", TRUE)
      BY <1>0, <2>0 DEF Fail, Returns
    <3> QED
      BY <2>1, <2>2, <2>10, <3>1 DEF Default, Begin
  <2>11. ~PostReset /\ ~PostAddressSet /\ ~Answered
    BY <2>0 DEF PostReset, PostAddressSet, Answered, Store, Case, Returns, Early,
       Enumerated, HostStates
  <2>12. ~DisconnectISR
    BY <1>0 DEF DisconnectISR
  <2> QED
    BY <1>0, <1>1, <2>1, <2>3, <2>5, <2>6, <2>8, <2>9, <2>10, <2>11, <2>12
       DEF Next, HostInterrupt, HostMain, HostTask
<1> QED
  BY <1>3, <1>4

\* So a request that has timed out is on record.
LEMMA StepNoted ==
  ASSUME Types, Noted, [Next]_vars PROVE Noted'
<1>0. ctl \in Transfers /\ past.timeout \in BOOLEAN
  BY DEF Types, CtlTypes, PastTypes, Pasts
<1>1. CASE DoReset
  BY <1>1 DEF DoReset, Case, Noted
<1>2. CASE TimesOut /\ past'.timeout
  BY <1>2 DEF Noted
<1>3. CASE past'.timeout = past.timeout
  <2>1. CASE Transfer /\ ~TimesOut
    <3>1. FirstStage(ctl.req) # "timeout"
      BY DEF FirstStage
    <3>2. PICK s : ctl' = [ctl EXCEPT !.stage = s] /\ s # "timeout"
      BY <2>1, <3>1 DEF Transfer, SetupSent, InReceived, OutSent, AckReceived, WaitFails,
         GoTo
    <3> QED
      BY <1>0, <3>2 DEF Transfers, Noted
  <2>2. CASE TimesOut
    BY <1>2, <2>2, TimesOutNoted
  <2> QED
    BY <1>3, <2>1, <2>2, StageSteps DEF Noted
<1> QED
  BY <1>1, <1>2, <1>3, Timeouts

\* A transfer keeps the promises of the state it was begun in.
LEMMA TransferKeeps ==
  ASSUME Types, Requesting, SetupAlone, Transfer, ~TimesOut, plugged
  PROVE  /\ hpc = "PostReset" /\ Addressing => Addressing'
         /\ hpc = "request" /\ host.state # "Unattached" /\ Agreed => Agreed'
<1>0. ctl \in Transfers /\ ep0 \in Endpoints /\ dev.addressed \in BOOLEAN
      /\ host.address \in BOOLEAN
  BY DEF Types, CtlTypes, Ep0Types, DeviceTypes, Devices, HostTypes, Hosts
<1>1. /\ UNCHANGED <<dev, pend, dpc, target, host>> /\ ctl'.req = ctl.req
      /\ ctl.stage # "none" /\ (Fit => Fit')
  BY Staging DEF deviceVars, Fit
<1>2. Request("SetAddress", 1) # None
  BY NoneAssumption DEF Requests
<1>3. CASE SetupSent
  <2>1. /\ ctl.stage = "setup" /\ ctl' = [ctl EXCEPT !.stage = FirstStage(ctl.req)]
        /\ ep0'.setup = ctl.req /\ ep0'.in = None
    BY <1>3 DEF SetupSent, Stage, GoTo, Quiet
  <2>2. ctl'.stage = FirstStage(ctl.req)
    BY <1>0, <2>1 DEF Transfers
  <2>3. hpc = "PostReset" /\ Addressing => Addressing'
    <3>1. hpc = "PostReset" => ctl'.stage = "ack" /\ ep0'.setup = Request("SetAddress", 1)
      BY <1>1, <2>1, <2>2, SMTT(30) DEF Requesting, FirstStage, Request
    <3> QED
      BY <1>1, <1>2, <3>1 DEF Addressing, Steady
  <2>4. Agreed => Agreed'
    <3>1. ctl'.stage \in {"in", "out", "ack"}
      BY <2>2 DEF FirstStage
    <3> QED
      BY <1>1, <2>1, <3>1 DEF Agreed, Underway, Steady
  <2> QED
    BY <2>3, <2>4
<1>4. CASE AckReceived
  <2>1. /\ ctl.stage = "ack" /\ ctl' = [ctl EXCEPT !.stage = "ok"]
        /\ ep0.in # None /\ ep0' = [ep0 EXCEPT !.in = None]
    BY <1>4 DEF AckReceived, Stage, GoTo, Ready
  <2>2. ctl'.stage = "ok" /\ ep0.setup = None /\ ep0'.setup = None /\ ep0'.in = None
    BY <1>0, <2>1 DEF Transfers, Endpoints, SetupAlone
  <2>3. Addressing => Addressing'
    BY <1>1, <2>1, <2>2 DEF Addressing, Steady, Taken
  <2>4. Agreed => Agreed'
    BY <1>1, <2>1, <2>2 DEF Agreed, Underway, Steady
  <2> QED
    BY <2>3, <2>4
<1>5. CASE InReceived
  <2>1. /\ ctl.stage = "in" /\ ep0.in # None /\ ep0' = [ep0 EXCEPT !.in = None]
        /\ \/ ctl' = [ctl EXCEPT !.stage = "in"] \/ ctl' = [ctl EXCEPT !.stage = "out"]
    BY <1>5 DEF InReceived, Stage, GoTo, Ready
  <2>2. /\ ctl'.stage \in {"in", "out"} /\ ep0.setup = None /\ ep0'.setup = None
        /\ ep0'.in = None
    BY <1>0, <2>1 DEF Transfers, Endpoints, SetupAlone
  <2>3. hpc # "PostReset" /\ (hpc = "request" => ctl.req.kind # "SetConfiguration")
    BY <2>1 DEF Requesting
  <2> QED
    BY <1>1, <2>1, <2>2, <2>3 DEF Agreed, Underway, Steady
<1>6. CASE OutSent
  <2>1. /\ ctl.stage = "out" /\ ctl' = [ctl EXCEPT !.stage = "ok"]
        /\ ep0.setup = None /\ ep0' = [ep0 EXCEPT !.out = TRUE]
    BY <1>6 DEF OutSent, Stage, GoTo, Ready
  <2>2. ctl'.stage = "ok" /\ ep0'.setup = None
    BY <1>0, <2>1 DEF Transfers, Endpoints
  <2>3. hpc # "PostReset" /\ (hpc = "request" => ctl.req.kind # "SetConfiguration")
    BY <2>1 DEF Requesting
  <2> QED
    BY <1>1, <2>1, <2>2, <2>3 DEF Agreed, Underway, Steady
<1>7. CASE WaitFails
  <2>1. /\ ctl.stage \in {"setup", "in", "out", "ack"} /\ ep0' = ep0
        /\ ctl' = [ctl EXCEPT !.stage = "error"]
        /\ ~Connected \/ (ep0.stall /\ ctl.stage # "setup")
    BY <1>7 DEF WaitFails, Stage, GoTo
  <2>2. ctl'.stage = "error"
    BY <1>0, <2>1 DEF Transfers
  <2>3. Addressing => Addressing'
    BY <1>1, <2>1, <2>2 DEF Addressing, Steady
  <2>4. ASSUME Agreed, host.state # "Unattached" PROVE Agreed'
    <3>1. Connected
      BY <1>0, <2>4 DEF Connected, Reaches, Agreed
    <3>2. ep0.stall /\ ep0.setup = None /\ ctl.stage \in {"in", "out", "ack"}
      BY <2>1, <3>1 DEF SetupAlone
    <3> QED
      BY <1>1, <2>1, <2>2, <2>4, <3>2 DEF Agreed, Underway, Steady
  <2> QED
    BY <2>3, <2>4
<1> QED
  BY <1>3, <1>4, <1>5, <1>6, <1>7 DEF Transfer

\* When the device waits, it has served the reset, and no packet that the host
\* no longer wants keeps it busy.
LEMMA Served0 ==
  ASSUME Types, WasReset, DeviceWaits
  PROVE  dev.config = 0 /\ Steady
<1>1. dpc \notin {"address", "stream"}
  BY DEF WasReset, DeviceWaits
<1>2. pend = {}
  BY <1>1 DEF DeviceWaits, InterruptDue, InterruptsOn
<1> QED
  BY <1>1, <1>2 DEF WasReset, Steady

\* When the device waits, it has taken the address.
LEMMA TookAddress ==
  ASSUME AddressTaken, DeviceWaits PROVE dev.addressed /\ Fit
BY DEF AddressTaken, Taken, DeviceWaits

\* While the device stays attached and no request times out, every step of the
\* host, of the device and of the bus keeps what the host's states promise.
LEMMA StepProgress ==
  ASSUME Inv, [Next]_vars PROVE Progress'
<1> SUFFICES ASSUME Session', ~past'.timeout PROVE Promises'
  BY DEF Progress
<1>0. /\ Types /\ Wiring /\ Driven /\ Requesting /\ SetupAlone /\ Noted /\ InCase
      /\ Unnoticed /\ Progress
      /\ host \in Hosts /\ past.timeout \in BOOLEAN
  BY DEF Inv, Types, HostTypes, PastTypes, Pasts
<1>a. ASSUME host'.state \notin {"WaitForDevice", "PostReset", "PostAddressSet",
                                  "Addressed", "Configured"}
      PROVE  Promises'
  BY <1>a DEF Promises, Enumerated
<1>b. ASSUME host'.state = "WaitForDevice",
             host'.post \notin {"PostReset", "PostAddressSet"}
      PROVE  Promises'
  BY <1>b DEF Promises, Enumerated
<1>1. CASE Early'
  BY <1>a, <1>b, <1>1 DEF Early
<1>2. CASE Session /\ Calm /\ ~Early'
  <2>i. ~ResetInterface /\ ~VoltageISR /\ ~DoReset /\ ~AttachISR
    <3>1. Wiring' /\ (Attached' => ~ResetInterface /\ ~VoltageISR)
      BY <1>0, StepWiring
    <3>2. ~DoReset
      <4>1. "ConfigPipe" \in HostStates
        BY DEF HostStates
      <4>2. DoReset => host'.state = "WaitForDevice" /\ host'.post = "ConfigPipe"
        BY <1>0, <4>1, Waiting DEF DoReset
      <4> QED
        BY <1>2, <4>2 DEF Early
    <3> QED
      BY <1>2, <3>1, <3>2 DEF AttachISR, AttachDue, Session, Attached, Wiring
  <2>0. /\ host.state # "Unattached" /\ plugged
        /\ hpc \in HostStates => host.state = hpc
        /\ hpc = "request" => Enumerated
        /\ host.state = "WaitForDevice" =>
             host.post \in {"DoReset", "ConfigPipe", "PostReset", "PostAddressSet"}
    BY <1>0, <1>2 DEF InCase, Session, Attached, Wiring
  <2>1. ~TimesOut
    BY <1>0, TimesOutNoted
  <2>2. ~past.timeout /\ Promises /\ ctl.stage # "timeout"
    BY <1>0, <1>2, <2>i, <2>1, Timeouts DEF Progress, Noted
  <2>b. ASSUME UNCHANGED <<dev, dpc, target>> PROVE Fit => Fit'
    BY <2>b DEF Fit
  <2>a. ASSUME UNCHANGED <<host, ctl, dev, pend, ep0, dpc, target>> PROVE Promises'
    <3>1. (Fit => Fit') /\ (Taken => Taken')
      BY <2>a, <2>b DEF Taken
    <3> QED
      BY <2>2, <2>a, <3>1 DEF Promises, Enumerated, WasReset, Addressing, AddressTaken,
         Agreed, Underway, Steady
  <2>3. CASE Device
    <3>1. UNCHANGED host
      BY <2>3 DEF Device, hostVars
    <3>2. Enumerated /\ ctl.stage # "none" =>
             ctl.req.kind \notin {"DescriptorSize", "SetAddress"}
      BY <1>0, <2>0 DEF Requesting, Enumerated, HostStates
    <3> QED
      BY <1>0, <2>2, <2>3, <3>1, <3>2, DeviceKeeps DEF Promises, Enumerated
  <2>4. CASE Transfer
    <3>1. UNCHANGED <<host, hpc>> /\ ctl.stage # "none"
      BY <1>0, <2>4, Staging
    <3>2. hpc \in {"Default", "PostReset", "request"}
      BY <1>0, <3>1 DEF Requesting
    <3>3. \/ host.state = "Default"
          \/ hpc = "PostReset" /\ host.state = "PostReset"
          \/ hpc = "request" /\ Enumerated
      BY <2>0, <3>2 DEF HostStates
    <3>4. /\ hpc = "PostReset" /\ Addressing => Addressing'
          /\ hpc = "request" /\ Agreed => Agreed'
      BY <1>0, <2>0, <2>1, <2>4, TransferKeeps
    <3> QED
      BY <2>2, <3>1, <3>3, <3>4 DEF Promises, Enumerated
  <2>5. CASE Switch \/ DriveBus \/ Dip \/ Discharged \/ UNCHANGED vars
    <3>1. UNCHANGED <<host, ctl, dev, pend, ep0, dpc, target>>
      BY <2>5 DEF Switch, DriveBus, Dip, Discharged, deviceVars, hostVars, vars
    <3> QED
      BY <2>a, <3>1
  <2>6. ~Plug /\ ~Unplug /\ ~DisconnectISR /\ ~PowerLost
    BY <1>2, <2>i, <2>0 DEF Calm, Plug, Unplug, DisconnectISR, PowerLost
  <2>7. CASE WaitForDevice
    <3>1. /\ DeviceWaits /\ host.state = "WaitForDevice" /\ ctl.stage = "none"
          /\ host' = Becomes(host.post) /\ UNCHANGED <<ctl, dev, pend, ep0, dpc, target>>
      BY <2>i, <2>0, <2>7 DEF WaitForDevice, Store, Case, HostStates, deviceVars
    <3>2. host'.state = host.post /\ host'.config = host.config
      BY <1>0, <3>1, HostFields, SMTT(30) DEF Becomes
    <3>3. CASE host.post = "PostReset"
      <4>1. WasReset /\ dev.config = 0 /\ Steady
        BY <1>0, <2>2, <3>1, <3>3, Served0 DEF Promises
      <4>2. Addressing'
        BY <3>1, <3>2, <4>1 DEF WasReset, Addressing, Steady
      <4> QED
        BY <3>2, <3>3, <4>2 DEF Promises, Enumerated
    <3>4. CASE host.post = "PostAddressSet"
      <4>1. AddressTaken /\ dev.addressed /\ Fit
        BY <2>2, <3>1, <3>4, TookAddress DEF Promises
      <4>2. AddressTaken' /\ dev'.addressed /\ Fit'
        BY <2>b, <3>1, <3>2, <4>1 DEF AddressTaken, Steady, Taken
      <4> QED
        BY <3>2, <3>4, <4>2 DEF Promises, Enumerated
    <3>5. CASE host.post \in {"DoReset", "ConfigPipe"}
      BY <1>a, <3>2, <3>5
    <3> QED
      BY <2>0, <3>1, <3>3, <3>4, <3>5
  <2>8. CASE Powered \/ Settled \/ ConfigPipe
    <3>1. \E s \in {"Settle", "WaitForConnect", "Default"} : host' = Becomes(s)
      BY <2>8 DEF Powered, Settled, ConfigPipe, Store
    <3>2. host'.state \in {"Settle", "WaitForConnect", "Default"}
      BY <1>0, <3>1, HostFields, SMTT(30) DEF Becomes
    <3> QED
      BY <1>a, <3>2
  <2>9. CASE PostAddressSet
    <3>1. /\ host.state = "PostAddressSet" /\ ctl.stage = "none"
          /\ host' = [Becomes("Addressed") EXCEPT !.address = TRUE]
          /\ UNCHANGED <<ctl, dev, pend, ep0, dpc, target>>
      BY <2>0, <2>9 DEF PostAddressSet, Store, Case, HostStates, deviceVars
    <3>2. host'.state = "Addressed" /\ host'.address /\ host'.config = host.config
      BY <1>0, <3>1 DEF Becomes, Hosts
    <3>3. AddressTaken /\ dev.addressed /\ Fit
      BY <2>2, <3>1 DEF Promises
    <3>4. Agreed'
      BY <2>b, <3>1, <3>2, <3>3 DEF AddressTaken, Agreed, Steady
    <3> QED
      BY <3>2, <3>4 DEF Promises, Enumerated
  <2>10. CASE WaitForConnect
    <3>1. CASE Store("WaitForConnect", host)
      <4>1. host'.state = "WaitForConnect"
        BY <2>0, <3>1 DEF Store, Case, HostStates
      <4> QED
        BY <1>a, <4>1
    <3>2. CASE Store("WaitForConnect",
                  [NonBlockWait("DoReset") EXCEPT !.enabled = @ \cup {"VBERRI"}])
      <4>1. PICK E : host' = [NonBlockWait("DoReset") EXCEPT !.enabled = E]
        BY <3>2 DEF Store
      <4>2. "DoReset" \in HostStates
        BY DEF HostStates
      <4>3. NonBlockWait("DoReset") \in Hosts
            /\ NonBlockWait("DoReset").state = "WaitForDevice"
            /\ NonBlockWait("DoReset").post = "DoReset"
        BY <1>0, <4>2, Waiting
      <4>4. host'.state = "WaitForDevice" /\ host'.post = "DoReset"
        BY <4>1, <4>3, HostFields, SMTT(30)
      <4> QED
        BY <1>b, <4>4
    <3> QED
      BY <2>10, <3>1, <3>2 DEF WaitForConnect
  <2>11. ~Fail
    BY <2>i, <2>0 DEF Fail
  <2>12. CASE Default
    <3>1. CASE Case("Default") /\ Begin(Request("DescriptorSize", 0))
      <4>1. host'.state = "Default"
        BY <2>0, <3>1 DEF Begin, Case, HostStates
      <4> QED
        BY <1>a, <4>1
    <3>2. CASE ResetDevice("PostReset")
      <4>1. "PostReset" \in HostStates
        BY DEF HostStates
      <4>2. host'.state = "WaitForDevice" /\ host'.post = "PostReset" /\ host'.config = 0
        BY <1>0, <3>2, <4>1, Waiting
      <4>3. ep0' = Quiet /\ "EORSTI" \in pend'
        BY <2>0, <3>2 DEF ResetDevice, ResetBus
      <4>4. WasReset'
        BY <4>2, <4>3 DEF WasReset, Quiet
      <4> QED
        BY <4>2, <4>4 DEF Promises, Enumerated
    <3> QED
      BY <2>11, <2>12, <3>1, <3>2 DEF Default
  <2>13. CASE PostReset
    <3>0. hpc = "PostReset" /\ host.state = "PostReset" /\ Addressing
      <4>1. hpc = "PostReset"
        BY <2>13 DEF PostReset, Case, Returns
      <4> QED
        BY <2>0, <2>2, <4>1 DEF HostStates, Promises
    <3>1. CASE Case("PostReset") /\ Begin(Request("SetAddress", 1))
      <4>1. ctl.stage = "none" /\ ctl'.stage = "setup"
            /\ UNCHANGED <<host, dev, pend, ep0, dpc>>
        BY <3>1 DEF Case, Begin, deviceVars
      <4>2. Addressing'
        BY <3>0, <4>1 DEF Addressing, Steady
      <4> QED
        BY <3>0, <4>1, <4>2 DEF Promises, Enumerated
    <3>2. CASE /\ Returns("PostReset", TRUE) /\ host' = NonBlockWait("PostAddressSet")
               /\ UNCHANGED <<busVars, deviceVars, ep0, hpend>>
      <4>1. ctl.stage = "ok" /\ UNCHANGED <<dev, pend, ep0, dpc, target>>
        BY <3>2 DEF Returns, deviceVars
      <4>2. "PostAddressSet" \in HostStates
        BY DEF HostStates
      <4>3. host'.state = "WaitForDevice" /\ host'.post = "PostAddressSet"
            /\ host'.config = host.config
        BY <1>0, <3>2, <4>2, Waiting
      <4>4. AddressTaken'
        BY <2>b, <3>0, <4>1, <4>3 DEF Addressing, AddressTaken, Steady, Taken
      <4> QED
        BY <4>3, <4>4 DEF Promises, Enumerated
    <3> QED
      BY <2>11, <2>13, <3>1, <3>2 DEF PostReset
  <2>14. CASE Answered
    <3>0. /\ hpc = "request" /\ ctl' = NoTransfer
          /\ UNCHANGED <<dev, pend, ep0, dpc, target>>
          /\ \/ ctl.stage = "ok" /\ host' = StoreConfiguration(ctl.req)
             \/ ctl.stage = "error" /\ host' = host
      BY <2>2, <2>14 DEF Answered, Returns, deviceVars
    <3>1. Agreed /\ ctl'.stage = "none"
      BY <2>0, <2>2, <3>0 DEF Promises, NoTransfer
    <3>2. CASE ctl.stage = "error" /\ host' = host
      BY <2>0, <2>b, <3>0, <3>1, <3>2 DEF Agreed, Steady, Promises, Enumerated
    <3>3. CASE ctl.stage = "ok" /\ ctl.req.kind = "SetConfiguration"
               /\ host' = StoreConfiguration(ctl.req)
      <4>1. PICK s \in {"Configured", "Addressed"} :
               host' = [host EXCEPT !.config = ctl.req.arg, !.state = s]
        BY <3>3 DEF StoreConfiguration
      <4>2. host'.state = s /\ host'.config = ctl.req.arg /\ host'.address = host.address
        BY <1>0, <4>1, HostFields, SMTT(30)
      <4>3. Agreed'
        BY <2>b, <3>0, <3>1, <3>3, <4>2 DEF Agreed, Steady
      <4> QED
        BY <4>2, <4>3 DEF Promises, Enumerated
    <3>4. CASE ctl.stage = "ok" /\ ctl.req.kind # "SetConfiguration"
               /\ host' = StoreConfiguration(ctl.req)
      <4>1. host' = host
        BY <3>4 DEF StoreConfiguration
      <4> QED
        BY <2>0, <2>b, <3>0, <3>1, <3>4, <4>1 DEF Agreed, Steady, Promises, Enumerated
    <3> QED
      BY <3>0, <3>2, <3>3, <3>4
  <2>15. CASE \E r \in AppRequests : Asks(r)
    <3>1. Enumerated /\ ctl.stage = "none" /\ ctl'.stage = "setup"
          /\ UNCHANGED <<host, dev, pend, ep0, dpc, target>>
      BY <2>15, SMTT(30) DEF Asks, Case, Begin, deviceVars
    <3> QED
      BY <2>2, <2>b, <3>1 DEF Agreed, Steady, Promises, Enumerated
  <2> QED
    BY <2>i, <2>3, <2>4, <2>5, <2>6, <2>7, <2>8, <2>9, <2>10, <2>12, <2>13, <2>14, <2>15
       DEF Next, HostInterrupt, HostMain, HostTask
<1> QED
  BY <1>0, <1>1, <1>2, StepWiring

\* Nothing is attached at first.
LEMMA InitInv == Init => Inv
<1> SUFFICES ASSUME Init PROVE Inv
  OBVIOUS
<1>1. DeviceTypes /\ Ep0Types
  BY QuietTypes, NewTypes
     DEF Init, InitDevice, DeviceTypes, Ep0Types, DeviceStates, Tasks
<1>2. HostTypes /\ CtlTypes /\ PastTypes
  BY DEF Init, HostTypes, Hosts, HostStates, CtlTypes, NoTransfer, Transfers, Stages,
     PastTypes, Pasts
<1>3. /\ Wiring /\ Driven /\ Requesting /\ SetupAlone /\ Noted /\ InCase /\ Unnoticed
      /\ Progress
  BY DEF Init, InitDevice, Quiet, NoTransfer, Wiring, Driven, Requesting, SetupAlone, Noted,
     InCase, Unnoticed, Missed, Attached, Progress, Session
<1> QED
  BY <1>1, <1>2, <1>3 DEF Inv, Types

\* The invariant is inductive.
LEMMA StepInv == Inv /\ [Next]_vars => Inv'
<1> SUFFICES ASSUME Inv, [Next]_vars PROVE Inv'
  OBVIOUS
<1>1. Types /\ Wiring /\ Driven /\ Requesting /\ SetupAlone /\ Noted /\ InCase /\ Unnoticed
  BY DEF Inv
<1> QED
  BY <1>1, StepTypes, StepWiring, StepDriven, StepRequesting, StepSetupAlone, StepNoted,
     StepInCase, StepUnnoticed, StepProgress DEF Inv

\* What the host's application may rely on between two requests: a device that
\* USB_HostState calls addressed or configured, and whose disconnection is not
\* waiting for a suspended bus to be resumed, has its address and the
\* configuration of USB_Host_ConfigurationNumber, and its USB_DeviceState gets
\* there too, whatever was unplugged, exchanged, reset, suspended, refused or
\* sagging before, as long as no request has timed out since the enumeration
\* began.
THEOREM EnumerationAgrees == Spec => []EnumeratedAgrees
<1>1. Inv => EnumeratedAgrees
  <2> SUFFICES ASSUME Inv, Enumerated, hpc = "idle", HostReady, plugged,
                      "DDISCI" \notin hpend, ~past.timeout
               PROVE  /\ dev.addressed /\ dev.config = host.config
                      /\ bus = "active" /\ dpc = "idle" /\ ~InterruptDue =>
                           /\ dev.state \in {"Addressed", "Configured"}
                           /\ host.config # 0 => dev.state = "Configured"
    BY DEF EnumeratedAgrees
  <2>1. Types /\ Wiring /\ Requesting /\ Progress
    BY DEF Inv
  <2>2. "SRPI" \notin host.enabled
    BY <2>1 DEF HostReady, AttachDue, Wiring
  <2>3. Session
    BY <2>1, <2>2 DEF Session
  <2>4. Agreed /\ ctl.stage = "none"
    BY <2>1, <2>3 DEF Progress, Promises, Requesting
  <2>5. dev.addressed /\ dev.config = host.config /\ Fit /\ pend = {}
    BY <2>4 DEF Agreed, Steady
  <2>6. ASSUME bus = "active", dpc = "idle", ~InterruptDue PROVE dev.state # "Suspended"
    <3>1. Served = dev
      BY <2>5, <2>6 DEF InterruptDue, InterruptsOn
    <3>2. OnVBUS(dev) = dev /\ OnSuspend(dev) = dev /\ OnReset(OnWakeUp(dev)) = OnWakeUp(dev)
      BY <2>5, <2>6 DEF OnVBUS, OnSuspend, OnReset
    <3>3. OnWakeUp(dev) = dev
      BY <3>1, <3>2 DEF Served
    <3>4. ASSUME "WAKEUPI" \in dev.enabled PROVE FALSE
      <4>1. dev = [dev EXCEPT !.state = Woken(dev),
                              !.enabled = (dev.enabled \ {"WAKEUPI"}) \cup {"SUSPI"}]
        BY <2>1, <2>6, <3>3, <3>4 DEF OnWakeUp, Types, DeviceTypes, Devices
      <4>2. dev.enabled = (dev.enabled \ {"WAKEUPI"}) \cup {"SUSPI"}
        BY <2>1, <4>1 DEF Types, DeviceTypes, Devices
      <4> QED
        BY <3>4, <4>2
    <3> QED
      BY <2>5, <3>4 DEF Fit
  <2> QED
    BY <2>5, <2>6 DEF Fit
<1> QED
  BY <1>1, InitInv, StepInv, PTL DEF Spec

-----------------------------------------------------------------------------
(* Configurations.                                                          *)

\* A configuration that the device does not have is never accepted.
LEMMA StepUnaccepted ==
  ASSUME Types, Requesting, Unaccepted, [Next]_vars PROVE Unaccepted'
<1>0. ctl \in Transfers /\ ep0 \in Endpoints /\ Types'
  BY StepTypes DEF Types, CtlTypes, Ep0Types
<1>1. ASSUME UNCHANGED <<hpc, ctl, ep0, dpc>> PROVE Unaccepted'
  BY <1>1 DEF Unaccepted, UnknownAsked
<1>2. ASSUME hpc' # "request" PROVE Unaccepted'
  BY <1>2 DEF Unaccepted, UnknownAsked
<1>3. CASE Device
  <2>1. UNCHANGED <<hpc, ctl>>
    BY <1>3 DEF Device, hostVars
  <2>2. CASE Interrupt
    BY <1>1, <2>1, <2>2 DEF Interrupt
  <2>3. CASE DeviceTask
    <3> SUFFICES ASSUME UnknownAsked, ctl.stage = "ack"
                 PROVE  /\ ep0'.in = None /\ ep0'.setup \in {None, ctl.req}
                        /\ ep0'.setup = None => dpc' # "stream"
      BY <2>1 DEF Unaccepted, UnknownAsked
    <3>1. /\ ep0.in = None /\ ep0.setup \in {None, ctl.req}
          /\ ep0.setup = None => dpc # "stream"
          /\ ctl.req.kind = "SetConfiguration"
      BY DEF Unaccepted, UnknownAsked
    <3>2. CASE /\ ep0.setup # None /\ ep0.setup.kind = "SetConfiguration"
               /\ dev'.config = ep0.setup.arg
      <4>1. dev'.config \in 0..NumberOfConfigurations
        BY <1>0 DEF Types, DeviceTypes, Devices
      <4>2. ctl.req.arg > NumberOfConfigurations /\ ctl.req.arg = dev'.config
        BY <3>1, <3>2 DEF UnknownAsked
      <4> QED
        BY <4>1, <4>2, USBDeviceAssumption, SMTT(30)
    <3>3. CASE ~(/\ ep0.setup # None /\ ep0.setup.kind = "SetConfiguration"
                 /\ dev'.config = ep0.setup.arg)
      BY <2>3, <3>1, <3>3, Handlers, AddressHandlers
    <3> QED
      BY <3>2, <3>3
  <2> QED
    BY <1>3, <2>2, <2>3 DEF Device
<1>4. CASE Transfer
  <2> SUFFICES ASSUME UnknownAsked'
               PROVE  /\ ctl'.stage # "ok"
                      /\ ctl'.stage = "ack" =>
                           /\ ep0'.in = None /\ ep0'.setup \in {None, ctl'.req}
                           /\ ep0'.setup = None => dpc' # "stream"
    BY DEF Unaccepted
  <2>1. hpc' = hpc /\ ctl'.req = ctl.req
    BY <1>4, Staging
  <2>2. /\ UnknownAsked /\ ctl.stage \notin {"in", "out"} /\ ctl.req \in Requests
        /\ ctl.req # None
    BY <2>1, NoneAssumption DEF UnknownAsked, Requesting
  <2>3. CASE SetupSent
    <3>1. ep0'.in = None /\ ep0'.setup = ctl.req
      BY <2>3 DEF SetupSent, Quiet
    <3>2. ctl' = [ctl EXCEPT !.stage = "ack"]
      BY <2>2, <2>3 DEF SetupSent, GoTo, FirstStage, UnknownAsked
    <3>3. ctl'.stage = "ack"
      BY <1>0, <3>2 DEF Transfers
    <3> QED
      BY <2>1, <2>2, <3>1, <3>3
  <2>4. CASE WaitFails \/ TimesOut
    <3>1. \E s \in {"error", "timeout"} : ctl' = [ctl EXCEPT !.stage = s]
      BY <2>4 DEF WaitFails, TimesOut, GoTo
    <3> QED
      BY <1>0, <3>1 DEF Transfers
  <2>5. ~InReceived /\ ~OutSent /\ ~AckReceived
    BY <2>2 DEF InReceived, OutSent, AckReceived, Stage, Ready, Unaccepted
  <2> QED
    BY <1>4, <2>3, <2>4, <2>5 DEF Transfer
<1>5. CASE HostInterrupt \/ Plug \/ Unplug \/ Dip \/ DriveBus \/ UNCHANGED vars
  <2>1. UNCHANGED <<hpc, ctl, ep0, dpc>>
    BY <1>5 DEF HostInterrupt, DisconnectISR, VoltageISR, Discharged, AttachISR,
       Plug, Unplug, Dip, DriveBus, ResetInterface, Power, vars, hostVars, deviceVars
  <2> QED
    BY <1>1, <2>1
<1>6. CASE \E r \in AppRequests : Asks(r)
  <2>1. ctl'.stage = "setup"
    BY <1>6, SMTT(30) DEF Asks, Begin
  <2> QED
    BY <2>1 DEF Unaccepted
<1>9. CASE PowerLost
  <2>1. UNCHANGED <<hpc, ctl>> /\ ep0' = Quiet /\ dpc' = "idle"
    BY <1>9 DEF PowerLost, hostVars
  <2>2. ep0'.in = None /\ ep0'.setup = None
    BY <2>1 DEF Quiet
  <2> QED
    BY <2>1, <2>2 DEF Unaccepted, UnknownAsked
<1>7. CASE HostTask
  <2>1. CASE Switch
    <3>1. hpc' \in HostStates
      BY <2>1 DEF Switch, Types, HostTypes, Hosts
    <3> QED
      BY <1>2, <3>1 DEF HostStates
  <2>2. CASE HostTask /\ ~Switch
    <3>1. hpc' = "idle" \/ (hpc' = hpc /\ hpc \in {"Default", "PostReset"})
      BY <2>2 DEF HostTask, WaitForDevice, Powered, Settled, WaitForConnect,
         DoReset, ConfigPipe, Default, PostReset, PostAddressSet, Store, Returns, Case
    <3> QED
      BY <1>2, <3>1
  <2> QED
    BY <1>7, <2>1, <2>2
<1>8. CASE Answered
  BY <1>2, <1>8 DEF Answered, Returns
<1> QED
  BY <1>3, <1>4, <1>5, <1>6, <1>7, <1>8, <1>9 DEF Next, HostMain

\* Otherwise the host's number of the configuration stays or becomes 0.
LEMMA ConfigurationSteps ==
  ASSUME Types, [Next]_vars
  PROVE  host'.config \in {host.config, 0} \/ Answered
<1>0. host \in Hosts
  BY DEF Types, HostTypes
<1>1. ASSUME NEW s PROVE Becomes(s).config = host.config
  BY <1>0, HostFields DEF Becomes
<1>2. ASSUME NEW s, ResetDevice(s) PROVE host'.config = 0
  <2>1. DOMAIN NonBlockWait(s) = {"state", "post", "config", "address", "enabled", "vbus"}
    BY <1>0 DEF NonBlockWait, Hosts
  <2>2. PICK E : host' = [NonBlockWait(s) EXCEPT !.config = 0, !.enabled = E]
    BY <1>2 DEF ResetDevice
  <2> QED
    BY <2>1, <2>2
<1>3. ASSUME ResetInterface PROVE host'.config = 0
  BY <1>0, <1>3 DEF ResetInterface, Hosts
<1>4. CASE Device \/ Discharged \/ Plug \/ Unplug \/ PowerLost \/ Dip \/ DriveBus
           \/ UNCHANGED vars
           \/ Switch \/ (\E r \in AppRequests : Asks(r)) \/ Transfer
  <2>1. UNCHANGED host
    BY <1>4, Staging DEF Device, Discharged, Plug, Unplug, PowerLost, Dip, DriveBus,
       vars, hostVars, Switch, Asks, Begin
  <2> QED
    BY <2>1
<1>5. CASE VoltageISR
  BY <1>0, <1>5 DEF VoltageISR, Hosts
<1>6. CASE AttachISR
  BY <1>0, <1>6 DEF AttachISR, Hosts
<1>7. CASE DisconnectISR
  BY <1>3, <1>7 DEF DisconnectISR
<1>8. CASE WaitForDevice \/ Powered \/ Settled \/ ConfigPipe
  BY <1>1, <1>3, <1>8 DEF WaitForDevice, Powered, Settled, ConfigPipe, Store
<1>9. CASE PostAddressSet
  <2>1. host' = [Becomes("Addressed") EXCEPT !.address = TRUE]
    BY <1>9 DEF PostAddressSet, Store
  <2> QED
    BY <1>0, <2>1 DEF Becomes, Hosts
<1>10. CASE WaitForConnect
  <2>1. CASE host' = host
    BY <2>1
  <2>2. CASE Store("WaitForConnect",
                [NonBlockWait("DoReset") EXCEPT !.enabled = @ \cup {"VBERRI"}])
    <3>1. PICK E : host' = [NonBlockWait("DoReset") EXCEPT !.enabled = E]
      BY <2>2 DEF Store
    <3> QED
      BY <1>0, <3>1 DEF NonBlockWait, Hosts
  <2> QED
    BY <1>10, <2>1, <2>2 DEF WaitForConnect, Store
<1>11. CASE DoReset
  BY <1>2, <1>11 DEF DoReset
<1>12. CASE Default \/ PostReset
  <2>1. CASE host' = NonBlockWait("PostAddressSet")
    BY <1>0, <2>1 DEF NonBlockWait, Hosts
  <2>2. \/ UNCHANGED host \/ ResetInterface \/ ResetDevice("PostReset")
        \/ host' = NonBlockWait("PostAddressSet")
    BY <1>12 DEF Default, PostReset, Begin, Fail
  <2> QED
    BY <1>2, <1>3, <2>1, <2>2
<1> QED
  BY <1>4, <1>5, <1>6, <1>7, <1>8, <1>9, <1>10, <1>11, <1>12
     DEF Next, HostInterrupt, HostMain, HostTask

\* Both ends only ever hold states of their enumerations, and the host never
\* stores a configuration that the device does not have, however late, cut off
\* or refused its requests were.
THEOREM HostTypeOK == Spec => []TypeOK
<1> DEFINE J == /\ Types /\ Requesting /\ Unaccepted
                /\ host.config \in 0..NumberOfConfigurations
<1>1. Init => J
  <2>1. 0 \in 0..NumberOfConfigurations
    BY USBDeviceAssumption, SMTT(30)
  <2> QED
    BY <2>1, InitInv, SMTT(30) DEF Init, Inv, Unaccepted, UnknownAsked
<1>2. J /\ [Next]_vars => J'
  <2> SUFFICES ASSUME J, [Next]_vars PROVE J'
    OBVIOUS
  <2>1. Types' /\ Requesting' /\ Unaccepted'
    BY StepTypes, StepRequesting, StepUnaccepted
  <2>2. host'.config \in 0..NumberOfConfigurations
    <3>0. 0 \in 0..NumberOfConfigurations /\ host \in Hosts
      BY USBDeviceAssumption, SMTT(30) DEF Types, HostTypes
    <3>1. CASE Answered
      <4>1. CASE host' = host
        BY <4>1
      <4>2. CASE /\ Returns("request", TRUE) /\ host' = StoreConfiguration(ctl.req)
                 /\ ctl.req.kind = "SetConfiguration"
        <5>1. hpc = "request" /\ ctl.stage = "ok" /\ ctl.req \in Requests
          BY <4>2 DEF Returns, Requesting
        <5>2. ctl.req.arg \in Nat /\ ~(ctl.req.arg > NumberOfConfigurations)
          BY <4>2, <5>1, RequestFields DEF Unaccepted, UnknownAsked
        <5>3. host'.config = ctl.req.arg
          BY <3>0, <4>2 DEF StoreConfiguration, Hosts
        <5> QED
          BY <5>2, <5>3, USBDeviceAssumption, SMTT(30)
      <4> QED
        BY <3>1, <4>1, <4>2 DEF Answered, StoreConfiguration
    <3> QED
      BY <3>0, <3>1, ConfigurationSteps
  <2> QED
    BY <2>1, <2>2
<1>3. J => TypeOK
  BY DEF TypeOK, Types, DeviceTypes, Devices, Ep0Types, Endpoints, HostTypes, Hosts
<1> HIDE DEF J
<1> QED
  BY <1>1, <1>2, <1>3, PTL DEF Spec
=============================================================================
