----------------------------- MODULE CaptureLoop -----------------------------
(* The capture thread of src/src/main.rs and the HTTP handlers that steer   *)
(* it: the runtime toggle and the interface switch of                       *)
(* src/src/utils/dashboard.rs.                                              *)
(*                                                                          *)
(* The thread and the handlers share two atomics and a lock, and each load, *)
(* store or critical section is an action of its own.  What the thread does *)
(* with a packet is the subject of other modules; here it is `handled`.     *)
EXTENDS Integers

CONSTANTS
    Iface,       \* interface names the configuration or a request may hold
    Device,      \* those that pcap::Device::list() returns
    Client,      \* HTTP tasks
    NoDevice     \* no provider is open

ASSUME LoopAssumption ==
    /\ Device \subseteq Iface
    /\ NoDevice \notin Iface

VARIABLES
    capture_enabled,    \* AtomicBool
    restart_capture,    \* AtomicBool
    capture_interface,  \* RwLock<String>, what the dashboard reports
    at,                 \* where the capture thread is
    iface,              \* the thread's copy of capture_interface
    provider,           \* the device its open provider reads from
    request,            \* per client: the interface it has written, or NoDevice
    late                \* history: packets handled since capture was disabled

loop_vars == <<capture_enabled, restart_capture, capture_interface, at, iface,
               provider, request, late>>

shared == <<capture_enabled, restart_capture, capture_interface>>

LateMax == 3    \* bound of the model: where `late` stops counting

LoopInit ==
    /\ capture_enabled = TRUE
    /\ restart_capture = FALSE
    /\ capture_interface \in Iface
    /\ at = "outer"
    /\ iface = capture_interface
    /\ provider = NoDevice
    /\ request = [c \in Client |-> NoDevice]
    /\ late = 0

-----------------------------------------------------------------------------
(* The capture thread *)

Goto(from, to) == at = from /\ at' = to

\* The outer loop's test of capture_enabled; disabled, it sleeps 250 ms.
CheckEnabled ==
    /\ at = "outer"
    /\ at' = IF capture_enabled THEN "read_iface" ELSE "outer"
    /\ UNCHANGED <<shared, iface, provider, request, late>>

\* Mutant of ReadInterface: the name is read only when there is none yet.
ReadInterfaceOnce ==
    /\ Goto("read_iface", "clear_restart")
    /\ iface' = IF iface \in Device THEN iface ELSE capture_interface
    /\ UNCHANGED <<shared, provider, request, late>>

ReadInterface ==
    /\ Goto("read_iface", "clear_restart")
    /\ iface' = capture_interface
    /\ UNCHANGED <<shared, provider, request, late>>

\* Mutant of ClearRestart: the flag is left raised.
ClearRestartForgotten ==
    /\ Goto("clear_restart", "open")
    /\ UNCHANGED <<shared, iface, provider, request, late>>

ClearRestart ==
    /\ Goto("clear_restart", "open")
    /\ restart_capture' = FALSE
    /\ UNCHANGED <<capture_enabled, capture_interface, iface, provider, request, late>>

\* An assumption about libpcap, not a check of the code: it opens no device but
\* those that Device::list() returns.
CanOpen(name) == name \in Device

\* create_provider hands the name to libpcap as it is, and takes the provider
\* that libpcap returns.
OpenSucceeds ==
    /\ Goto("open", "inner")
    /\ CanOpen(iface)
    /\ provider' = iface
    /\ UNCHANGED <<shared, iface, request, late>>

\* Opening may fail for any name.  The warning, the sleep of 3 s and the continue
\* of the outer loop.
OpenFails ==
    /\ Goto("open", "outer")
    /\ UNCHANGED <<shared, iface, provider, request, late>>

\* Mutant of AfterToggleCheck: the inner loop does not test capture_enabled.
AfterToggleCheckMissing == "check_restart"

AfterToggleCheck == IF capture_enabled THEN "check_restart" ELSE "outer"

AfterRestartCheck == IF restart_capture THEN "outer" ELSE "next_packet"

\* Leaving the inner loop drops the provider.
ProviderAfter(next) == IF next = "outer" THEN NoDevice ELSE provider

CheckToggle ==
    /\ Goto("inner", AfterToggleCheck)
    /\ provider' = ProviderAfter(AfterToggleCheck)
    /\ UNCHANGED <<shared, iface, request, late>>

CheckRestart ==
    /\ Goto("check_restart", AfterRestartCheck)
    /\ provider' = ProviderAfter(AfterRestartCheck)
    /\ UNCHANGED <<shared, iface, request, late>>

\* next_packet returns a packet, which goes through the whole pipeline.
Handle ==
    /\ Goto("next_packet", "inner")
    /\ late' = IF capture_enabled \/ late = LateMax THEN late ELSE late + 1
    /\ UNCHANGED <<shared, iface, provider, request>>

\* next_packet times out, or fails and the thread sleeps 100 ms: both ways it
\* goes on with the same provider.
NothingRead ==
    /\ Goto("next_packet", "inner")
    /\ UNCHANGED <<shared, iface, provider, request, late>>

Open == OpenSucceeds \/ OpenFails

Receive == Handle \/ NothingRead

Capture ==
    \/ CheckEnabled \/ ReadInterface \/ ClearRestart \/ Open
    \/ CheckToggle \/ CheckRestart \/ Receive

-----------------------------------------------------------------------------
(* The HTTP handlers *)

thread == <<at, iface, provider>>

\* set_capture_enabled
SetEnabled(enabled) ==
    /\ capture_enabled' = enabled
    /\ late' = IF enabled # capture_enabled THEN 0 ELSE late
    /\ UNCHANGED <<restart_capture, capture_interface, thread, request>>

\* Mutant of WriteInterface: set_interface takes any name it is given.
WriteInterfaceUnchecked(c, name) ==
    /\ request[c] = NoDevice
    /\ capture_interface' = name
    /\ request' = [request EXCEPT ![c] = name]
    /\ UNCHANGED <<capture_enabled, restart_capture, thread, late>>

\* set_interface of a device that exists: write the name under the lock ...
WriteInterface(c, name) ==
    /\ request[c] = NoDevice
    /\ name \in Device
    /\ capture_interface' = name
    /\ request' = [request EXCEPT ![c] = name]
    /\ UNCHANGED <<capture_enabled, restart_capture, thread, late>>

\* ... and, after the lock was released, raise the flag.
RaiseRestart(c) ==
    /\ request[c] # NoDevice
    /\ restart_capture' = TRUE
    /\ request' = [request EXCEPT ![c] = NoDevice]
    /\ UNCHANGED <<capture_enabled, capture_interface, thread, late>>

Handler(c) ==
    \/ \E enabled \in BOOLEAN : SetEnabled(enabled)
    \/ \E name \in Iface : WriteInterface(c, name)
    \/ RaiseRestart(c)

-----------------------------------------------------------------------------
LoopNext == Capture \/ \E c \in Client : Handler(c)

\* The thread never stops and next_packet returns at the latest after its 100 ms
\* timeout; a handler that has written the name goes on to raise the flag.  That
\* opening a device does not fail for ever is an assumption about the machine:
\* the configured mode is one that create_provider implements (on Linux it
\* always fails for af_packet and af_xdp), and libpcap is permitted to open it.
Fairness ==
    /\ WF_loop_vars(Capture)
    /\ SF_loop_vars(OpenSucceeds)
    /\ \A c \in Client : WF_loop_vars(RaiseRestart(c))

LoopSpec == LoopInit /\ [][LoopNext]_loop_vars /\ Fairness

-----------------------------------------------------------------------------
(* Properties *)

InnerLoop == {"inner", "check_restart", "next_packet"}

\* Every variable keeps its type.  A request holds a device because set_interface
\* checks it; the provider reads from one because libpcap refuses other names.
LoopTypeOK ==
    /\ capture_enabled \in BOOLEAN
    /\ restart_capture \in BOOLEAN
    /\ capture_interface \in Iface
    /\ at \in {"outer", "read_iface", "clear_restart", "open"} \cup InnerLoop
    /\ iface \in Iface
    /\ provider \in Device \cup {NoDevice}
    /\ request \in [Client -> Device \cup {NoDevice}]
    /\ late \in 0 .. LateMax

\* Once capture is disabled at most one more packet is handled before it is
\* enabled again: the one the thread was waiting for when the flag fell.
QuietAfterDisable == late <= 1

\* A switch that is complete while the thread is in the inner loop takes
\* effect: with no further request, the device is opened in the end.
SwitchFromInnerLoop ==
    \A name \in Device :
        (/\ at \in InnerLoop
         /\ restart_capture
         /\ [](capture_enabled /\ capture_interface = name))
            ~> provider = name

\* From now on capture is enabled, the reported interface is `name`, and no
\* request is half way.
Settled(name) ==
    [](capture_enabled /\ capture_interface = name /\ \A c \in Client : request[c] = NoDevice)

\* Once requests have ceased with capture enabled on a device that exists, the
\* thread goes on calling next_packet: neither an error nor a timeout nor a
\* flag left over from the requests parks it for good.
KeepsCapturing ==
    \A name \in Device : <>Settled(name) => []<>(at = "next_packet")

\* What GET /api/set-interface is documented to do (src/src/utils/logging.rs,
\* "Switch capture interface"): once requests have ceased and capture stays
\* enabled, the device captured from is the one reported.
SwitchTakesEffect ==
    \A name \in Device : <>Settled(name) => <>(provider = name)

=============================================================================
