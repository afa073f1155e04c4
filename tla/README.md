# A TLA+ model of ge-sensor

`ge-sensor` is a network sensor: a capture thread reads frames from libpcap,
keeps them in a forensic ring, dissects them, feeds a flow table and an
IDS/IPS engine, and saves a capture when a rule matches. A Tokio
runtime beside it runs an HTTP server (dashboard, API, `/metrics`) and a task
that evicts idle flows. The thread and the tasks share one `AppState` through
mutexes, read-write locks and atomics.

This directory holds TLA+ modules that model those parts, the TLC
configurations that check them on small instances, and proofs of their central
properties that TLAPS checks for every value of the constants. `PROJECT.json`
names, for each definition, the lines of the source it models.

## 1. Inventory

Paths are relative to `src/src/`.

| Component | State | Operations | Talks to |
|---|---|---|---|
| Capture thread (`main.rs`) | its copy of the interface name, the open provider | outer loop (enabled? read interface, clear restart flag, open), inner loop (toggle, restart, `next_packet`, packet path) | everything below, by direct calls under locks |
| Packet path (`main.rs`) | the packet in hand, its verdict | ring, dissect, switch, count, flow table, engine, event, capture, view | one component after the other |
| Capture providers (`capture/`) | one open libpcap handle | `create_provider`, `next_packet`; `af_packet` and `af_xdp` fall back or fail | capture thread |
| Forensic packet ring (`pcap_store/ring_buffer.rs`) | `entries`, `write_pos`, `count`, `total_bytes`, `max_bytes` | `push` (evict, store), `flush_to_pcap` | capture thread pushes; captures flush |
| Saved captures (`utils/dashboard.rs`, `utils/logging.rs`) | `pcap_captures`, `pcap_seq`, files in `pcap_data/` | `create_pcap_capture`, `/api/pcap/storage`, `/api/pcap/file`, bulk download, reconstruction | capture thread on an alert; HTTP tasks |
| Dissectors (`dissectors/`) | none but the cursor of one call | `dissect_packet` and the header dissectors it calls | capture thread |
| Dissector toggles (`utils/dashboard.rs`) | a flag per dissector, fields of `config.dissectors` | `toggle_dissector` | HTTP tasks write, capture thread reads |
| Flow table (`flow/tracker.rs`) | map key to record | `update`, `evict_idle`, `active_count` | capture thread, eviction task, dashboard snapshots |
| Flow features (`flow/features.rs`) | none | 14 statistics of a record, of which the dashboard scores some | `flow_details` |
| IPS engine (`ips/mod.rs`) | mode, rules, statistics, hit counters | `evaluate`, `add_rule`, `remove_rule`, `set_mode` | capture thread evaluates, HTTP tasks change |
| IPS event ring (`utils/dashboard.rs`) | the newest 300 events | `push`, listing | capture thread, dashboard |
| Packet view and metrics (`utils/`) | newest packets, Prometheus counters and gauges | `push`, increments, `set` | capture thread, eviction task, dashboard |
| HTTP server (`utils/logging.rs`) | none of its own | one task per connection, dispatch by path | all of `AppState` |
| Locks (`utils/dashboard.rs`) | six mutexes, three read-write locks | every handler's order of taking and dropping them | all threads and tasks |
| Configuration (`config.rs`) | the YAML structure | load, validate, edit from the dashboard | start-up; the dashboard reports it |
| Dead-letter queue (`output/dlq.rs`) | directory, size, sequence number, circuit breaker | `new`, `spool`; nothing replays | nothing calls it yet |
| Event output (`output/`) | event types, a producer that logs | `send` | nothing |
| Inputs (`inputs/`) | sockets | NetFlow, syslog and SNMP trap parsers | nothing starts them |
| DNS and OT dissectors (`dissectors/dns.rs`, `dissectors/ot/`) | none | parsers | nothing calls them |

### What is hard, and what correctness means

* **The ring's indices.** `oldest_idx` is derived from three counters that
  evictions and reallocations move apart. Correct means: seen from outside, the
  ring is the longest run of newest packets that fits in its bytes, and a flush
  writes the packets around the alert.
* **Saving a capture** takes a number, the ring's mutex, the file system and the
  index's mutex one after the other, from several tasks. Correct means: the
  index names only whole files, numbers are unique, eviction deletes the right
  file, a download never returns half of one, also across failing writes and
  restarts.
* **Steering the capture thread** goes through two atomics and a lock that are
  written and read at different times. Correct means: a disabled sensor goes
  quiet and gives the device back, an interface switch takes effect, and no
  order of requests stops capture for good.
* **A packet's way** leads through nine steps, each behind its own lock, and
  handlers run between any two. Correct means: what is shown in one place fits
  what is shown in another, a dissector that is switched off is off, and a
  capture holds the packet that triggered it.
* **Locks** are nested in a few places (the engine is held while a capture is
  saved). Correct means: nobody waits in a circle, with either policy of
  readers and writers, and every request is answered.
* **Dissection** does arithmetic on lengths taken from the wire and indexes
  slices with the result. Correct means: it never reads behind the frame (a
  panic would end the capture thread), it ends, and the payload it reports is in
  the frame.
* **The flow table** has a capacity, a clock that is read twice, three writers
  and a gauge written outside the lock. Correct means: capacity, packets and
  bytes are conserved, a record's parts agree, only idle or oldest flows leave,
  all idle ones do, and the gauge comes back to the truth.
* **The engine** is evaluated for each packet while rules and mode change. Correct
  means: counters, hit counters, events and verdicts tell one story.
* **The dead-letter queue** checks its size, writes and adds without a lock.
  Correct means: the overshoot is bounded, the counter covers the directory, and
  no spooled event replaces another of the same run.

Every such point is listed with its line and the property that watches it under
`hazards` in `PROJECT.json`.

## 2. The modules

Each component has a module (state, one action per operation, specification,
properties), an `MC` module with the values of its constants, one or two `.cfg`
files, and, where there are theorems, a `Proofs` module. What runs on the capture
thread (`CaptureLoop`, `Dissector`, `IpsEngine`) has one for all three,
`CaptureThreadProofs`; so that it can extend them together, their
specifications carry names of their own (`LoopSpec`, `ParseSpec`, `IpsSpec`, and
likewise `Init`, `Next` and the type invariants). The modules are written on the same plan: history variables are named as such and read by no action, and
bounds of the model are named `Max...` constants with a comment.

A definition whose comment begins "Mutant of" is a deliberately wrong version of
the next one, the way a plausible bug would make it. Nothing uses it; put in the
place of the definition it varies, it makes the property that `PROJECT.json`
pairs it with fail. It shows that the property can fail.

### EvidenceWindow and PcapRing

`EvidenceWindow` is the abstract specification of a forensic ring: a packet
arrives in one step, and `dropped` says how many old ones are not kept any more,
namely so few that the rest is the longest run of newest packets that fits.

`PcapRing` is the code. Its variables are the fields of `PacketRingBuffer`;
`entries[i + 1]` is index `i`. `push` is `BeginPush`, then `EvictOldest` for each
turn of the eviction loop, then `Store`; between them `incoming` holds the packet,
and the mutex is taken, so nothing else can happen. `Vec`'s reallocation is a
choice among capacities (`Capacities`), because `write_pos` is taken modulo the
capacity. `flush_to_pcap` is `FlushSucceeds` or `FlushFails`, which leaves a
prefix. `pushed` and `offset` record the arrivals and their running sizes.

`KeepsEvidenceWindow` is the refinement: `Evidence!Spec` under a mapping in which
a push in progress has not happened yet: the packet enters `pushed` in `Store`,
which is the abstract arrival, and until then the ring shows the window it had
when the push began (`Settled` says inside the loop what had been dropped by then,
and not what the counters say that the loop is changing). `BeginPush` and the
turns of the loop are stutters. `Save` of the
abstract module promises less than "the snapshot": a run of arrivals, no longer
than the window. That it is the window itself is what section 4 shows to fail.

### CaptureStore

A *worker* is whoever runs `create_pcap_capture` (the capture thread, or an HTTP
task). Its steps are the code's critical sections: take a number, flush
(begins and ends, either may fail), measure (which may fail as well, and then
makes the size 0: `MeasureFails` notes the capture in `unmeasured`), index and
evict. A *reader* is a download: look up under the mutex, read the file after it,
which may find no such file or fail otherwise (`Unreadable`). `Restart` is the
process stopping anywhere and starting in the same directory: files stay, the
index and the number are lost. A file is a state (`absent`, `partial`,
`complete`) and the run that wrote it.

### CaptureLoop

Each load, store or critical section of the thread and of the handlers is an
action; `at` is the thread's program counter. `create_provider` hands the name to
libpcap unchecked and may fail for any; that libpcap opens only devices that
exist is `CanOpen`, an assumption about libpcap. The check that a name is a
device's is `set_interface`'s, in `WriteInterface`. What happens to a packet is one step,
`Handle`, which counts packets handled while capture is disabled (`late`).

### PacketPath

The composition of the components that a packet meets: `Receive` (with the push
into the ring), `Malformed`, `ReadSwitch`, `Count`, `Evaluate` (with the flow
table), `PushEvent`, `Capture` or `NoCapture`, `Show`, one action for each lock
the thread takes in turn, and between any two of them `toggle_dissector`,
`set_ips_mode` and the three steps of a snapshot. Each component is what it has
been given so far: the ring is the sequence `evidence` with the number of the
oldest arrivals that it no longer counts (`dropped`, which `DroppedFor` computes
as the eviction loop does from the packets' bytes and `RingBytes`), the counter the set
`packets_total`, the engine the set `inspected`, so that a property can ask
which packets two places disagree about. `EngineIsFree` keeps the handlers that
need the engine's mutex out while the thread holds it. `Capture` writes what
`flush_to_pcap` does (`Flushed`): as many packets as are counted, from the start
of the vector, which after an eviction are not the ones counted. `overdue` counts
the packets shown while their switch is off.

### Locks and Handlers

`Locks` is a machine that runs *scripts*: sequences of taking, sharing and
dropping locks. What a task holds follows from its script and how far it is in
it. Whether a waiting writer keeps new readers out is open in the documentation
of `std`, so `policy` is either. `Handlers` is the sensor: for the capture
thread, the eviction task and each method of `AppState` an HTTP task may call,
the scripts that its code can run, with guards dropped where Rust drops them (a
temporary at the end of its statement, a binding at the end of its block). So
the engine's guard covers the event, the reading of the configuration and the
capture.

### Dissector

`dissect_packet`, with the IPv4, IPv6, TCP, UDP, ICMP, HTTP and TLS functions it
calls, as a walk of a cursor over a frame that is known by its length. The value
of a byte is chosen where the code reads it. `stage` is what is parsed next, and
`read` is one past the last byte a step reads. The content that decides
only strings (the SNI, the HTTP method, JA3) is left out, with the lengths kept.

### FlowTracker and FlowFeatures

`flows` is the table; a record has every field of the program's but the DNS
queries: the two clock readings, packets and bytes by direction, the sampled
inter-arrival times and sizes, and the union of the flags. A packet's length is
the length of its payload cast to `u16`. `Update` is the whole of `update`,
including the eviction of the oldest flow when a new one finds the table full. It
reads the clock twice, as the code does: once for itself, and once more in the
record it makes. `EvictIdle` is one tick of the task in `main.rs`. A dashboard
snapshot counts the flows under the lock (`ReadCount`) and sets the gauge after
it (`SetGauge`).

`FlowFeatures` holds the features that enter the score of `flow_details`
(beaconing, asymmetry, flag anomaly, rate) and the score. The code computes in
`f32`; here features are percentages and the score is in ten-thousandths.

### IpsEngine

`EvaluateMatched` and `EvaluateUnmatched` are one packet's evaluation and what
the capture thread does with the verdict under the same lock; `AddRule` and
`DeleteRule` are the handlers' critical sections; a change of mode is two, the
engine's and the configuration's. `DefaultRules` are the five built-in rules with
their criteria. `AsEvaluated` is what the caller passes of a packet: it has no
function codes to give. `Retained` is the `retain` of `remove_rule`, a walk along
the rules that keeps those of another id.

### Dlq

Each access of `spool` to an atomic is a step: load the size and decide by that
copy (`Refuse`, `Admit`), take a sequence number, read the clock and make a name of
the two, create and write the file (either may fail, the second leaving a part),
add to the size, count the event. `Restart`
is the process stopping at any step and `new` measuring what is in the
directory, or nothing when it cannot be read. A file's name is the second and
the sequence number, as in the code.

### How they fit

The thread of `CaptureLoop` handles a frame in its step `Handle`; `PacketPath` is
that step in detail. Its `Receive` is `PcapRing`'s `BeginPush` to `Store`,
`Malformed` and `ReadSwitch` follow on `Dissector`'s outcome, `Evaluate` is
`FlowTracker`'s `Update` and `IpsEngine`'s `Evaluate...`, and `Capture` is a worker
of `CaptureStore`, whose flush is `PcapRing`'s. The modules meet only at such
calls; the shared state of each lies behind its own lock and is a variable of one
module only. `PacketPath` checks what follows from the order of the calls,
`Locks` with `Handlers` what follows from the locks around them.

## 3. What TLC checks

| Run | States | Instance | Question |
|---|---|---|---|
| `pcap_ring` | 33 466 | packets of 4, 20 and 60 bytes; rings of 0, 60, 100 bytes; five pushes; first capacity 2, growth 0 or 1 | does the ring implement the evidence window? |
| `capture_store` | 129 038 | two savers, one download, four captures in each of two runs, index of two | do records, files and downloads stay consistent under failures and a restart? |
| `capture_loop` | 1 264 | two devices, one unknown interface, two HTTP tasks | do toggle and switch do what they should? |
| `packet_path` | 2 661 280 | four packets of four kinds, of 1 to 3 bytes in a ring of 4, a view of two rows, an event ring of one, one snapshot task | does what an observer sees in several places fit together? |
| `locks` | 69 146 | the capture thread, the eviction task and two HTTP tasks; any two of them in a job at once | is there one order of the locks, no circle, and an end of every job? |
| `dissector` | 55 658 | 23 frame lengths around every header's end, boundary values of every length field | does the parser stay in the frame and end? |
| `flow_tracker` | 166 032 | two flows at most, four packet shapes of up to 65535 bytes, four packets, three ticks, one snapshot task | capacity, conservation, records, score, eviction, gauge |
| `ips_engine` | 385 000 | the five rules and two more, four kinds of packet, two HTTP tasks, two additions | do verdicts, counters, hits and events agree? |
| `dlq` | 1 030 475 | two callers, payloads of 4 on a threshold of 5 bytes, three names, two runs, two seconds | how far does the queue overshoot, and what does its counter say? |

Why the bounds are enough. *PcapRing*: five pushes over a first capacity of 2
reallocate more than once at either growth, evict several packets for one, and
include packets larger than the ring; the proofs have no bound. *CaptureStore*:
with an index of two, four captures evict twice, and two savers are enough for any
pairwise order of their steps; the savers are interchangeable (symmetry), and no
liveness is checked there. *CaptureLoop*: finite without bounds except `LateMax`,
where the counter of late packets stops; it is above the claimed maximum.
*PacketPath*: the kinds are a frame that cannot be dissected, one that a drop rule
matches, one that no rule does and whose name is not that of its switch (`quic`), and one without
addresses; four packets overflow the view and the event ring, with different
entries left in each, the forensic ring of 4 bytes holds between one and four of
them, so that captures are written before and after its first eviction, and every
handler can run between any two steps. The proofs have no bound.
*Locks*: two jobs show every pair of scripts, and `OrderRespected` every step of
every script; that this excludes circles of any number of tasks is a theorem. *Dissector*: the lengths include each header's end
and one less, and the field values include zero, exact, one too many and the
largest. *FlowTracker*: packets of three sessions overfill a table of two flows,
the sample lists of two overflow, the largest payload is the last that fits in a
`u16`, and the clock passes the idle timeout. *IpsEngine*: four packets overflow the event ring of
two, and two additions allow delete-then-add of one id. *Dlq*: two callers pass the
check together, the counter passes the threshold and half of it, and both runs
may fall in one second, so that names collide; the callers are interchangeable.

Runs of a system that may really stop say `CHECK_DEADLOCK FALSE`: the ring, the
store and the queue stop at the model's bound on pushes, captures and calls,
`dissect_packet` returns, and no job need begin in `Locks`, whose `NoDeadlock`
asks the question that matters there.

### The properties

* `PcapRing`: `KeepsEvidenceWindow` (the refinement of `EvidenceWindow`),
  `FlushCompleteUntilEviction`.
* `CaptureStore`: `IndexedFilesComplete`, `FilesAreAccountedFor`,
  `DownloadsAreWhole`, `UnavailableOnlyAfterEviction`.
* `CaptureLoop`: `QuietAfterDisable` (at most one more packet),
  `SwitchFromInnerLoop`, `KeepsCapturing`.
* `PacketPath`: `ToggleIsSharp` (at most one packet after the toggle),
  `SnapshotAccountsForPackets` (a total is at most one ahead of the inspections
  beside it), `ViewsAgree` (event list and packet view),
  `AlertsEvidencedUntilEviction` (what a triggered capture holds: its trigger and
  all before it until the ring first evicts a packet, and never its trigger from
  then on).
* `Locks`: `OrderRespected`, `NoDeadlock`, `JobsFinish`.
* `Dissector`: `ReadsInBounds`, `PayloadInFrame`, `AddressedIsNamed`, `Terminates`.
* `FlowTracker`: `TrafficConserved` (packets and bytes), `RecordsConsistent`
  (counters, samples and times of a record), `HostPairsShareAFlow`,
  `AnomalyNeedsRhythm` (the score), `ClosesOnlyIdleOrOldest`, `IdleFlowsLeave`,
  `GaugeRecovers`.
* `IpsEngine`: `HitsBelongToRules`, `EventsMatchStats`.
* `Dlq`: `BoundedOvershoot`, `EachSpoolHasItsFile`, `CounterCoversDisk`.

Some of them have limits that the code sets. `IndexedFilesComplete` lets a record
say 0 bytes when `metadata()` failed on its file. `FilesAreAccountedFor` excuses
files that `remove_file` could not remove and those of earlier runs, which the code
does lose sight of. `EachSpoolHasItsFile` is about the events of the running process:
one that starts within the second of its predecessor's files writes over them.
`CounterCoversDisk` excuses the bytes of failed writes and of a directory that
`new` could not read; for these the breaker trips late.

Each module has a type invariant besides, which its run checks; it bounds what
the code bounds (the index of `CaptureStore`, the table, the rings), and that of
`PcapRing` says that the eviction loop never indexes outside the vector. It is `TypeOK`, or
`LoopTypeOK`, `ParserTypeOK` and `EngineTypeOK` in the three modules of the
capture thread. That of `Locks` is proved instead.

### Fairness

* `CaptureLoop`: weak fairness of the thread as a whole, which never ends and
  whose `next_packet` returns after at most 100 ms; weak fairness of a handler
  between writing the name and raising the flag (it does not wait there); strong
  fairness of a successful open, which says that a device that exists does not
  fail to open for ever. The last is an assumption about the machine and its
  configuration, not something the code provides: it needs the permission to open
  the device, and a capture mode that `create_provider` implements. On Linux
  `af_packet` and `af_xdp` always fail, and `SwitchFromInnerLoop` and
  `KeepsCapturing` say nothing of a sensor so configured. `Handle` is not assumed: there may be no traffic.
* `Locks`: weak fairness of each task's steps within a job (a thread that can
  take a lock, or drop one, does). Beginning a job is not fair: packets and
  requests may stop. A lock is not assumed to be granted in any order: weak
  fairness and a bounded number of jobs say only that a lock which stays free is taken.
* `FlowTracker`: weak fairness of the eviction task's tick and of a snapshot
  finishing what it began. Packets, requests and the clock may stop.
* `Dissector`: weak fairness of the next step, for a function that runs to its
  return.
* The other modules state no liveness.

## 4. Where the code and its documents disagree

Three runs check a statement of the repository that the code does not keep, and
TLC returns a behaviour that breaks it.

| Run | Statement | What happens |
|---|---|---|
| `pcap_ring_snapshot` | "the buffer snapshot is written as a PCAP file" (`pcap_store/mod.rs`) | after the first eviction `count` is below the vector's length for good, and a flush writes the oldest entries of the vector, which were evicted, in place of the newest; a capture that an alert triggers then lacks its trigger (`AlertsEvidencedUntilEviction`) |
| `capture_loop_switch` | "Switch capture interface" (`utils/logging.rs`) | name written and flag raised between the thread's read of the name and its clearing of the flag: the dashboard reports one device, the thread reads another |
| `ips_engine_modbus` | GE-OT-001, "Unauthorized Modbus write operation" (`ips/mod.rs`) | the only caller passes no function code, so the rule never matches |

The first two have a weaker companion that does hold and is checked:
`FlushCompleteUntilEviction` and `SwitchFromInnerLoop`.

Other things a reader of the code may not expect, which the models contain but no
run is about:

* A capture whose `metadata()` fails is listed with 0 bytes, though its file is
  whole.
* The capture number starts at 1 in every run: the first capture after a restart
  truncates `ALT-0001.pcap` of the run before. `retention_days` is read by nothing.
* When both addresses of a session are equal, the port comparison never decides
  its direction, and its two directions get a record each.
* A frame that cannot be dissected is counted in `ge_packets_total`, and one
  whose dissector is switched off is not, though both are in the ring.
* The switches for Modbus, DNP3, BACnet and EtherNet/IP decide about no packet,
  because `dissect_packet` gives none of these names.
* The union of a TCP session's flags has SYN and FIN once it is closed, which
  the flag feature scores as a scan; a flow without flags, as every UDP and ICMP
  flow is, scores as a null scan.
* `ips.default_action` reaches no engine.
* The counter of the dead-letter queue misses what a failed write leaves, and
  counts a file twice that a run within the same second writes over.

## 5. What is proved

A `Proofs` module extends its component and proves what the runs check on an
instance for every value of the constants that satisfies the module's `ASSUME`.
Each is built in the same way: a strengthened invariant (`IInv`, or `LoopInv`,
`ParserInv` and `EngineInv` where a module has several components), a lemma that
`Init` establishes it, a lemma per action or group of actions that preserves it,
the invariant as a theorem of the specification, and the listed theorems as its
consequences. Where properties need different strengthenings, a further
invariant is built upon the first and proved with its help.

* `Sums` is about `SumFunctionOnSet`, the sum over a finite set in which the
  models state what adds up: it depends on the values alone, any element may be
  taken out of it or put in, one changed value changes it by the difference, and
  it splits in two. Its definition is a recursive function that picks elements by
  `CHOOSE`, so the function is first shown to exist. The library's induction
  theorems take the property as an operator, which the provers cannot
  instantiate; `Induction` and `SetInduction` say the same of a set of numbers or
  of sets, and follow from the least number of a set that is not empty. Every
  argument here of the form "for each length" or "for each subset" names the set
  of those for which the claim holds.
* `PcapRingProofs`: type correctness, the ring's invariants and the refinement of
  `EvidenceWindow`, from `RingAssumption` (sizes are naturals; a reallocation adds
  at most `MaxGrowth` slots, any natural). That `oldest_idx` names the oldest
  packet does not follow from the counters alone. What makes it true is
  `NeverWraps`: `write_pos` is taken modulo a length that has just grown past it,
  so it stays at the end of the vector, and the vector is the whole history of
  pushes. `IInv` joins this to the byte count and the running sizes, which are
  only preserved together. For the refinement (`RingKeepsEvidenceWindow`) a
  further invariant, `HoldsNewest`, says that between pushes the ring is not
  empty; a window is unique (`WindowIsUnique`), and between pushes what is
  counted is one (`RestsOnWindow`), because the packet evicted last would not
  have fitted, and all before it lie further back. `NeverWraps` is also a result of its own
  (`VectorKeepsEverything`): the ring overwrites nothing, contrary to the head of
  `ring_buffer.rs` ("When full, oldest entries are overwritten"), and its memory
  grows with every packet. The same cause puts old packets into the files of
  section 4.
* `CaptureStoreProofs`: type correctness and all properties of the store, for
  any number of savers and downloads, any index size and any number of captures
  and restarts. The strengthening says where each number is in use (given
  out before the next one), that a saver which is done writing left a whole file
  under its number and knows its size unless measuring failed (`Measured`), that a capture which was looked up is whole or gone and no
  saver works on it, and that no file is of a later run. The heart of the argument is that a
  number in flight is in no record and with no download, so truncating, failing
  and evicting touch only their own file.
* `CaptureThreadProofs`, first part, the loop: type correctness and
  `QuietAfterDisable` for any interfaces and number of HTTP tasks. `LateThenOut`
  adds that a late packet leaves the thread on its way to the outer loop, and that
  none is late while capture is enabled.
* Second part, the parser: type correctness, `ReadsInBounds`, `PayloadInFrame`,
  `AddressedIsNamed` and that every step advances, for every frame length and
  every value of every length field. `Position` says what each stage relies on:
  headers start within the frame, the TLS walk has a payload, its limit lies in
  it, and the next length field below the limit. `Named` says where a packet gets
  what the packet path asks of it: addresses come with the IP header and not
  before, a name with the header after it, and no later stage takes it away.
* Third part, the engine: type correctness, `HitsBelongToRules` and
  `EventsMatchStats`, for any packets, any tasks, any rules to add and any size of
  the event ring, in any order of evaluations, additions, deletions and changes of
  mode. `RulesAreCounted` keeps ids distinct, a counter for each rule and no other,
  and the counters with those of the removed rules equal to the matches; it
  needs that `Retained` leaves each rule of another id, once, and nothing else
  (`KeepingKeeps`, by induction along the rules). `VerdictsAreCounted` ties the
  statistics to the history of events, and `FeedIsNewest` says that the ring is
  the end of that history, so that what the dashboard lists is what was counted
  last.
* `PacketPathProofs`: type correctness and the four properties of the path, for
  any packets, any sizes of view and event ring and any number of snapshot tasks.
  `Inspected` says that a counted packet with addresses is inspected or on its way
  to the engine, which bounds what a snapshot that reads the total first can miss;
  `Sharp` ties the switch read to the one packet in flight. That a capture holds
  its trigger exactly until the first eviction follows from the vector being all
  arrivals in order (`Evidenced`). For `ViewsAgree`,
  `Views` says that both rings are in order of arrival and that the event of the
  packet in hand is the row it will get; with `RingForgetsOldest`, what a ring has
  lost is older than all it holds.
* `LocksProofs`: for any tasks and scripts, guards that exclude each other are
  never held together; and for scripts that take locks in the order of their
  ranks (`Discipline`), the order holds in every interleaving and there is no
  deadlock, under either policy. A stuck task waits for a holder, or for a parked
  writer that waits for one, and that holder, if it is stuck, wants a lock of a
  higher rank; four ranks leave no room for a fifth. `Discipline` is a hypothesis about constants; for the
  sensor's `Handlers` it is what the run's `OrderRespected` shows, since every task
  reaches every step of every one of its scripts there.
* `FlowTrackerProofs`: every invariant of the table and what its steps may close,
  for any packets, limits and snapshot tasks. `IInv` says that every key is a
  forward direction, that no flow was last seen in the future, although the clock
  is read twice, that no record is empty, and how long the sample lists are;
  `HostPairsShareAFlow` and `ClosesOnlyIdleOrOldest` follow. `TInv` adds the two
  sums of `TrafficConserved`: a packet changes one summand, an eviction moves some
  of them to `closed`. `RInv` adds what each record keeps on its own: as long
  as a list has every sample, its sum is that of the record's counters and times,
  up to the second reading of the clock; and a flow that has not outlasted its
  `first_seen` has only gaps of zero (`Settled`). For `AnomalyNeedsRhythm` each
  feature is bounded for a record that has had a packet; those that are not the
  rhythm do not reach the mark of an anomaly together, and gaps of zero are no
  rhythm.
* `DlqProofs`: every property of the queue, for any number of callers, sizes,
  limits and restarts, and that the breaker is open only while the counter is at
  the threshold. The bound on the overshoot is not inductive; `RoomForPending`
  adds up the callers whose copy is below the threshold, each of which may still add
  a payload. `SInv` is about names: those that this process gave away carry
  numbers below its next one, and the numbers of callers are pairwise distinct,
  whatever seconds their names show; and `Progress` says what is
  on the disk under a caller's name at each of its steps; hence each event that was
  reported has its own file (`EachSpoolHasItsFile`). `CInv` is about bytes: what the
  counter misses is what failed writes left and what callers have written and not
  yet added (`InFlight`), which at rest is `CounterCoversDisk`.

Every invariant and every action property that a passing run checks is the
subject of a theorem. Only model-checked are the liveness properties
(`SwitchFromInnerLoop`, `KeepsCapturing`, `IdleFlowsLeave`, `GaugeRecovers`,
`Terminates`, `JobsFinish`), because the prover has no backend for reasoning under
fairness. For `Terminates` the safety part, that every step advances in a frame of
finite length, is proved. Not proved either: that the sensor's `Handlers` satisfy
`Discipline` (above), and that the modules which section 2 relates by
correspondence refine each other.

## 6. What is not modelled, and why

* Parsing of HTTP requests, JSON, the page, the editing of the YAML file and the
  log are wording. One read of at most 4096 bytes is taken for a request; the
  handlers' actions are the requests that were understood.
* The libpcap handle, the file system and the allocator are modelled by the
  outcomes the code distinguishes. `capture_interface` of an `any` device and the
  `af_packet` and `af_xdp` backends end in `create_provider`'s two outcomes.
* The DNS and OT dissectors, the NetFlow, syslog and SNMP inputs and the Kafka
  producer are called by nothing in the program; the models show what the program
  does, which is to never run them. The dead-letter queue is not called either, but is written for
  concurrent callers and restarts, and so is modelled.
* The configuration is read once and checked field by field; the fields that
  matter are constants.
* The flow features that are constants in the code, or that no score uses, are
  left out, as are gauges that are never set.

## 7. What is left

1. The parsers of `inputs/` and of DNS and OT, as cursor arithmetic like
   `Dissector`, once something calls them.
2. A refinement of `CaptureLoop`'s `Handle` by `PacketPath`, in place of the
   correspondence of section 2.
