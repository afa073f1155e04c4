----------------------------- MODULE IpsEngine -----------------------------
(* The rule engine of src/src/ips/mod.rs with those who share it: the       *)
(* capture thread, which evaluates each packet under the engine's mutex and *)
(* reports a match while it holds it (src/src/main.rs), and the HTTP        *)
(* handlers that add and delete rules and set the mode                      *)
(* (src/src/utils/dashboard.rs).                                            *)
(*                                                                          *)
(* An Option is a set of at most one value, the TCP flags are the set of    *)
(* those that are on, and a rule's texts are left out.                      *)
EXTENDS Integers, Sequences, FiniteSets, FiniteSetsExt, Functions

CONSTANTS
    Packet,      \* what may arrive on the wire
    NewRule,     \* the rules a request may add
    Deletable,   \* bound of the model: the ids a request may delete
    Task,        \* HTTP tasks
    NoMode,      \* a task that is not setting the mode
    MaxEvents,   \* MAX_IPS_EVENTS, 300 in the code
    MaxPackets,  \* bound of the model: packets in a behaviour
    MaxAdds      \* bound of the model: rules added in a behaviour

Verdict == {"Pass", "Drop", "Alert"}
Mode == {"Tap", "Inline"}
Flag == {"FIN", "SYN", "RST", "PSH", "ACK", "URG", "ECE", "CWR"}

ASSUME IpsAssumption ==
    /\ \A rule \in NewRule : rule.action \in Verdict
    /\ MaxEvents \in Nat \ {0}
    /\ {MaxPackets, MaxAdds} \subseteq Nat
    /\ NoMode \notin Mode

VARIABLES
    mode, rules, rule_hits, stats,  \* IpsEngine
    config_mode,                    \* config.ips.mode
    events,                         \* IpsEventRing
    setting,                        \* per task: the mode it has yet to write to config
    log,                            \* history: every event pushed
    retired,                        \* history: hits of the rules removed
    adds                            \* history: rules added

engine == <<mode, rules, rule_hits, stats>>
ips_vars == <<engine, config_mode, events, setting, log, retired, adds>>

-----------------------------------------------------------------------------
(* Rules *)

AnyPacket == [src_ip |-> {}, dst_ip |-> {}, src_port |-> {}, dst_port |-> {},
              protocol |-> {}, mask |-> {}, value |-> {}, modbus |-> {}, dnp3 |-> {}]

MkRule(id, action, criteria) ==
    [id |-> id, action |-> action, criteria |-> criteria, enabled |-> TRUE]

Xmas == {"FIN", "PSH", "URG"}

\* load_default_rules
DefaultRules == <<
    MkRule("GE-NET-001", "Drop",
        [AnyPacket EXCEPT !.dst_port = {0}, !.mask = {{"SYN"}}, !.value = {{"SYN"}}]),
    MkRule("GE-NET-002", "Drop",
        [AnyPacket EXCEPT !.mask = {Xmas}, !.value = {Xmas}]),
    MkRule("GE-NET-003", "Alert",
        [AnyPacket EXCEPT !.protocol = {6}, !.mask = {Flag}, !.value = {{}}]),
    MkRule("GE-OT-001", "Drop",
        [AnyPacket EXCEPT !.dst_port = {502}, !.modbus = {5, 6, 15, 16}]),
    MkRule("GE-OT-002", "Drop",
        [AnyPacket EXCEPT !.dst_port = {20000}, !.dnp3 = {3, 4, 5, 6, 13, 14}]) >>

\* A flags criterion counts only when both its mask and its value are given.
FlagsMatch(c, flags) ==
    \A mask \in c.mask, value \in c.value : flags \cap mask = value

\* A list of function codes excludes every packet without one.
CodesMatch(codes, code) == codes # {} => code \cap codes # {}

\* matches_rule
Matches(c, p) ==
    /\ \A f \in {"src_ip", "dst_ip", "src_port", "dst_port", "protocol"} :
          c[f] = {} \/ p[f] \in c[f]
    /\ FlagsMatch(c, p.tcp_flags)
    /\ CodesMatch(c.modbus, p.modbus)
    /\ CodesMatch(c.dnp3, p.dnp3)

\* The capture thread passes None for both function codes.
AsEvaluated(p) == [p EXCEPT !.modbus = {}, !.dnp3 = {}]

MatchingRules(p) ==
    {k \in 1 .. Len(rules) : rules[k].enabled /\ Matches(rules[k].criteria, AsEvaluated(p))}

\* In tap mode a drop is downgraded to an alert.
EffectiveAction(action) ==
    IF mode = "Tap" /\ action = "Drop" THEN "Alert" ELSE action

-----------------------------------------------------------------------------
NoStats == [inspected |-> 0, passed |-> 0, dropped |-> 0, alerted |-> 0, matched |-> 0]

Ids == {rules[k].id : k \in 1 .. Len(rules)}

IpsInit ==
    /\ mode \in Mode
    /\ rules = DefaultRules
    /\ rule_hits = [i \in {DefaultRules[k].id : k \in 1 .. Len(DefaultRules)} |-> 0]
    /\ stats = NoStats
    /\ config_mode \in Mode
    /\ mode = "Inline" => config_mode = "Inline"    \* Tap also when ips.enabled is false
    /\ events = << >>
    /\ setting = [c \in Task |-> NoMode]
    /\ log = << >>
    /\ retired = 0
    /\ adds = 0

-----------------------------------------------------------------------------
(* The capture thread: evaluate, and what follows it under the same lock *)

Counted(verdict, matched) ==
    [stats EXCEPT
        !.inspected = @ + 1,
        !.passed    = IF verdict = "Pass" THEN @ + 1 ELSE @,
        !.dropped   = IF verdict = "Drop" THEN @ + 1 ELSE @,
        !.alerted   = IF verdict = "Alert" THEN @ + 1 ELSE @,
        !.matched   = @ + matched]

\* Mutant of Pushed: nothing is popped from a full ring.
PushedUnbounded(ring, event) == Append(ring, event)

\* IpsEventRing::push
Pushed(ring, event) ==
    Append(IF Len(ring) >= MaxEvents THEN Tail(ring) ELSE ring, event)

\* Mutant of Event: the event names the rule's action, not the verdict given.
EventAsConfigured(rule, verdict) == [rule |-> rule.id, verdict |-> rule.action]

Event(rule, verdict) == [rule |-> rule.id, verdict |-> verdict]

\* No rule matches: the packet counts as passed.  The verdict is the engine's
\* default action, Pass as main.rs creates it.
EvaluateUnmatched(p) ==
    /\ stats.inspected < MaxPackets
    /\ MatchingRules(p) = {}
    /\ stats' = Counted("Pass", 0)
    /\ UNCHANGED <<mode, rules, rule_hits, config_mode, events, setting, log,
                   retired, adds>>

\* The first matching rule decides, and the match becomes an event.  The capture
\* that may be saved then is CaptureStore's.
EvaluateMatched(p) ==
    /\ stats.inspected < MaxPackets
    /\ MatchingRules(p) # {}
    /\ LET rule == rules[Min(MatchingRules(p))]
           verdict == EffectiveAction(rule.action)
       IN  /\ stats' = Counted(verdict, 1)
           /\ rule_hits' = [rule_hits EXCEPT ![rule.id] = @ + 1]
           /\ events' = Pushed(events, Event(rule, verdict))
           /\ log' = Append(log, Event(rule, verdict))
    /\ UNCHANGED <<mode, rules, config_mode, setting, retired, adds>>

-----------------------------------------------------------------------------
(* add_ips_rule and delete_ips_rule *)

IsNewId(id) == id \notin Ids

\* add_rule keeps a counter that already has this id.
HitsWith(id) ==
    [i \in DOMAIN rule_hits \cup {id} |-> IF i \in DOMAIN rule_hits THEN rule_hits[i] ELSE 0]

\* Mutant of HitsWithout: remove_rule leaves the counter behind.
HitsWithoutCleanup(id) == rule_hits

HitsWithout(id) == [i \in DOMAIN rule_hits \ {id} |-> rule_hits[i]]

\* The duplicate check and add_rule, under one lock.
AddRule(rule) ==
    /\ adds < MaxAdds
    /\ IsNewId(rule.id)
    /\ rules' = Append(rules, rule)
    /\ rule_hits' = HitsWith(rule.id)
    /\ adds' = adds + 1
    /\ UNCHANGED <<mode, stats, config_mode, events, setting, log, retired>>

\* rules.retain(|r| r.id != rule_id)
Retained(id) ==
    LET kept[n \in 0 .. Len(rules)] ==
          IF n = 0 THEN << >>
          ELSE IF rules[n].id = id THEN kept[n - 1]
          ELSE Append(kept[n - 1], rules[n])
    IN  kept[Len(rules)]

\* remove_rule
DeleteRule(id) ==
    /\ id \in Ids
    /\ rules' = Retained(id)
    /\ retired' = retired + rule_hits[id]
    /\ rule_hits' = HitsWithout(id)
    /\ UNCHANGED <<mode, stats, config_mode, events, setting, log, adds>>

-----------------------------------------------------------------------------
(* set_ips_mode: the engine, then the configuration, each under its lock *)

SetEngineMode(c, new) ==
    /\ setting[c] = NoMode
    /\ mode' = new
    /\ setting' = [setting EXCEPT ![c] = new]
    /\ UNCHANGED <<rules, rule_hits, stats, config_mode, events, log, retired, adds>>

SetConfigMode(c) ==
    /\ setting[c] # NoMode
    /\ config_mode' = setting[c]
    /\ setting' = [setting EXCEPT ![c] = NoMode]
    /\ UNCHANGED <<engine, events, log, retired, adds>>

-----------------------------------------------------------------------------
Evaluate(p) == EvaluateUnmatched(p) \/ EvaluateMatched(p)

ChangeRules ==
    \/ \E rule \in NewRule : AddRule(rule)
    \/ \E id \in Deletable : DeleteRule(id)

ChangeMode(c) == (\E new \in Mode : SetEngineMode(c, new)) \/ SetConfigMode(c)

IpsNext ==
    \/ \E p \in Packet : Evaluate(p)
    \/ ChangeRules
    \/ \E c \in Task : ChangeMode(c)

IpsSpec == IpsInit /\ [][IpsNext]_ips_vars

-----------------------------------------------------------------------------
(* Properties *)

Rule == NewRule \cup {DefaultRules[k] : k \in 1 .. Len(DefaultRules)}

IpsEvent == [rule : {rule.id : rule \in Rule}, verdict : Verdict]

Statistics == [inspected : Nat, passed : Nat, dropped : Nat, alerted : Nat, matched : Nat]

\* Every variable keeps its type and the event ring its bound.
EngineTypeOK ==
    /\ mode \in Mode /\ config_mode \in Mode
    /\ rules \in Seq(Rule)
    /\ rule_hits \in [DOMAIN rule_hits -> Nat]
    /\ stats \in Statistics
    /\ events \in Seq(IpsEvent) /\ Len(events) <= MaxEvents
    /\ log \in Seq(IpsEvent)
    /\ setting \in [Task -> Mode \cup {NoMode}]
    /\ retired \in Nat /\ adds \in Nat

\* Each rule has an id and a hit counter of its own, however requests to add
\* and delete interleave; no counter outlives its rule, and the counters with
\* those of the removed rules add up to the matches: a rule that is deleted and
\* added again starts from zero.
HitsBelongToRules ==
    /\ Cardinality(Ids) = Len(rules)
    /\ DOMAIN rule_hits = Ids
    /\ SumFunction(rule_hits) + retired = stats.matched

Reported(verdict) == Cardinality({k \in 1 .. Len(log) : log[k].verdict = verdict})

\* The two places the dashboard reports from agree: every packet inspected has
\* one verdict; there is an event for every match, as many drops and alerts
\* among them as the counters say, and the feed shows the newest, whatever mode
\* changes and rule changes came in between.
EventsMatchStats ==
    /\ stats.inspected = stats.passed + stats.dropped + stats.alerted
    /\ Len(log) = stats.matched
    /\ Reported("Drop") = stats.dropped
    /\ Reported("Alert") = stats.alerted
    /\ events = SubSeq(log, Len(log) - Min({Len(log), MaxEvents}) + 1, Len(log))

\* What the built-in rule GE-OT-001 says, "Unauthorized Modbus write
\* operation" with the action drop: while it is installed, a packet that
\* writes to a Modbus server is not passed without a match.
ModbusWritesAreMatched ==
    [][\A p \in Packet :
          /\ p.dst_port = 502 /\ p.modbus \cap {5, 6, 15, 16} # {}
          /\ "GE-OT-001" \in Ids
          => ~EvaluateUnmatched(p)]_ips_vars

=============================================================================
