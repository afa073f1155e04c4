---------------------------- MODULE FlowFeatures ----------------------------
(* The features of src/src/flow/features.rs that decide about a flow, and   *)
(* the score that flow_details of src/src/utils/dashboard.rs makes of them. *)
(*                                                                          *)
(* The code computes in f32.  Here a feature between 0 and 1 is a           *)
(* percentage and the score is in ten-thousandths, rounded down; a record   *)
(* is one of FlowTracker, its clock in ticks.                               *)
EXTENDS Integers, Sequences, FiniteSets, FiniteSetsExt, Functions

Percent == 100

Total(samples) == SumFunction(samples)

Squares(samples) == [i \in DOMAIN samples |-> samples[i] * samples[i]]

\* Variance over the squared mean, times Percent squared.
SquaredVariation(samples) ==
    LET n == Len(samples) IN
    (Percent * Percent * (n * Total(Squares(samples)) - Total(samples) * Total(samples)))
        \div (Total(samples) * Total(samples))

\* The coefficient of variation, in percent and at most Percent.
Variation(samples) ==
    LET squared == SquaredVariation(samples) IN
    Cardinality({v \in 1 .. Percent : v * v <= squared})

\* Mutant of Beaconing: a single gap is taken for a regular one.
BeaconingOfOne(iats) ==
    IF Len(iats) < 1 \/ Total(iats) = 0 THEN 0 ELSE Percent - Variation(iats)

\* compute_beaconing_score: 0 without two gaps, or when all of them are 0.
Beaconing(iats) ==
    IF Len(iats) < 2 \/ Total(iats) = 0 THEN 0 ELSE Percent - Variation(iats)

Asymmetry(fwd, rev) ==
    IF fwd + rev = 0 THEN 0
    ELSE (Percent * (IF fwd > rev THEN fwd - rev ELSE rev - fwd)) \div (fwd + rev)

\* compute_tcp_flag_anomaly of the union of a flow's flags: a scan that sets
\* SYN and FIN, or FIN, PSH and URG, or none at all.
FlagAnomaly(flags) ==
    Min({Percent,
         (IF {"SYN", "FIN"} \subseteq flags THEN 50 ELSE 0)
         + (IF {"FIN", "PSH", "URG"} \subseteq flags THEN 50 ELSE 0)
         + (IF flags = {} THEN 30 ELSE 0)})

RateLimit == 1000

\* Packets per second, at most RateLimit.  A flow that has lasted no time at
\* all, or whose two clock readings are the wrong way round, lasted a ms.
ConnRate(packets, first_seen, last_seen, perSecond) ==
    IF last_seen <= first_seen THEN RateLimit
    ELSE Min({RateLimit, (packets * perSecond) \div (last_seen - first_seen)})

\* The weights of flow_details.  Its two other terms are always 0: the capture
\* thread has no DNS query for update, and off_hours_pct is not computed.
MlScore(record, perSecond) ==
      25 * Beaconing(record.iats)
    + 15 * Asymmetry(record.fwd_bytes, record.rev_bytes)
    + 25 * FlagAnomaly(record.flags)
    + ConnRate(record.fwd + record.rev, record.first_seen, record.last_seen, perSecond)

MaxScore == 10000

\* What the dashboard counts as an anomalous flow.
IsAnomalous(record, perSecond) == 2 * MlScore(record, perSecond) > MaxScore

=============================================================================
