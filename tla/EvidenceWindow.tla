--------------------------- MODULE EvidenceWindow ---------------------------
(* What a forensic packet ring promises, without saying how: of all packets *)
(* that arrived it keeps the longest run of newest ones that fits in        *)
(* `limit` bytes, and the newest packet in any case.  A packet arrives in   *)
(* one step; there is no vector, no write position and no eviction loop.    *)
EXTENDS Integers, Sequences

CONSTANTS
    Packet,   \* the packets that may arrive
    Size(_),  \* the bytes that a packet takes
    Limits    \* the limits that a ring may be created with

VARIABLES
    limit,
    arrived,  \* every packet, in order of arrival
    ends,     \* ends[n + 1] is the size of the first n of them
    dropped,  \* how many of them are not kept any more
    saved     \* the packets of the last file

vars == <<limit, arrived, ends, dropped, saved>>

Init ==
    /\ limit \in Limits
    /\ arrived = << >>
    /\ ends = << 0 >>
    /\ dropped = 0
    /\ saved = << >>

\* The packets after the first k, of as many as `total` lists the sizes of.
Fits(k, total) == total[Len(total)] - total[k + 1] <= limit

\* All but the first k packets are the longest run that fits, or the newest.
IsWindow(k, total) ==
    LET newest == Len(total) - 2
    IN  /\ k \in 0 .. newest
        /\ Fits(k, total) \/ k = newest
        /\ \A j \in 0 .. k - 1 : ~Fits(j, total)

Arrive(p) ==
    /\ arrived' = Append(arrived, p)
    /\ ends' = Append(ends, ends[Len(ends)] + Size(p))
    /\ \E k \in 0 .. Len(arrived) : IsWindow(k, ends') /\ dropped' = k
    /\ UNCHANGED <<limit, saved>>

\* A file holds packets that arrived one after the other, at most as many as
\* the window.  That they are those of the window is more than the ring keeps.
Save ==
    /\ \E from \in 0 .. Len(arrived) : \E length \in 0 .. Len(arrived) - dropped :
          /\ from + length <= Len(arrived)
          /\ saved' = SubSeq(arrived, from + 1, from + length)
    /\ UNCHANGED <<limit, arrived, ends, dropped>>

Next == (\E p \in Packet : Arrive(p)) \/ Save

Spec == Init /\ [][Next]_vars

=============================================================================
