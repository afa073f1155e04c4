------------------------------- MODULE MCDlq -------------------------------
(* Two callers on a queue whose threshold is crossed by the second or third *)
(* payload; two processes, within one second or not.                        *)
EXTENDS Dlq, TLC

Symmetry == Permutations(Caller)

=============================================================================
