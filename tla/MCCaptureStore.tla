-------------------------- MODULE MCCaptureStore --------------------------
(* Two savers (the capture thread and a manual capture, or two manual ones) *)
(* and one download, over an index of two records.                          *)
EXTENDS CaptureStore, TLC

CONSTANTS alert, manual, download

MCWorker == {alert, manual}

MCReader == {download}

\* The two savers run the same code.
Symmetry == Permutations(MCWorker)
===========================================================================
