--------------------------- MODULE MCCaptureLoop ---------------------------
(* Two devices, a configured name that is no device, and two HTTP tasks.    *)
EXTENDS CaptureLoop

CONSTANTS eth0, eth1, missing, task1, task2

MCIface == {eth0, eth1, missing}

MCDevice == {eth0, eth1}

MCClient == {task1, task2}
============================================================================
