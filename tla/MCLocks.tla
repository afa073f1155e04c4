------------------------------ MODULE MCLocks ------------------------------
(* The sensor's threads: the capture thread, the eviction task, and HTTP    *)
(* tasks that serve any request.                                            *)
EXTENDS Locks, Handlers

CONSTANTS Capture, Eviction, Http

MCTask == {Capture, Eviction} \cup Http

MCScripts == [t \in MCTask |->
                CASE t = Capture -> CaptureThread
                  [] t = Eviction -> EvictionTask
                  [] OTHER -> Requests]

=============================================================================
