---------------------------- MODULE MCQueueLife -----------------------------
(* Instances of QueueLife for TLC: the worker and the host of one process.   *)
EXTENDS QueueLife

CONSTANTS worker, host, reply, mark

Worker == {worker}
Host == {host}
Pushed == {reply, mark}
=============================================================================
