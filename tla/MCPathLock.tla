------------------------------ MODULE MCPathLock ------------------------------
(* PathLock for TLC: four threads in two processes.                        *)
EXTENDS PathLock

CONSTANTS a1, a2, b1, b2, ProcA, ProcB

MCThread == {a1, a2, b1, b2}
MCProcess == {ProcA, ProcB}
MCProcessOf == [t \in MCThread |-> IF t \in {a1, a2} THEN ProcA ELSE ProcB]
===============================================================================
