------------------------------ MODULE HistoryLog ------------------------------
(***************************************************************************)
(* What a history of attempts is to its users: one log, shared by every    *)
(* process, that grows by whole entries and keeps the newest MaxEntries.   *)
(* LossyNext adds what a crash of a writing process or a full disk may do  *)
(* to it: all of the log is gone, never a part of it, and never is it      *)
(* garbled.  While the log is empty, a process that remembers entries of   *)
(* its own may bring them back.                                            *)
(***************************************************************************)
EXTENDS Naturals, Sequences

CONSTANTS Entry, MaxEntries

VARIABLE log

Newest(s) ==
    IF Len(s) > MaxEntries
    THEN SubSeq(s, Len(s) - MaxEntries + 1, Len(s))
    ELSE s

LogInit == log = <<>>

Record(entry) == log' = Newest(Append(log, entry))

Lose == log' = <<>>

LogSpec == LogInit /\ [][\E entry \in Entry : Record(entry)]_log

Recover == log = <<>> /\ log' \in Seq(Entry)

LossyNext == (\E entry \in Entry : Record(entry)) \/ Lose \/ Recover

LossySpec == LogInit /\ [][LossyNext]_log
===============================================================================
