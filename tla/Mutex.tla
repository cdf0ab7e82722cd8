--------------------------------- MODULE Mutex --------------------------------
(* One lock, held by one thread at a time and released before it is taken  *)
(* again: what the users of reentrant_exclusive_path_lock rely on.         *)
CONSTANTS Thread

VARIABLE holders

MutexInit == holders = {}

Take(t) == holders = {} /\ holders' = {t}

Give == holders # {} /\ holders' = {}

MutexSpec == MutexInit /\ [][Give \/ \E t \in Thread : Take(t)]_holders
===============================================================================
