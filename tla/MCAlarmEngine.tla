--------------------------- MODULE MCAlarmEngine ---------------------------
(* Instances of AlarmEngine for TLC.                                       *)
EXTENDS AlarmEngine, TLC

LiveOps == {"stop", "snooze", "save", "cast", "silence", "manager", "crash"}
EditOps == {"test", "stop", "save", "delete", "import", "shutdown", "storefails"}
CastOps == {"test", "stop", "save", "cast"}

At(u, timed, on) == [at |-> u, timed |-> timed, enabled |-> on]

MinuteTwo == {At(2, TRUE, TRUE)}
TwoMinutes == UNION {{At(1, TRUE, on), At(2, FALSE, on)} : on \in BOOLEAN}
Symmetry == Permutations(Alarms) \cup Permutations(Runs) \cup Permutations(Audios)
=============================================================================
