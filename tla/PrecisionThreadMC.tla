-------------------------- MODULE PrecisionThreadMC --------------------------
(* Small instances of PrecisionThread.                                     *)
EXTENDS PrecisionThread

CONSTANTS owner, tuner  \* the client that runs the thread, the one that tunes it

Split == [c \in {owner, tuner} |->
            IF c = owner
              THEN {"Initialize", "Start", "Pause", "Terminate", "WakeForWork"}
              ELSE {"Bump", "SetIterationPeriod", "SetIterationDeltaMode",
                    "WakeForWork", "Pause"}]

(* Two clients that only steer: one stops and resumes, one bumps.          *)
Resuming == [c \in {owner, tuner} |-> {"Start", "Pause"}]
Bumping == [c \in {owner, tuner} |->
              IF c = owner THEN {"Start", "SetIterationPeriod"} ELSE {"Bump"}]
=============================================================================
