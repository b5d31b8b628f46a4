------------------------ MODULE EmergencyController ------------------------
(***************************************************************************)
(* EmergencyControllerV1: one bounded pause per epoch.  The safe may pause *)
(* once in an epoch; only governance opens the next epoch, and only after  *)
(* the running pause has expired.                                          *)
(***************************************************************************)
EXTENDS ProtocolTypes

CONSTANTS
    PauseOptions,     \* the flag sets the safe may choose from (bound of the runs)
    PauseDurations,   \* the durations it may choose from (bound of the runs)
    MaxEpoch          \* bound on epoch

ASSUME PauseAssumption ==
    /\ PauseOptions \subseteq SUBSET PauseFlags
    /\ PauseDurations \subseteq Nat
    /\ MaxEpoch \in Nat \ {0}

VARIABLES
    epoch,
    epochUsed,        \* SUBSET Nat: the epochs whose pause was spent
    pausedFlags,
    pauseExpiresAt

pauseVars == <<epoch, epochUsed, pausedFlags, pauseExpiresAt>>

PauseInit ==
    /\ epoch = 1
    /\ epochUsed = {}
    /\ pausedFlags = {}
    /\ pauseExpiresAt = 0

PauseTypeOK ==
    /\ epoch \in 1..MaxEpoch
    /\ epochUsed \subseteq 1..epoch
    /\ pausedFlags \subseteq PauseFlags
    /\ pauseExpiresAt \in Nat

-----------------------------------------------------------------------------

IsPaused(flag) == now < pauseExpiresAt /\ flag \in pausedFlags

Pause(flags, duration) ==
    /\ flags # {}
    /\ duration # 0 /\ duration <= MaxPause
    /\ epoch \notin epochUsed
    /\ epochUsed' = epochUsed \cup {epoch}
    /\ pausedFlags' = flags
    /\ pauseExpiresAt' = now + duration
    /\ UNCHANGED epoch

ResetEpoch ==
    /\ now >= pauseExpiresAt
    /\ epoch < MaxEpoch
    /\ epoch' = epoch + 1
    /\ pausedFlags' = {}
    /\ pauseExpiresAt' = 0
    /\ UNCHANGED epochUsed

=============================================================================
