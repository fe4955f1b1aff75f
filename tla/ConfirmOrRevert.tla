--------------------------- MODULE ConfirmOrRevert ---------------------------
(***************************************************************************)
(* What a guarded change promises: a new setting goes live together with   *)
(* the setting to fall back to; the trial ends by being kept or by going   *)
(* back, and by nothing else.  An unguarded replacement ends any trial.    *)
(***************************************************************************)
CONSTANTS
    Settings,  \* what can be in force
    None       \* not a setting: no trial is running

VARIABLES
    live,      \* the setting in force
    fallback,  \* during a trial, the setting to go back to
    said       \* what the operator was last told

Told == {"nothing", "trial", "kept", "reverted", "replaced"}

TypeOK ==
    /\ live \in Settings
    /\ fallback \in Settings \cup {None}
    /\ said \in Told

Init == live \in Settings /\ fallback = None /\ said = "nothing"

Try(s) ==
    /\ fallback = None
    /\ live' = s
    /\ fallback' = live
    /\ said' = "trial"

\* The change was refused or undone on the spot.
Refuse ==
    /\ fallback = None
    /\ said' = "reverted"
    /\ UNCHANGED <<live, fallback>>

Keep ==
    /\ fallback # None
    /\ fallback' = None
    /\ said' = "kept"
    /\ UNCHANGED live

Revert ==
    /\ fallback # None
    /\ live' = fallback
    /\ fallback' = None
    /\ said' = "reverted"

Replace(s) == live' = s /\ fallback' = None /\ said' = "replaced"

Next == (\E s \in Settings : Try(s) \/ Replace(s)) \/ Refuse \/ Keep \/ Revert

Spec == Init /\ [][Next]_<<live, fallback, said>>
=============================================================================
