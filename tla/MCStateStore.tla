---------------------------- MODULE MCStateStore ----------------------------
(***************************************************************************)
(* A small instance of StateStore.  Rows, log, snapshots and restarts do   *)
(* not depend on subscribers, and subscribers only see that changes come:  *)
(* `focus` says which of the two a behaviour explores, with two keys and   *)
(* values and three changes, or two subscribers and four changes of one    *)
(* slot at one instant.                                                    *)
(***************************************************************************)
EXTENDS StateStore, TLC

VARIABLE focus

MCInit == focus \in {"rows", "subscribers"} /\ Init

MCNext ==
    /\ Next
    /\ UNCHANGED focus
    /\ focus = "rows" => subs' = {} /\ st'.lastID < MaxChanges
    /\ focus = "subscribers" =>
         /\ now' = now /\ restores' = restores
         /\ \A c, d \in st'.log :
                c.slot = d.slot /\ (NoValue \notin {c.value, d.value} => c.value = d.value)

MCSpec == MCInit /\ [][MCNext]_<<focus, vars>>

MCSymmetry == Permutations(Keys) \cup Permutations(Values) \cup Permutations(Subscribers)
=============================================================================
