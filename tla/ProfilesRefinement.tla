-------------------------- MODULE ProfilesRefinement --------------------------
(***************************************************************************)
(* Profiles seen as Grants, as far as the profiles are concerned whose     *)
(* changes run alone (AloneOn).  Other profiles' requests overlap,         *)
(* statements fail and the process restarts at any point.                  *)
(***************************************************************************)
EXTENDS Profiles

\* A token of one of the profiles in AloneOn, revoked or not.
Watched(t) == token[t] # None /\ token[t].profile \in AloneOn

SettingsSeen == [p \in AloneOn |-> profile[p]]
EquippedSeen == seeded \cap AloneOn
ListedSeen == [t \in Tokens |-> IF Watched(t) THEN token[t].profile ELSE None]
OpensSeen == [t \in Tokens |->
                 IF Watched(t) /\ ~token[t].revoked THEN token[t].profile ELSE None]
UsedSeen == {p \in AloneOn : life[p] # "unused"}

Promised == INSTANCE Grants WITH
    Profiles <- AloneOn,
    Changes  <- Payload,
    settings <- SettingsSeen,
    equipped <- EquippedSeen,
    listed   <- ListedSeen,
    opens    <- OpensSeen,
    used     <- UsedSeen,
    spent    <- issued

\* Every step of a handler, a failure or a restart is one step of Grants or
\* invisible: reading a row and saving all of it later, saving a token's last
\* use while serving it, and what overlaps on other profiles show nowhere.
KeepsGrants == Promised!Spec
=============================================================================
