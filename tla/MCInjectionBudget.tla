------------------------- MODULE MCInjectionBudget -------------------------
(* Instances of InjectionBudget for TLC. *)
EXTENDS InjectionBudget

(* An empty side, and one that is just too long. *)
MCTextBytes(chars) == {0, chars + 1}
MCBudgets == {Unset, 1000, 1900}
MCRooms == {NoLimit, 0, 20, 1500}
=============================================================================
