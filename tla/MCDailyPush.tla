----------------------------- MODULE MCDailyPush ------------------------------
(* Three files, the last of which PREFERRED_ORDER puts first. *)
EXTENDS DailyPush

ByPreference == <<2, 3, 1>>
===============================================================================
