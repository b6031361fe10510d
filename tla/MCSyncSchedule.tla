--------------------------- MODULE MCSyncSchedule ---------------------------
(***************************************************************************)
(* Instance of SyncSchedule: two datasets, the source of the first never   *)
(* answering by itself, and room for one loop more than can be stuck.      *)
(***************************************************************************)
EXTENDS SyncSchedule

MCKeys == 1..2
MCStuck == {1}
=============================================================================
