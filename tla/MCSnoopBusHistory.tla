-------------------------- MODULE MCSnoopBusHistory --------------------------
(***************************************************************************)
(* Small instances of SnoopBusHistory for TLC.                             *)
(***************************************************************************)
EXTENDS SnoopBusSingle, SnoopBusHistory
=============================================================================
