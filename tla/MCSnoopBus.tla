----------------------------- MODULE MCSnoopBus -----------------------------
(***************************************************************************)
(* Small instances of SnoopBus for TLC.                                    *)
(***************************************************************************)
EXTENDS SnoopBusSingle, SnoopBusInvariant
=============================================================================
