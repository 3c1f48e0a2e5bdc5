---------------------------- MODULE OrderSyncMC -----------------------------
(***************************************************************************)
(* Small instances of OrderSync: one quote and two order ids.              *)
(***************************************************************************)
EXTENDS OrderSync

CONSTANTS o1, o2, yes, bid

OneToken == [o \in Ids |-> yes]
OneSlot == [o \in Ids |-> bid]
=============================================================================
