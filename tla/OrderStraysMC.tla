--------------------------- MODULE OrderStraysMC ----------------------------
(***************************************************************************)
(* Small instances of OrderStrays: one quote and two order ids.            *)
(***************************************************************************)
EXTENDS OrderStrays

CONSTANTS o1, o2, yes, bid

OneToken == [o \in Ids |-> yes]
OneSlot == [o \in Ids |-> bid]
=============================================================================
