-------------------------- MODULE MCPhoneInventory --------------------------
(***************************************************************************)
(* What is known of the phones is old: inventory syncs write statuses they *)
(* read earlier, over the two rows of one phone; or capacity refreshes     *)
(* read and publish at different times, with two phones and one slot.  A   *)
(* behaviour picks one of the two at its start.                            *)
(***************************************************************************)
EXTENDS MCPhonePower

VARIABLE setting

CapacityFaults == {"net", "crash", "late"}
CapacityImages == TwoPhones

Refreshed == INSTANCE PhonePower WITH
               ImageOf <- CapacityImages, FaultKinds <- CapacityFaults

InventoryInit == setting \in {"inventory", "capacity"} /\ Init

InventoryNext ==
  /\ UNCHANGED setting
  /\ \/ setting = "inventory" /\ Next
     \/ setting = "capacity" /\ Refreshed!Next

InventorySpec == InventoryInit /\ [][InventoryNext]_<<setting, vars>>

\* The sweep spares tasks in both settings (PhonePower, SparesWork).
SparesWorkInBoth ==
  [][IF setting = "inventory" THEN SparesWorkStep ELSE Refreshed!SparesWorkStep
    ]_<<setting, vars>>
=============================================================================
