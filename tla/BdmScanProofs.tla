---------------------------- MODULE BdmScanProofs ---------------------------
(***************************************************************************)
(* Proofs about the detection and scanning of a block device (BdmScan),    *)
(* for any media and delays and any number of events, failures and         *)
(* refreshes.                                                              *)
(***************************************************************************)
EXTENDS BdmScan, TLAPS

(* A scan that has begun has found the slot connected, and only the worker *)
(* itself clears bdmPrefix, before it begins another one.                  *)
ListInv == ListNeedsDevice /\ (pc = "read" => prefix)

(* A list of games is held only for a slot that was found connected,       *)
(* through every order of events, polls, failures and refreshes; it is     *)
(* released by the bdmUpdateGameList that follows the loss of the device.  *)
THEOREM ListIsBacked == Spec => []ListNeedsDevice
<1>1. Init => ListInv
  BY DEF Init, ListInv, ListNeedsDevice
<1>2. ListInv /\ [Next]_vars => ListInv'
  <2> SUFFICES ASSUME ListInv, [Next]_vars PROVE ListInv'
    OBVIOUS
  <2> USE DEF ListInv, ListNeedsDevice, world, gens, slot, scan, locals, bounds
  <2>1. CASE Environment
    BY <2>1 DEF Environment, Plug, Unplug, OtherSlot, itemExecRefresh,
                bdmDeleteGame, AskRefresh, bdmInitDevicesData
  <2>2. CASE bdmEventHandler \/ Frames \/ PollOther
    BY <2>2 DEF bdmEventHandler, Frames, PollOther
  <2>3. CASE Poll
    BY <2>3 DEF Poll, TakeForceRefresh
  <2>4. CASE Settle
    BY <2>4 DEF Settle
  <2>5. CASE ClearUnmount
    BY <2>5 DEF ClearUnmount
  <2>6. CASE CheckDeferred
    BY <2>6 DEF CheckDeferred
  <2>7. CASE CheckTick
    BY <2>7 DEF CheckTick
  <2>8. CASE DeviceNotReady
    BY <2>8 DEF DeviceNotReady, bdmDeferScan
  <2>9. CASE DeviceAppeared
    BY <2>9 DEF DeviceAppeared
  <2>10. CASE DeviceVanished
    BY <2>10 DEF DeviceVanished
  <2>11. CASE DeviceSame
    BY <2>11 DEF DeviceSame
  <2>12. CASE ScanNotReady
    BY <2>12 DEF ScanNotReady, bdmDeviceReadyForFilesystem
  <2>13. CASE ScanStarts
    BY <2>13 DEF ScanStarts, bdmDeviceReadyForFilesystem
  <2>14. CASE ScanReadsNothing
    BY <2>14 DEF ScanReadsNothing
  <2>15. CASE ScanReads
    BY <2>15 DEF ScanReads
  <2>16. CASE UNCHANGED vars
    BY <2>16 DEF vars
  <2> QED
    BY <2>1, <2>2, <2>3, <2>4, <2>5, <2>6, <2>7, <2>8, <2>9, <2>10, <2>11,
       <2>12, <2>13, <2>14, <2>15, <2>16
       DEF Next, Worker
<1>3. ListInv => ListNeedsDevice
  BY DEF ListInv
<1> QED
  BY <1>1, <1>2, <1>3, PTL DEF Spec

=============================================================================
