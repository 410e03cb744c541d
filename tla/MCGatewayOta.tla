---------------------------- MODULE MCGatewayOta ----------------------------
(***************************************************************************)
(* Instances of GatewayOta.  The flash has one reserved block and two OTA  *)
(* blocks; an image for the external MCU overlaps the one for the device.  *)
(***************************************************************************)
EXTENDS GatewayOta

(* An image for the device, one for the MCU, and one that does not fit. *)
iote1 == [num |-> 1, dev |-> "iote", blocks |-> 2, old |-> <<1>>,
          new |-> <<2>>, type |-> 0]
mcu2  == [num |-> 2, dev |-> "mcu", blocks |-> 2, old |-> <<9>>,
          new |-> <<9>>, type |-> 0]

big3  == [num |-> 3, dev |-> "mcu", blocks |-> 4, old |-> <<9>>,
          new |-> <<9>>, type |-> 0]

(* An upgrade of what iote1 installs, with a version that is no longer a   *)
(* one-character string: the device is upgraded twice.                     *)
iote4 == [num |-> 4, dev |-> "iote", blocks |-> 1, old |-> <<2>>,
          new |-> <<1, 1>>, type |-> 1]

MCImages == {iote1, mcu2, big3, iote4}
MCRepeated == {iote1}
MCFirstVersion == <<1>>
=============================================================================
