---------------------- MODULE MCCentralizedController ----------------------
(* CentralizedController on small instances; the users are model values.   *)
EXTENDS CentralizedController
=============================================================================
