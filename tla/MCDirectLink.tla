---------------------------- MODULE MCDirectLink ----------------------------
(* Two connections, one after or beside the other, and a queue of three.   *)
EXTENDS DirectLink

AllLinks == {"tcp", "ble", "serial"}
BleOnly  == {"ble"}
=============================================================================
