------------------------------ MODULE MCEeprom ------------------------------
(* Eeprom on a /24 network: the unknown target and three addresses that     *)
(* differ in their last byte, and a few patterns of the eight houses.       *)
EXTENDS Eeprom, Crc16

SomeStates == {0, 1, 15, 48, 129, 255}
LanIps == {<<255, 255, 255, 255>>, <<192, 168, 1, 1>>, <<192, 168, 1, 16>>,
           <<192, 168, 1, 240>>}
NoData == [state |-> 0, ip |-> <<255, 255, 255, 255>>]
=============================================================================
