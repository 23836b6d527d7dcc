\* Six states and four addresses, power lost anywhere.
CONSTANTS
  crc_calc <- Crc16
  States <- SomeStates
  Ips <- LanIps
  Default <- NoData
  MaxTorn = 1
SPECIFICATION EepromSpec
INVARIANT EepromTypeOK
PROPERTY NoTornLoad
