\* No fault at all: a toggle the server is not told of.
CONSTANTS
  Houses = {h0}
  MyId = h0
  MyIp = me
  SubnetIps = {me, ph, lan}
  PhoneIps = {ph, zeros}
  OtherIps = {lan, far}
  AllOnes = ones
  AllZeros = zeros
  Mixed = mixed
  Blank = blank
  MaxFaults = 0
SPECIFICATION Spec
INVARIANTS ServerKnowsOfToggle
