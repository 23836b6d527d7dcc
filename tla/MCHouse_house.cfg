\* One board, one other house, two faults, under fairness.
CONSTANTS
  Houses = {h0, h1}
  MyId = h0
  MyIp = me
  SubnetIps = {me, ph, lan}
  PhoneIps = {ph, zeros}
  OtherIps = {lan, far}
  AllOnes = ones
  AllZeros = zeros
  Mixed = mixed
  Blank = blank
  MaxFaults = 2
SPECIFICATION FairSpec
INVARIANTS TypeOK LockDiscipline NeverDarkButReported
PROPERTIES OffOnlyAfterSilence RefinesOneCall AwayIsDark HomeIsLit OthersShown
