\* Two addresses; the shortest times in the order of the real ones.
CONSTANTS
  Ips = {a, b}
  NoIp = NoIp
  TIMEOUT = 2
  WDTO = 1
  DELAY = 1
  RenewalTime = 2
  Grant = 8
  MaxDelay = 1
SPECIFICATION Spec
INVARIANTS HeldIsGranted
PROPERTY LeaseRegained
