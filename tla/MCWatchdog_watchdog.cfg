\* The firmware's own times, in seconds.
CONSTANTS
  Periods = {8, 64}
  HTTP_TIMEOUT = 5
  SWEEP = 2
  DHCP_SETUP = 60
  DNS_LOOKUP = 30
  DELAY = 7
SPECIFICATION Spec
INVARIANTS BitesOnlyNested PassIsShort NeverBites
