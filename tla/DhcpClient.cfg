SPECIFICATION Spec
CONSTANTS
  Servers = {s1, s2}
  Addresses = {a1, a2, a3}
  Taken = {a3}
  LeaseTimes = {0, 3}
  Infinite = 99
  MAX_DHCP_RETRY = 2
  DHCP_WAIT_TIME = 2
  Zero = Zero
  MaxTick = 6
INVARIANTS LeasedAddressInUse LeaseFromOfferer RenewalOnTime
PROPERTY NeverStuck
