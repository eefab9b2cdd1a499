SPECIFICATION Spec
CONSTANTS
  MAX_DNS_RETRY = 2
  DNS_WAIT_TIME = 2
  NumPorts = 3
  MaxQueries = 3
INVARIANTS AnswerIsOwn DeadlineKept
PROPERTY DnsRunReturns
CHECK_DEADLOCK FALSE
