SPECIFICATION Spec
CONSTANTS
  SockNum = 2
  Kinds = {"TCPS", "TCPC", "UDP", "loopback_tcps", "loopback_tcpc", "loopback_udps", "multicast"}
  ChkLinkTmr = 1
INVARIANT ClientReportsInTurn
  
