\* Two calls, HTTP or stdio, with and without tunnel and redaction, from
\* valid and invalid settings.
SPECIFICATION FairSpec
CONSTANTS
  Calls = {c1, c2}
  Files <- MCFiles
  Settings <- MCSettings
  Homes = {TRUE, FALSE}
  Requests <- MCRequests
INVARIANTS
  NoOpenDoor
  BrowsersStayBlocked
  TunnelNeverBypassed
  PoolsCloseThroughTunnel
  BlameIsDeserved
  ErrorsLeaveRedacted
PROPERTIES
  StopsInTheEnd
