\* Two sockets under the fairness of the runtime, with losses, silence,
\* timeouts, cancellation and drop at every point.
SPECIFICATION FairSpec
CONSTANTS
  Sockets = {s1, s2}
  NoSocket = NoSocket
  Keepalive = TRUE
INVARIANTS
  SingleFlight
  OneSession
  LossIsGenuine
PROPERTIES
  ImplementsSharedConnect
  EveryCallReturns
  EverySocketSettles
  DropStopsEverything
