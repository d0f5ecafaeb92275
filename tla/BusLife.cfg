\* A worker with a queue of one event, two webhooks, and one MongoDB error.
CONSTANTS
  e1 = e1  e2 = e2  h1 = h1  h2 = h2
  Ev = {e1, e2}
  Hook = {h1, h2}
  Wants <- MCWants
  QueueSize = 1
  MaxAttempts = 2
  MaxErrors = 1
SPECIFICATION Spec
CHECK_DEADLOCK FALSE
INVARIANTS EveryEndpointIsTried EndpointHistory CleanStop
PROPERTIES AcceptedIsHandled
