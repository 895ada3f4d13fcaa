SPECIFICATION FairBusSpec
CONSTANTS
  worker1 = worker1
  worker2 = worker2
  runner = runner
  canceller = canceller
  client = client
  Nobody = Nobody
  Workers <- MCWorkers
  Publishers <- Threads
  Homes <- MCHomes
  Script <- MCScript
  Clients <- OneClient
  MaxConnects = 3
  ListLimit = 4
  EsFaults = 1
  Restarts = 1
INVARIANT StoredInOrder
INVARIANT NoEventTwice
PROPERTY RegisteredSeesTheEnd
CHECK_DEADLOCK FALSE
