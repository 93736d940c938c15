CONSTANTS
  Clients = {1, 2}
  WokenEarly = {1}
  StoppableClients = {2}
  MaxLen = 2
SPECIFICATION FairBusSpec
PROPERTIES
  BusComesBack
