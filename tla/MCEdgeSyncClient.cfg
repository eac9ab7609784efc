SPECIFICATION ClientSpec
CONSTANTS
  Sockets = {s1, s2}
  MaxCommands = 2
  NoSocket = NoSocket
INVARIANTS OneConnection DisabledStaysOffline
PROPERTIES ScheduledReconnects DeadLinkIsNoticed
