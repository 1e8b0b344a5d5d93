SPECIFICATION Spec
CONSTANTS
  Fds = {0, 1, 2}
  ServerLists <- mcServerLists
  PreferredProtocol = 30
  SSHVersions = {28, 29, 30}
  DaemonVersions = {30, 31}
  MaxSessions = 3
  MaxWrites = 2
INVARIANTS SocketsAccounted ChannelReady SessionsAreSeparate
PROPERTIES NeverClosesForeign
