----------------------------- MODULE Connection -----------------------------
(***************************************************************************)
(* How a channel to the remote side comes and goes: SSHIO                  *)
(* (rsync/rsync_sshio.cpp), which keeps a socket, an ssh session on it and  *)
(* one channel in that, and SocketIO (rsync/rsync_socketio.cpp), whose      *)
(* channel is the socket itself; with SocketUtil::create and close.         *)
(*                                                                         *)
(* A file descriptor is a number that another thread of the application may *)
(* be given as soon as it is closed.  An exception ends whatever runs and    *)
(* leaves the members as they are.                                          *)
(***************************************************************************)
EXTENDS Integers, Sequences

CONSTANTS
  Fds,           \* the descriptors of the process, from 0
  ServerLists    \* what serverList may name, each server "up", "refusing"
                 \* or "silent"

ASSUME ConnectionAssumption ==
  /\ Fds \subseteq Nat /\ 0 \in Fds
  /\ \A list \in ServerLists :
       list \in Seq({"up", "refusing", "silent"}) /\ list # <<>>

VARIABLES
  usingSSH,     \* whether d_io is an SSHIO
  fds,          \* whose each descriptor is: "free", "ours" or "other"
  socket,       \* d_socket
  session,      \* d_session: "none", "made", "started" or "authenticated"
  channel,      \* d_channel: "none", "open" or "running"
  blocking,     \* whether calls of the session block
  servers,      \* the list connect() was given
  server,       \* the one it is at
  onlyFirst,    \* whether it was given a host key
  step          \* where connect() or createChannel() is, or "idle"

io == <<socket, session, channel, blocking>>
request == <<servers, server, onlyFirst>>
connectionVars == <<usingSSH, fds, io, request, step>>
-----------------------------------------------------------------------------
(* SSHIO's constructor has 0 for no socket, as after closeSession; a failed
   create leaves -1, and SocketIO never has anything else.  Descriptor 0 is
   open before the library runs: were it not, it might become d_socket, which
   closeSession then would not close. *)
NoSocket == IF usingSSH THEN 0 ELSE -1

ConnectionInit ==
  /\ usingSSH \in BOOLEAN
  /\ fds = [fd \in Fds |-> IF fd = 0 THEN "other" ELSE "free"]
  /\ socket = NoSocket
  /\ session = "none" /\ channel = "none" /\ blocking = TRUE
  /\ servers \in ServerLists /\ server = 1 /\ onlyFirst = FALSE
  /\ step = "idle"
-----------------------------------------------------------------------------
(* SocketUtil *)
Released(fd) == IF fd \in Fds THEN [fds EXCEPT ![fd] = "free"] ELSE fds

(* create(), when the descriptors are held as "held" says: the lowest one that
   is free, for a socket which connects within ten seconds or is closed again.
   select() says that it is writable as much when the server refuses. *)
Lowest(fd, held) ==
  held[fd] = "free" /\ \A lower \in Fds : lower < fd => held[lower] # "free"

Unclosed(held, fd) == [held EXCEPT ![fd] = "ours"]
ClosedAgain(held, fd) == held

Create(status, held) ==
  \/ /\ \A fd \in Fds : held[fd] # "free"
     /\ socket' = -1 /\ fds' = held
  \/ \E fd \in Fds :
       /\ Lowest(fd, held)
       /\ IF status = "silent"
            THEN socket' = -1 /\ fds' = ClosedAgain(held, fd)
            ELSE socket' = fd /\ fds' = [held EXCEPT ![fd] = "ours"]

(* A member that keeps the number of a descriptor that is closed. *)
Remembered == socket
Forgotten == NoSocket

(* SSHIO::closeSession, with closeChannel; SocketIO::closeChannel. *)
ClosesSession ==
  /\ session' = "none" /\ channel' = "none"
  /\ fds' = IF socket # NoSocket THEN Released(socket) ELSE fds
  /\ socket' = Forgotten
  /\ UNCHANGED blocking

Fails == step' = "idle"
-----------------------------------------------------------------------------
(* SSHIO::connect *)
Connect ==
  /\ usingSSH /\ step = "idle"
  /\ ClosesSession
  /\ servers' \in ServerLists /\ onlyFirst' \in BOOLEAN /\ server' = 1
  /\ step' = "create"
  /\ UNCHANGED usingSSH

TriesNext == ~onlyFirst /\ server < Len(servers)

CreateSocket ==
  /\ step = "create"
  /\ Create(servers[server], fds)
  /\ \/ socket' # -1 /\ step' = "init" /\ UNCHANGED server
     \/ socket' = -1 /\ IF TriesNext THEN server' = server + 1 /\ UNCHANGED step
                                    ELSE Fails /\ UNCHANGED server
  /\ UNCHANGED <<usingSSH, session, channel, blocking, servers, onlyFirst>>

SessionInit ==
  /\ step = "init"
  /\ \/ session' = "made" /\ blocking' = TRUE /\ step' = "startup"
     \/ Fails /\ UNCHANGED <<session, blocking>>
  /\ UNCHANGED <<usingSSH, fds, socket, channel, request>>

(* The handshake, then the host key, whose hash the application may not
   accept, and the password or key. *)
Advance(from, to, next) ==
  /\ step = from
  /\ \/ servers[server] = "up" /\ session' = to /\ step' = next
     \/ Fails /\ UNCHANGED session
  /\ UNCHANGED <<usingSSH, fds, socket, channel, blocking, request>>

SessionStartup == Advance("startup", "started", "hostkey")
CheckHostKey == Advance("hostkey", "started", "auth")
Authenticate == Advance("auth", "authenticated", "idle")
-----------------------------------------------------------------------------
(* createChannel, up to where Client::start goes on.  SSHIO's makes calls of
   the session block before it asks whether there is one; opening a channel
   takes a session that has been authenticated.  SocketIO's connects anew. *)
CreateChannel ==
  /\ step = "idle"
  /\ IF usingSSH
       THEN /\ session # "none"
            /\ channel' = "none" /\ blocking' = TRUE /\ step' = "open"
            /\ UNCHANGED <<fds, socket, session, request>>
       ELSE /\ \E list \in ServerLists :
                 servers' = <<Head(list)>> /\ Create(Head(list), Released(socket))
            /\ step' = IF socket' = -1 THEN "idle" ELSE "running"
            /\ UNCHANGED <<session, channel, blocking, server, onlyFirst>>
  /\ UNCHANGED usingSSH

OpenChannel ==
  /\ step = "open"
  /\ \/ session = "authenticated" /\ channel' = "open" /\ step' = "exec"
     \/ Fails /\ UNCHANGED channel
  /\ UNCHANGED <<usingSSH, fds, socket, session, blocking, request>>

StaysBlocking == blocking
NonBlocking == FALSE

Exec ==
  /\ step = "exec"
  /\ \/ channel' = "running" /\ blocking' = NonBlocking /\ step' = "running"
     \/ Fails /\ UNCHANGED <<channel, blocking>>
  /\ UNCHANGED <<usingSSH, fds, socket, session, request>>

(* SSHIO::closeSession or SocketIO::closeChannel, called by the application or
   a destructor. *)
Close ==
  /\ step = "idle"
  /\ ClosesSession
  /\ UNCHANGED <<usingSSH, request, step>>

ConnectionStep ==
  \/ Connect \/ CreateSocket \/ SessionInit
  \/ SessionStartup \/ CheckHostKey \/ Authenticate
  \/ OpenChannel \/ Exec \/ Close
-----------------------------------------------------------------------------
(* Other threads of the application open and close descriptors of their own. *)
OtherOpens ==
  /\ \E fd \in Fds :
       /\ Lowest(fd, fds)
       /\ fds' = [fds EXCEPT ![fd] = "other"]
  /\ UNCHANGED <<usingSSH, io, request, step>>

OtherCloses ==
  /\ \E fd \in Fds \ {0} :
       fds[fd] = "other" /\ fds' = [fds EXCEPT ![fd] = "free"]
  /\ UNCHANGED <<usingSSH, io, request, step>>
-----------------------------------------------------------------------------
(* A descriptor that is another thread's is closed by that thread only: closing
   a number twice would take a file away from whoever was given the number in
   between. *)
NeverClosesForeign ==
  [][\A fd \in Fds : fds[fd] = "other" /\ fds'[fd] # "other"
       => UNCHANGED <<usingSSH, io, request, step>>]_connectionVars

(* Every socket the library has opened is the one it remembers, after every
   failure of connect() and of createChannel() and whatever server of the list
   it was at: none leaks. *)
SocketsAccounted == \A fd \in Fds : fds[fd] = "ours" => fd = socket

(* Once createChannel() has returned, the channel runs on an authenticated
   session over a socket of the library's own, and reads do not block, whatever
   failed before. *)
ChannelReady ==
  step \in {"running", "version", "seed", "body"} =>
    /\ socket \in Fds /\ fds[socket] = "ours"
    /\ usingSSH => session = "authenticated" /\ channel = "running" /\ ~blocking
=============================================================================
