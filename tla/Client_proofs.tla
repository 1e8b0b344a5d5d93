---------------------------- MODULE Client_proofs ----------------------------
(***************************************************************************)
(* For any number of descriptors, servers, operations and writes, an IO      *)
(* neither leaks a socket nor closes a descriptor that is not its own, a     *)
(* session begins on a channel that is ready, and nothing of an earlier       *)
(* operation gets into it.                                                   *)
(***************************************************************************)
EXTENDS Client, TLAPS

Mine == Fds \ {0}

(* d_socket is a descriptor of the library's own or none, and there is no
   other. *)
Owned ==
  /\ usingSSH \in BOOLEAN
  /\ fds \in [Fds -> {"free", "ours", "other"}] /\ fds[0] = "other"
  /\ socket \in Fds \cup {-1}
  /\ SocketsAccounted
  /\ socket \in Mine => fds[socket] = "ours"
  /\ socket = 0 => usingSSH = TRUE
  /\ step = "create" => socket \notin Mine

(* How far connect() or createChannel() has come says what there is. *)
Progress ==
  /\ step \in {"create", "init", "startup", "hostkey", "auth", "open", "exec"} => usingSSH = TRUE
  /\ step \in {"create", "init"} => session = "none"
  /\ step \in {"init", "startup", "hostkey", "auth"} => socket \in Mine
  /\ usingSSH = TRUE /\ session # "none" => socket \in Mine
  /\ step \in {"exec", "running", "version", "seed", "body"} =>
       (usingSSH = TRUE => session = "authenticated")
  /\ step \in {"running", "version", "seed", "body"} =>
       /\ usingSSH = TRUE => channel = "running" /\ blocking = FALSE
       /\ usingSSH = FALSE => socket \in Mine

ConnectionInv == Owned /\ Progress

LEMMA Descriptors == Fds \subseteq Nat /\ 0 \in Fds /\ -1 \notin Fds
BY ConnectionAssumption

LEMMA ConnectionInitInv == Init => ConnectionInv
<1> SUFFICES ASSUME Init PROVE ConnectionInv
  OBVIOUS
<1>1. /\ usingSSH \in BOOLEAN /\ fds = [fd \in Fds |-> IF fd = 0 THEN "other" ELSE "free"]
      /\ socket = (IF usingSSH THEN 0 ELSE -1)
      /\ session = "none" /\ step = "idle"
  BY DEF Init, ConnectionInit, NoSocket
<1>2. Owned
  BY <1>1, Descriptors DEF Owned, SocketsAccounted, Mine
<1>3. Progress
  BY <1>1 DEF Progress
<1> QED BY <1>2, <1>3 DEF ConnectionInv
-----------------------------------------------------------------------------
(* closeSession leaves no descriptor of the library's own. *)
LEMMA ClosesAll ==
  ASSUME Owned, ClosesSession, usingSSH' = usingSSH
  PROVE  /\ fds' \in [Fds -> {"free", "ours", "other"}] /\ fds'[0] = "other"
         /\ \A fd \in Fds : fds'[fd] # "ours"
         /\ \A fd \in Fds : fds[fd] = "other" => fds'[fd] = "other"
         /\ socket' = (IF usingSSH THEN 0 ELSE -1)
<1>1. socket' = (IF usingSSH THEN 0 ELSE -1)
  BY DEF ClosesSession, Forgotten, NoSocket
<1>2. CASE socket \in Mine
  <2>1. fds' = [fds EXCEPT ![socket] = "free"]
    BY <1>2, Descriptors DEF Owned, ClosesSession, Released, NoSocket, Mine
  <2> QED BY <1>1, <1>2, <2>1, Descriptors DEF Owned, SocketsAccounted, Mine
<1>3. CASE socket \notin Mine
  <2>1. fds' = fds
    BY <1>3, Descriptors DEF Owned, ClosesSession, Released, NoSocket, Mine
  <2> QED BY <1>1, <1>3, <2>1, Descriptors DEF Owned, SocketsAccounted, Mine
<1> QED BY <1>2, <1>3

(* create() takes a free descriptor, keeps it or gives it back. *)
LEMMA CreatesOne ==
  ASSUME NEW status, NEW held \in [Fds -> {"free", "ours", "other"}], held[0] = "other",
         \A fd \in Fds : held[fd] # "ours",
         Create(status, held)
  PROVE  /\ fds' \in [Fds -> {"free", "ours", "other"}] /\ fds'[0] = "other"
         /\ socket' \in Mine \cup {-1}
         /\ \A fd \in Fds : fds'[fd] = "ours" => fd = socket'
         /\ socket' \in Mine => fds'[socket'] = "ours"
         /\ \A fd \in Fds : held[fd] = "other" => fds'[fd] = "other"
<1>1. CASE socket' = -1 /\ fds' = held
  BY <1>1, Descriptors DEF Mine
<1>2. ASSUME NEW fd \in Fds, held[fd] = "free",
             socket' = fd, fds' = [held EXCEPT ![fd] = "ours"]
      PROVE  /\ fds' \in [Fds -> {"free", "ours", "other"}] /\ fds'[0] = "other"
             /\ socket' \in Mine \cup {-1}
             /\ \A x \in Fds : fds'[x] = "ours" => x = socket'
             /\ socket' \in Mine => fds'[socket'] = "ours"
             /\ \A x \in Fds : held[x] = "other" => fds'[x] = "other"
  <2>1. fd # 0 /\ fd \in Mine
    BY <1>2 DEF Mine
  <2> QED BY <1>2, <2>1, Descriptors
<1>3. \/ socket' = -1 /\ fds' = held
      \/ \E fd \in Fds : held[fd] = "free" /\ socket' = fd /\ fds' = [held EXCEPT ![fd] = "ours"]
  BY DEF Create, Lowest, ClosedAgain
<1> QED BY <1>1, <1>2, <1>3

(* The descriptors of the library and those of other threads, over a step of
   each. *)
LEMMA OwnStep ==
  ASSUME Owned, Connect \/ CreateSocket \/ CreateChannel \/ Close
  PROVE  Owned' /\ \A fd \in Fds : fds[fd] = "other" => fds'[fd] = "other"
<1>1. CASE Connect \/ Close
  <2>1. ClosesSession /\ usingSSH' = usingSSH /\ usingSSH \in BOOLEAN
    BY <1>1 DEF Connect, Close, Owned
  <2>2. /\ fds' \in [Fds -> {"free", "ours", "other"}] /\ fds'[0] = "other"
        /\ \A fd \in Fds : fds'[fd] # "ours"
        /\ \A fd \in Fds : fds[fd] = "other" => fds'[fd] = "other"
        /\ socket' = (IF usingSSH THEN 0 ELSE -1)
    BY <2>1, ClosesAll
  <2> QED BY <2>1, <2>2, Descriptors DEF Owned, SocketsAccounted, Mine
<1>2. CASE CreateSocket
  <2>1. step = "create" /\ usingSSH' = usingSSH /\ Create(servers[server], fds)
        /\ (step' = "create" => socket' = -1)
    BY <1>2 DEF CreateSocket, Fails
  <2>2. \A fd \in Fds : fds[fd] # "ours"
    BY <2>1, Descriptors DEF Owned, SocketsAccounted, Mine
  <2>3. fds \in [Fds -> {"free", "ours", "other"}] /\ fds[0] = "other"
    BY DEF Owned
  <2>4. /\ fds' \in [Fds -> {"free", "ours", "other"}] /\ fds'[0] = "other"
        /\ socket' \in Mine \cup {-1}
        /\ \A fd \in Fds : fds'[fd] = "ours" => fd = socket'
        /\ socket' \in Mine => fds'[socket'] = "ours"
        /\ \A fd \in Fds : fds[fd] = "other" => fds'[fd] = "other"
    BY <2>1, <2>2, <2>3, CreatesOne
  <2> QED BY <2>1, <2>4, Descriptors DEF Owned, SocketsAccounted, Mine
<1>3. CASE CreateChannel /\ usingSSH
  <2>1. fds' = fds /\ socket' = socket /\ usingSSH' = usingSSH /\ step' = "open"
    BY <1>3 DEF CreateChannel
  <2> QED BY <2>1 DEF Owned, SocketsAccounted
<1>4. CASE CreateChannel /\ ~usingSSH
  <2>1. /\ usingSSH' = usingSSH /\ step' \in {"idle", "running"}
        /\ \E list \in ServerLists : Create(Head(list), Released(socket))
    BY <1>4 DEF CreateChannel
  <2> DEFINE held == Released(socket)
  <2>2. socket # 0
    BY <1>4 DEF Owned
  <2>4. /\ held \in [Fds -> {"free", "ours", "other"}] /\ held[0] = "other"
        /\ \A fd \in Fds : held[fd] # "ours"
        /\ \A fd \in Fds : fds[fd] = "other" => held[fd] = "other"
    BY <2>2, Descriptors DEF Owned, SocketsAccounted, Mine, Released
  <2> QED BY <2>1, <2>4, CreatesOne, Descriptors DEF Owned, SocketsAccounted, Mine
<1> QED BY <1>1, <1>2, <1>3, <1>4
LEMMA OtherStep ==
  ASSUME Owned, OtherOpens \/ OtherCloses
  PROVE  Owned'
<1>1. /\ UNCHANGED <<usingSSH, socket, step>>
      /\ \E fd \in Fds : \/ fds[fd] = "free" /\ fds' = [fds EXCEPT ![fd] = "other"]
                         \/ fd # 0 /\ fds[fd] = "other" /\ fds' = [fds EXCEPT ![fd] = "free"]
  BY DEF OtherOpens, OtherCloses, Lowest, io
<1> QED BY <1>1, Descriptors DEF Owned, SocketsAccounted, Mine

(* The steps that leave the descriptors alone. *)
Quiet ==
  \/ SessionInit \/ SessionStartup \/ CheckHostKey \/ Authenticate \/ OpenChannel \/ Exec
  \/ NewClient \/ WriteVersion \/ ReadVersion \/ ReadSeed \/ Body \/ Ends

LEMMA QuietStep ==
  ASSUME Quiet
  PROVE  fds' = fds /\ socket' = socket /\ usingSSH' = usingSSH /\ (step' = "create" => step = "create")
<1>1. CASE SessionInit \/ SessionStartup \/ CheckHostKey \/ Authenticate \/ OpenChannel \/ Exec
  BY <1>1 DEF SessionInit, SessionStartup, CheckHostKey, Authenticate, Advance, OpenChannel, Exec, Fails
<1>2. CASE NewClient \/ Body
  BY <1>2 DEF NewClient, Body, connectionVars, io
<1>3. CASE WriteVersion \/ ReadVersion \/ ReadSeed \/ Ends
  BY <1>3 DEF WriteVersion, ReadVersion, ReadSeed, Ends, io
<1> QED BY <1>1, <1>2, <1>3 DEF Quiet

LEMMA Steps ==
  ASSUME Next
  PROVE  \/ Connect \/ CreateSocket \/ CreateChannel \/ Close
         \/ OtherOpens \/ OtherCloses
         \/ Quiet
BY Zenon DEF Next, ConnectionStep, Start, Quiet

LEMMA OwnedIsKept == Owned /\ [Next]_vars => Owned'
<1> SUFFICES ASSUME Owned, [Next]_vars PROVE Owned'
  OBVIOUS
<1>1. CASE Connect \/ CreateSocket \/ CreateChannel \/ Close
  BY <1>1, OwnStep
<1>2. CASE OtherOpens \/ OtherCloses
  BY <1>2, OtherStep
<1>3. CASE Quiet \/ UNCHANGED vars
  <2>1. fds' = fds /\ socket' = socket /\ usingSSH' = usingSSH /\ (step' = "create" => step = "create")
    BY <1>3, QuietStep DEF vars, connectionVars, io
  <2> QED BY <2>1 DEF Owned, SocketsAccounted
<1> QED BY <1>1, <1>2, <1>3, Steps
-----------------------------------------------------------------------------
LEMMA CreateNotZero ==
  ASSUME Owned, CreateSocket
  PROVE  socket' # 0
<1>1. Create(servers[server], fds) /\ fds[0] = "other"
  BY DEF CreateSocket, Owned
<1> QED BY <1>1 DEF Create, Lowest

LEMMA ConnectProgress ==
  ASSUME Owned, Progress, Owned', Connect \/ CreateSocket \/ SessionInit \/ Close
  PROVE  Progress'
<1>1. CASE Connect \/ Close
  <2>1. session' = "none" /\ usingSSH' = usingSSH /\ step' \in {"create", "idle"}
        /\ (step' = "create" => usingSSH = TRUE)
    BY <1>1 DEF Connect, Close, ClosesSession, Owned
  <2> QED BY <2>1 DEF Progress
<1>2. CASE CreateSocket
  <2>1. /\ step = "create" /\ usingSSH' = usingSSH /\ session' = session
        /\ \/ socket' # -1 /\ step' = "init"
           \/ socket' = -1 /\ step' \in {"create", "idle"}
    BY <1>2 DEF CreateSocket, Fails
  <2>2. socket' # 0
    BY <1>2, <2>1, CreateNotZero
  <2> QED BY <2>1, <2>2 DEF Progress, Owned, Mine
<1>3. CASE SessionInit
  <2>1. /\ step = "init" /\ usingSSH' = usingSSH /\ socket' = socket
        /\ \/ session' = "made" /\ step' = "startup"
           \/ session' = session /\ step' = "idle"
    BY <1>3 DEF SessionInit, Fails
  <2> QED BY <2>1 DEF Progress
<1> QED BY <1>1, <1>2, <1>3

LEMMA HandshakeProgress ==
  ASSUME Progress, SessionStartup \/ CheckHostKey \/ Authenticate
  PROVE  Progress'
<1>1. /\ usingSSH' = usingSSH /\ socket' = socket
      /\ step \in {"startup", "hostkey", "auth"} /\ step' \in {"hostkey", "auth", "idle"}
  BY DEF SessionStartup, CheckHostKey, Authenticate, Advance, Fails
<1> QED BY <1>1 DEF Progress

LEMMA ChannelProgress ==
  ASSUME Owned, Progress, CreateChannel \/ OpenChannel \/ Exec
  PROVE  Progress'
<1>1. CASE CreateChannel
  <2>1. CASE usingSSH
    <3>1. /\ usingSSH = TRUE /\ usingSSH' = usingSSH /\ session' = session /\ socket' = socket
          /\ step' = "open"
      BY <1>1, <2>1 DEF CreateChannel, Owned
    <3> QED BY <3>1 DEF Progress
  <2>2. CASE ~usingSSH
    <3>1. /\ usingSSH = FALSE /\ usingSSH' = usingSSH
          /\ \/ step' = "idle"
             \/ step' = "running" /\ socket' # -1
      BY <1>1, <2>2 DEF CreateChannel, Owned
    <3>2. Owned'
      BY <1>1, OwnStep
    <3> QED BY <3>1, <3>2 DEF Progress, Owned, Mine
  <2> QED BY <2>1, <2>2
<1>2. CASE OpenChannel
  <2>1. /\ step = "open" /\ usingSSH' = usingSSH /\ socket' = socket /\ session' = session
        /\ \/ session = "authenticated" /\ step' = "exec"
           \/ step' = "idle"
    BY <1>2 DEF OpenChannel, Fails
  <2> QED BY <2>1 DEF Progress
<1>3. CASE Exec
  <2>1. /\ step = "exec" /\ usingSSH' = usingSSH /\ socket' = socket /\ session' = session
        /\ \/ channel' = "running" /\ blocking' = FALSE /\ step' = "running"
           \/ step' = "idle"
    BY <1>3 DEF Exec, Fails, NonBlocking
  <2> QED BY <2>1 DEF Progress
<1> QED BY <1>1, <1>2, <1>3

LEMMA ClientProgress ==
  ASSUME Progress, NewClient \/ WriteVersion \/ ReadVersion \/ ReadSeed \/ Body \/ Ends
  PROVE  Progress'
<1>1. CASE Ends
  <2>1. /\ usingSSH' = usingSSH /\ socket' = socket /\ session' = session /\ step' = "idle"
    BY <1>1 DEF Ends
  <2> QED BY <2>1 DEF Progress
<1>2. CASE NewClient \/ Body
  <2>1. UNCHANGED <<usingSSH, socket, session, channel, blocking, step>>
    BY <1>2 DEF NewClient, Body, connectionVars, io
  <2> QED BY <2>1 DEF Progress
<1>3. CASE WriteVersion \/ ReadVersion \/ ReadSeed
  <2>1. /\ UNCHANGED <<usingSSH, socket, session, channel, blocking>>
        /\ step \in {"running", "version", "seed"} /\ step' \in {"version", "seed", "body", "idle"}
    BY <1>3 DEF WriteVersion, ReadVersion, ReadSeed, io
  <2> QED BY <2>1 DEF Progress
<1> QED BY <1>1, <1>2, <1>3

LEMMA NextProgress == ConnectionInv /\ [Next]_vars => ConnectionInv'
<1> SUFFICES ASSUME ConnectionInv, [Next]_vars PROVE ConnectionInv'
  OBVIOUS
<1>1. Owned /\ Progress /\ Owned'
  BY OwnedIsKept DEF ConnectionInv
<1>2. CASE OtherOpens \/ OtherCloses \/ UNCHANGED vars
  <2>1. UNCHANGED <<usingSSH, socket, session, channel, blocking, step>>
    BY <1>2 DEF OtherOpens, OtherCloses, vars, connectionVars, io
  <2>2. Progress'
    BY <1>1, <2>1 DEF Progress
  <2> QED BY <1>1, <2>2 DEF ConnectionInv
<1>3. CASE Connect \/ CreateSocket \/ SessionInit \/ Close
  BY <1>1, <1>3, ConnectProgress DEF ConnectionInv
<1>4. CASE SessionStartup \/ CheckHostKey \/ Authenticate
  BY <1>1, <1>4, HandshakeProgress DEF ConnectionInv
<1>5. CASE CreateChannel \/ OpenChannel \/ Exec
  BY <1>1, <1>5, ChannelProgress DEF ConnectionInv
<1>6. CASE NewClient \/ WriteVersion \/ ReadVersion \/ ReadSeed \/ Body \/ Ends
  BY <1>1, <1>6, ClientProgress DEF ConnectionInv
<1> QED BY <1>2, <1>3, <1>4, <1>5, <1>6, Steps, Zenon DEF Quiet

THEOREM ConnectionIsInvariant == Spec => []ConnectionInv
BY ConnectionInitInv, NextProgress, PTL DEF Spec

(* No socket leaks, whatever fails. *)
THEOREM NoSocketLeaks == Spec => []SocketsAccounted
<1>1. ConnectionInv => SocketsAccounted
  BY DEF ConnectionInv, Owned
<1> QED BY <1>1, ConnectionIsInvariant, PTL

(* A session begins on a channel that runs and does not block. *)
THEOREM SessionHasChannel == Spec => []ChannelReady
<1>1. ConnectionInv => ChannelReady
  <2> SUFFICES ASSUME ConnectionInv, step \in {"running", "version", "seed", "body"}
               PROVE  /\ socket \in Fds /\ fds[socket] = "ours"
                      /\ usingSSH => session = "authenticated" /\ channel = "running" /\ ~blocking
    BY DEF ChannelReady
  <2>1. /\ usingSSH = TRUE => session = "authenticated" /\ channel = "running" /\ blocking = FALSE
        /\ usingSSH \in BOOLEAN
        /\ socket \in Mine /\ fds[socket] = "ours"
    BY DEF ConnectionInv, Owned, Progress
  <2> QED BY <2>1 DEF Mine
<1> QED BY <1>1, ConnectionIsInvariant, PTL

(* Only another thread closes what is another thread's. *)
THEOREM ForeignStaysOpen == Spec => NeverClosesForeign
<1>1. ConnectionInv /\ [Next]_vars =>
        [\A fd \in Fds : fds[fd] = "other" /\ fds'[fd] # "other"
           => UNCHANGED <<usingSSH, io, request, step>>]_connectionVars
  <2> SUFFICES ASSUME Owned, [Next]_vars,
                      NEW fd \in Fds, fds[fd] = "other", fds'[fd] # "other"
               PROVE  UNCHANGED <<usingSSH, io, request, step>>
    BY DEF ConnectionInv
  <2>1. CASE Connect \/ CreateSocket \/ CreateChannel \/ Close
    BY <2>1, OwnStep
  <2>2. CASE OtherOpens \/ OtherCloses
    BY <2>2 DEF OtherOpens, OtherCloses
  <2>3. CASE Quiet \/ UNCHANGED vars
    <3>1. fds' = fds
      BY <2>3, QuietStep DEF vars, connectionVars
    <3> QED BY <3>1
  <2> QED BY <2>1, <2>2, <2>3, Steps
<1> QED BY <1>1, ConnectionIsInvariant, PTL DEF Spec, NeverClosesForeign
-----------------------------------------------------------------------------
(* A daemon of protocol 29 would leave the client at 29, and one of 30 would
   then take it at its word while login() puts it back to 30. *)
DaemonsSpeak30 == PreferredProtocol = 30 /\ \A version \in DaemonVersions : version >= 30

Fresh ==
  /\ isReadBuffered = FALSE /\ isWriteMultiplexed = FALSE /\ isWriteBuffered = FALSE
  /\ flushStart = 0 /\ writeBuffer = <<>> /\ readBuffer = <<>>
  /\ lastIndexWritten = -1

Units == [session : Nat, base : Int, framed : BOOLEAN]
Writes == [session : Nat, base : Int]

Begun ==
  /\ step \in {"open", "exec", "running", "version", "seed"} => Fresh
  /\ step \in {"version", "seed"} =>
       wire \in Seq(Units) /\ Len(wire) = 1 /\ wire[1].session = number /\ wire[1].framed = FALSE

Agreed ==
  /\ number \in Nat
  /\ protocol \in Nat /\ (usingSSH = FALSE => protocol = 30)
  /\ usingSSH \in BOOLEAN
  /\ step \in {"seed", "body"} =>
       heard = number /\ remoteProtocol \in Nat /\ (remoteProtocol >= 30 <=> protocol >= 30)

(* What is on the wire and what is still to come, seen as one sequence. *)
Lengths ==
  /\ wire \in Seq(Units) /\ writeBuffer \in Seq(Writes) /\ Len(wire) >= 1
  /\ flushStart \in Nat /\ (flushStart = 0 \/ flushStart < Len(writeBuffer)) /\ lastIndexWritten \in Int

OfThisSession ==
  /\ \A k \in 1 .. Len(wire) : wire[k].session = number
  /\ \A k \in 1 .. Len(writeBuffer) : writeBuffer[k].session = number

Modes ==
  /\ wire[1].framed = FALSE
  /\ \A k \in 1 .. Len(wire) : k > 1 => wire[k].framed = isWriteMultiplexed

Bases ==
  protocol >= 30 =>
    /\ \A k \in 1 .. Len(wire) : k > 1 => wire[k].base = k - 3
    /\ \A k \in 1 .. Len(writeBuffer) : writeBuffer[k].base = Len(wire) - flushStart + k - 3
    /\ lastIndexWritten = Len(wire) - flushStart + Len(writeBuffer) - 2

OnItsWay == Lengths /\ OfThisSession /\ Modes /\ Bases

InBody ==
  step = "body" =>
    /\ OnItsWay
    /\ isReadBuffered = TRUE
    /\ isWriteMultiplexed \in BOOLEAN /\ (isWriteMultiplexed = TRUE <=> protocol >= 30)
    /\ readBuffer \in Seq({number})

SessionInv == Begun /\ Agreed /\ InBody

LEMMA SessionInitInv == DaemonsSpeak30 /\ Init => SessionInv
<1> SUFFICES ASSUME DaemonsSpeak30, Init PROVE SessionInv
  OBVIOUS
<1>1. step = "idle" /\ usingSSH \in BOOLEAN /\ protocol = 30 /\ number = 0
  BY DEF Init, ConnectionInit, DaemonsSpeak30
<1> QED BY <1>1 DEF SessionInv, Begun, Agreed, InBody

LEMMA ConnectionSession ==
  ASSUME SessionInv, ConnectionStep \/ OtherOpens \/ OtherCloses, UNCHANGED clientVars
  PROVE  SessionInv'
<1>1. /\ usingSSH' = usingSSH
      /\ \/ step' = step
         \/ step' \in {"idle", "create", "init", "startup", "hostkey", "auth"}
         \/ step \in {"open", "exec"} /\ step' \in {"exec", "running"}
  <2>1. CASE Connect \/ CreateSocket \/ SessionInit \/ Close
    BY <2>1 DEF Connect, CreateSocket, SessionInit, Close, Fails
  <2>2. CASE SessionStartup \/ CheckHostKey \/ Authenticate
    BY <2>2 DEF SessionStartup, CheckHostKey, Authenticate, Advance, Fails
  <2>3. CASE OpenChannel \/ Exec \/ OtherOpens \/ OtherCloses
    BY <2>3 DEF OpenChannel, Exec, OtherOpens, OtherCloses, Fails
  <2> QED BY <2>1, <2>2, <2>3 DEF ConnectionStep
<1>2. UNCHANGED <<protocol, isReadBuffered, isWriteBuffered, isWriteMultiplexed, flushStart,
                  writeBuffer, readBuffer, lastIndexWritten, number, wire, heard, remoteProtocol>>
  BY DEF clientVars, modes, buffers, channelVars
<1>3. Begun' /\ Agreed'
  BY <1>1, <1>2 DEF SessionInv, Begun, Fresh, Agreed
<1>4. InBody'
  BY <1>1, <1>2 DEF SessionInv, InBody, OnItsWay, Lengths, OfThisSession, Modes, Bases
<1> QED BY <1>3, <1>4 DEF SessionInv

LEMMA StartSession ==
  ASSUME DaemonsSpeak30, SessionInv, NewClient \/ Start
  PROVE  SessionInv'
<1>1. Fresh'
  BY DEF NewClient, Start, Reset, Fresh
<1>2. /\ usingSSH' = usingSSH /\ step' \in {"idle", "open", "running"}
      /\ protocol' \in {protocol, 30} /\ number' \in {number, number + 1}
  BY DEF NewClient, Start, CreateChannel, connectionVars, channelVars, DaemonsSpeak30
<1>3. Begun' /\ InBody'
  BY <1>1, <1>2 DEF Begun, InBody
<1>4. Agreed'
  BY <1>2 DEF SessionInv, Agreed
<1> QED BY <1>3, <1>4 DEF SessionInv

(* What a flush puts on the wire. *)
LEMMA Framed ==
  ASSUME NEW writes \in Seq(Writes), NEW framed \in BOOLEAN
  PROVE  /\ OnWire(writes, framed) \in Seq(Units)
         /\ Len(OnWire(writes, framed)) = Len(writes)
         /\ \A k \in 1 .. Len(writes) :
              /\ OnWire(writes, framed)[k].session = writes[k].session
              /\ OnWire(writes, framed)[k].base = writes[k].base
              /\ OnWire(writes, framed)[k].framed = framed
<1> DEFINE unit(k) == [session |-> writes[k].session, base |-> writes[k].base, framed |-> framed]
<1>1. DOMAIN writes = 1 .. Len(writes) /\ Len(writes) \in Nat
  OBVIOUS
<1>2. OnWire(writes, framed) = [k \in 1 .. Len(writes) |-> unit(k)]
  BY <1>1 DEF OnWire
<1>3. ASSUME NEW k \in 1 .. Len(writes) PROVE unit(k) \in Units
  <2>1. writes[k] \in Writes
    OBVIOUS
  <2>2. writes[k].session \in Nat /\ writes[k].base \in Int
    BY <2>1 DEF Writes
  <2> QED BY <2>2, Zenon DEF Units
<1>4. OnWire(writes, framed) \in [1 .. Len(writes) -> Units]
  <2> HIDE DEF unit
  <2> QED BY <1>2, <1>3
<1>5. OnWire(writes, framed) \in Seq(Units) /\ Len(OnWire(writes, framed)) = Len(writes)
  BY <1>1, <1>4
<1>6. ASSUME NEW k \in 1 .. Len(writes)
      PROVE  /\ OnWire(writes, framed)[k].session = writes[k].session
             /\ OnWire(writes, framed)[k].base = writes[k].base
             /\ OnWire(writes, framed)[k].framed = framed
  <2>1. OnWire(writes, framed)[k] = unit(k)
    BY <1>2
  <2>2. unit(k).session = writes[k].session /\ unit(k).base = writes[k].base
    OBVIOUS
  <2>3. unit(k).framed = framed
    OBVIOUS
  <2> HIDE DEF unit
  <2> QED BY <2>1, <2>2, <2>3, Zenon
<1> QED BY <1>5, <1>6

LEMMA VersionSession ==
  ASSUME DaemonsSpeak30, SessionInv, WriteVersion \/ ReadVersion
  PROVE  SessionInv'
<1>1. Fresh
  BY DEF SessionInv, Begun, WriteVersion, ReadVersion
<1>2. CASE WriteVersion
  <2>1. /\ UNCHANGED <<usingSSH, protocol, isReadBuffered, isWriteBuffered, isWriteMultiplexed,
                       flushStart, readBuffer, lastIndexWritten, number>>
        /\ step' = "version"
    BY <1>2 DEF WriteVersion, modes
  <2>2. wire' = OnWire(<<Write(0)>>, FALSE) /\ writeBuffer' = writeBuffer
    BY <1>1, <1>2 DEF WriteVersion, Fresh
  <2>3. wire' \in Seq(Units) /\ Len(wire') = 1 /\ wire'[1].session = number /\ wire'[1].framed = FALSE
    <3>1. Write(0) \in Writes /\ Write(0).session = number
      BY DEF Write, Writes, SessionInv, Agreed
    <3>2. <<Write(0)>> \in Seq(Writes) /\ Len(<<Write(0)>>) = 1 /\ <<Write(0)>>[1] = Write(0)
      BY <3>1
    <3>3. 1 \in 1 .. Len(<<Write(0)>>)
      BY <3>2
    <3> QED BY <2>2, <3>1, <3>2, <3>3, Framed
  <2>4. Fresh'
    BY <1>1, <2>1, <2>2 DEF Fresh
  <2>5. Begun' /\ InBody'
    BY <2>1, <2>2, <2>3, <2>4 DEF Begun, InBody
  <2>6. Agreed'
    BY <2>1 DEF SessionInv, Agreed
  <2> QED BY <2>5, <2>6 DEF SessionInv
<1>3. CASE ReadVersion
  <2>1. /\ UNCHANGED <<usingSSH, isReadBuffered, isWriteBuffered, isWriteMultiplexed,
                       flushStart, writeBuffer, lastIndexWritten, number, wire>>
        /\ step = "version" /\ step' \in {"seed", "idle"} /\ Hears
    BY <1>3 DEF ReadVersion, modes
  <2>2. heard' = number /\ readBuffer' = readBuffer
    BY <1>1, <2>1 DEF Hears, Fresh
  <2>3. /\ protocol' \in Nat /\ (usingSSH = FALSE => protocol' = 30)
        /\ remoteProtocol' \in Nat /\ (remoteProtocol' >= 30 <=> protocol' >= 30)
    <3>1. PICK version \in IF usingSSH THEN SSHVersions ELSE DaemonVersions :
            protocol' = Negotiated(version) /\ remoteProtocol' = Lower(version, protocol)
      BY <1>3 DEF ReadVersion
    <3>2. CASE usingSSH
      BY <3>1, <3>2, ClientAssumption DEF Negotiated, Lower, SessionInv, Agreed
    <3>3. CASE ~usingSSH
      BY <3>1, <3>3, ClientAssumption DEF Negotiated, Lower, SessionInv, Agreed, DaemonsSpeak30
    <3> QED BY <3>2, <3>3
  <2>4. Fresh'
    BY <1>1, <2>1, <2>2 DEF Fresh
  <2>5. Begun' /\ InBody'
    BY <2>1, <2>4 DEF Begun, InBody, SessionInv
  <2>6. Agreed'
    BY <2>1, <2>2, <2>3 DEF SessionInv, Agreed
  <2> QED BY <2>5, <2>6 DEF SessionInv
<1> QED BY <1>2, <1>3

LEMMA SeedSession ==
  ASSUME SessionInv, ReadSeed
  PROVE  SessionInv'
<1>1. /\ Fresh
      /\ wire \in Seq(Units) /\ Len(wire) = 1 /\ wire[1].session = number /\ wire[1].framed = FALSE
  BY DEF SessionInv, Begun, ReadSeed
<1>2. /\ UNCHANGED <<usingSSH, protocol, flushStart, writeBuffer, lastIndexWritten, number, wire,
                     remoteProtocol>>
      /\ step = "seed" /\ step' = "body" /\ Hears /\ isReadBuffered' = TRUE
      /\ isWriteMultiplexed' = (isWriteMultiplexed \/ protocol >= 30)
  BY DEF ReadSeed
<1>3. heard' = number /\ readBuffer' = <<>>
  BY <1>1, <1>2 DEF Hears, Fresh
<1>4. isWriteMultiplexed' \in BOOLEAN /\ (isWriteMultiplexed' = TRUE <=> protocol >= 30)
  <2>1. isWriteMultiplexed = FALSE
    BY <1>1 DEF Fresh
  <2>2. isWriteMultiplexed' = (FALSE \/ protocol >= 30)
    BY <1>2, <2>1, Zenon
  <2> QED BY <2>2, Zenon
<1>5. Agreed' /\ Begun'
  BY <1>2, <1>3 DEF SessionInv, Agreed, Begun
<1>6. OnItsWay'
  <2>1. /\ wire' = wire /\ writeBuffer' = <<>> /\ flushStart' = 0 /\ lastIndexWritten' = -1
        /\ number' = number /\ number \in Nat
    BY <1>1, <1>2 DEF Fresh, SessionInv, Agreed
  <2>2. writeBuffer' \in Seq(Writes) /\ Len(writeBuffer') = 0
    BY <2>1
  <2>6. wire \in Seq(Units) /\ Len(wire) = 1 /\ wire[1].session = number
    BY <1>1
  <2>7. wire' = wire /\ flushStart' = 0 /\ lastIndexWritten' = -1 /\ number' = number
    BY <2>1
  <2>8. /\ Len(wire') = 1 /\ wire'[1].session = number' /\ Len(writeBuffer') = 0
        /\ flushStart' = 0 /\ lastIndexWritten' = -1
    BY <2>2, <2>6, <2>7
  <2>3. Lengths' /\ OfThisSession'
    <3>1. Lengths'
      BY <2>6, <2>7, <2>2 DEF Lengths
    <3>2. OfThisSession'
      BY <2>8 DEF OfThisSession
    <3> QED BY <3>1, <3>2
  <2>4. Modes'
    <3>1. wire' = wire /\ Len(wire) = 1 /\ wire[1].framed = FALSE /\ ~\E k \in 1 .. 1 : k > 1
      BY <1>1, <2>1
    <3> QED BY <3>1, Zenon DEF Modes
  <2>5. Bases'
    BY <2>8 DEF Bases
  <2> QED BY <2>3, <2>4, <2>5 DEF OnItsWay
<1> QED BY <1>2, <1>3, <1>4, <1>5, <1>6 DEF SessionInv, InBody

LEMMA Joined ==
  ASSUME NEW S, NEW s \in Seq(S), NEW t \in Seq(S)
  PROVE  s \o t \in Seq(S) /\ Len(s \o t) = Len(s) + Len(t)
OBVIOUS

LEMMA BodySession ==
  ASSUME SessionInv, Body
  PROVE  SessionInv'
<1>1. /\ step = "body" /\ UNCHANGED <<usingSSH, step, protocol, number, remoteProtocol>>
      /\ OnItsWay /\ number \in Nat /\ protocol \in Nat
      /\ isReadBuffered = TRUE
      /\ isWriteMultiplexed \in BOOLEAN /\ (isWriteMultiplexed = TRUE <=> protocol >= 30)
      /\ readBuffer \in Seq({number}) /\ heard = number
  BY DEF SessionInv, InBody, Body, connectionVars, Agreed
<1>2. Begun'
  BY <1>1 DEF Begun
<1>3. CASE Read
  <2>1. /\ UNCHANGED <<isReadBuffered, isWriteMultiplexed, flushStart, writeBuffer,
                       lastIndexWritten, wire>> /\ Hears
    BY <1>3 DEF Read, modes
  <2>2. heard' = number /\ readBuffer' \in Seq({number})
    <3>1. CASE readBuffer # <<>>
      <4>1. heard' = Head(readBuffer) /\ readBuffer' = Tail(readBuffer)
        BY <1>1, <2>1, <3>1 DEF Hears
      <4> QED BY <1>1, <3>1, <4>1
    <3>2. CASE readBuffer = <<>>
      <4>1. heard' = number /\ (readBuffer' = <<>> \/ readBuffer' = <<number>>)
        BY <1>1, <2>1, <3>2 DEF Hears
      <4>2. <<>> \in Seq({number}) /\ <<number>> \in Seq({number})
        OBVIOUS
      <4> QED BY <4>1, <4>2, Zenon
    <3> QED BY <3>1, <3>2
  <2>3. OnItsWay'
    BY <1>1, <2>1 DEF OnItsWay, Lengths, OfThisSession, Modes, Bases
  <2>4. Agreed'
    BY <1>1, <2>2 DEF SessionInv, Agreed
  <2> QED BY <1>1, <1>2, <2>1, <2>2, <2>3, <2>4 DEF SessionInv, InBody
<1>7. /\ wire \in Seq(Units) /\ writeBuffer \in Seq(Writes) /\ Len(wire) >= 1
      /\ flushStart \in Nat /\ (flushStart = 0 \/ flushStart < Len(writeBuffer)) /\ lastIndexWritten \in Int
      /\ number \in Nat /\ protocol \in Nat /\ protocol' = protocol /\ number' = number
  BY <1>1 DEF OnItsWay, Lengths
<1>8. OfThisSession /\ Modes /\ Bases
  BY <1>1 DEF OnItsWay
<1>9. /\ Len(wire) \in Nat /\ Len(writeBuffer) \in Nat /\ Len(wire) >= 1
      /\ flushStart \in Nat /\ (flushStart = 0 \/ flushStart < Len(writeBuffer)) /\ lastIndexWritten \in Int
      /\ number \in Nat /\ protocol \in Nat /\ protocol' = protocol /\ number' = number
  BY <1>7
<1>4. CASE WriteIndex
  <2>1. /\ UNCHANGED <<isReadBuffered, isWriteMultiplexed, readBuffer, wire, heard>>
        /\ flushStart = 0
        /\ writeBuffer' = Append(writeBuffer, Write(lastIndexWritten))
        /\ lastIndexWritten' = IF protocol < 30 THEN lastIndexWritten ELSE lastIndexWritten + 1
    BY <1>4 DEF WriteIndex, modes
  <2>2. /\ Write(lastIndexWritten) \in Writes
        /\ Write(lastIndexWritten).session = number
        /\ Write(lastIndexWritten).base = lastIndexWritten
    BY <1>7 DEF Writes, Write
  <2> DEFINE new == Write(lastIndexWritten)
  <2> HIDE DEF new
  <2>3. /\ writeBuffer' \in Seq(Writes) /\ Len(writeBuffer') = Len(writeBuffer) + 1
        /\ writeBuffer'[Len(writeBuffer) + 1] = new
        /\ \A k \in 1 .. Len(writeBuffer) : writeBuffer'[k] = writeBuffer[k]
    BY <1>7, <2>1, <2>2 DEF new
  <2>5. /\ wire' = wire /\ flushStart = 0 /\ flushStart' = 0
        /\ lastIndexWritten' = IF protocol < 30 THEN lastIndexWritten ELSE lastIndexWritten + 1
    BY <1>4 DEF WriteIndex
  <2>7. new.session = number /\ new.base = lastIndexWritten
    BY <2>2 DEF new
  <2>8. /\ Len(writeBuffer') = Len(writeBuffer) + 1 /\ writeBuffer'[Len(writeBuffer) + 1] = new
        /\ \A k \in 1 .. Len(writeBuffer) : writeBuffer'[k] = writeBuffer[k]
    BY <2>3
  <2>6. OnItsWay'
    <3>1. Lengths'
      <4>1. lastIndexWritten' \in Int
        BY <1>9, <2>5
      <4>2. Len(wire') >= 1 /\ flushStart' \in Nat /\ wire' \in Seq(Units)
        BY <1>7, <2>5
      <4> QED BY <2>3, <2>5, <4>1, <4>2 DEF Lengths
    <3>2. OfThisSession'
      <4>1. \A k \in 1 .. Len(writeBuffer') : writeBuffer'[k].session = number
        BY <1>8, <1>9, <2>7, <2>8 DEF OfThisSession
      <4> QED BY <1>8, <1>9, <2>5, <4>1 DEF OfThisSession
    <3>3. Modes'
      BY <1>8, <2>1, Zenon DEF Modes
    <3>4. Bases'
      <4>1. CASE protocol >= 30
        <5>1. lastIndexWritten' = lastIndexWritten + 1
          BY <1>9, <2>5, <4>1
        <5>2. \A k \in 1 .. Len(writeBuffer') : writeBuffer'[k].base = Len(wire) + k - 3
          <6>1. /\ \A k \in 1 .. Len(writeBuffer) : writeBuffer[k].base = Len(wire) - flushStart + k - 3
                /\ lastIndexWritten = Len(wire) - flushStart + Len(writeBuffer) - 2
            BY <1>8, <4>1 DEF Bases
          <6>2. ASSUME NEW k \in 1 .. Len(writeBuffer') PROVE writeBuffer'[k].base = Len(wire) + k - 3
            <7>1. CASE k = Len(writeBuffer) + 1
              BY <1>9, <2>5, <2>7, <2>8, <6>1, <7>1
            <7>2. CASE k # Len(writeBuffer) + 1
              <8>1. k \in 1 .. Len(writeBuffer) /\ writeBuffer'[k] = writeBuffer[k]
                BY <1>9, <2>8, <7>2
              <8> QED BY <1>9, <2>5, <6>1, <8>1
            <7> QED BY <7>1, <7>2
          <6> QED BY <6>2
        <5> QED BY <1>8, <1>9, <2>5, <2>8, <4>1, <5>1, <5>2 DEF Bases
      <4>2. CASE ~(protocol >= 30)
        BY <1>7, <4>2 DEF Bases
      <4> QED BY <4>1, <4>2
    <3> QED BY <3>1, <3>2, <3>3, <3>4 DEF OnItsWay
  <2>4. Agreed'
    BY <1>1, <2>1 DEF SessionInv, Agreed
  <2> QED BY <1>1, <1>2, <2>1, <2>6, <2>4 DEF SessionInv, InBody
<1>5. CASE Flush \/ DisableAutomaticFlush
  <2> DEFINE put == OnWire(writeBuffer, isWriteMultiplexed)
  <2>1. /\ UNCHANGED <<isReadBuffered, isWriteMultiplexed, flushStart, readBuffer,
                       lastIndexWritten, heard>>
        /\ flushStart = 0
        /\ wire' = wire \o put
    BY <1>5 DEF Flush, DisableAutomaticFlush, FlushWriteBuffer
  <2>2. writeBuffer' \in Seq(Writes) /\ Len(writeBuffer') = 0
    <3>1. writeBuffer' = <<>>
      BY <1>5 DEF Flush, DisableAutomaticFlush, FlushWriteBuffer
    <3> QED BY <3>1
  <2>3. /\ put \in Seq(Units) /\ Len(put) = Len(writeBuffer)
        /\ \A k \in 1 .. Len(writeBuffer) :
             /\ put[k].session = writeBuffer[k].session
             /\ put[k].base = writeBuffer[k].base
             /\ put[k].framed = isWriteMultiplexed
    BY <1>1, <1>7, Framed
  <2> HIDE DEF put
  <2>10. put \in Seq(Units) /\ Len(put) = Len(writeBuffer) /\ wire \in Seq(Units) /\ wire' = wire \o put
    BY <1>7, <2>1, <2>3
  <2>4. wire' \in Seq(Units) /\ Len(wire') = Len(wire) + Len(writeBuffer)
    <3>1. wire \o put \in Seq(Units) /\ Len(wire \o put) = Len(wire) + Len(put)
      BY <2>10, Joined, Zenon
    <3> QED BY <2>10, <3>1, Zenon
  <2>5. ASSUME NEW k \in 1 .. Len(wire'), k <= Len(wire)
        PROVE  wire'[k] = wire[k]
    BY <2>10, <2>4, <2>5
  <2>6. ASSUME NEW k \in 1 .. Len(wire'), k > Len(wire)
        PROVE  k - Len(wire) \in 1 .. Len(writeBuffer) /\ wire'[k] = put[k - Len(wire)]
    BY <1>9, <2>10, <2>4, <2>6
  <2>7. flushStart = 0 /\ flushStart' = 0 /\ lastIndexWritten' = lastIndexWritten
    BY <2>1
  <2>8. OnItsWay'
    <3>1. Lengths'
      BY <1>7, <2>2, <2>4, <2>7 DEF Lengths
    <3>2. OfThisSession'
      <4>1. ASSUME NEW k \in 1 .. Len(wire') PROVE wire'[k].session = number
        <5>1. CASE k <= Len(wire)
          BY <1>8, <1>9, <2>5, <5>1 DEF OfThisSession
        <5>2. CASE k > Len(wire)
          <6>1. wire'[k].session = writeBuffer[k - Len(wire)].session /\ k - Len(wire) \in 1 .. Len(writeBuffer)
            BY <2>3, <2>6, <5>2
          <6> QED BY <1>8, <6>1 DEF OfThisSession
        <5>3. k <= Len(wire) \/ k > Len(wire)
          BY <1>9, <2>4
        <5> QED BY <5>1, <5>2, <5>3
      <4> QED BY <1>7, <2>2, <4>1 DEF OfThisSession
    <3>3. Modes'
      <4>1. wire'[1].framed = FALSE
        BY <1>7, <1>8, <2>4, <2>5 DEF Modes
      <4>2. ASSUME NEW k \in 1 .. Len(wire'), k > 1 PROVE wire'[k].framed = isWriteMultiplexed
        <5>1. CASE k <= Len(wire)
          <6>1. wire'[k] = wire[k] /\ k \in 1 .. Len(wire)
            BY <1>7, <2>4, <2>5, <5>1
          <6> QED BY <1>8, <4>2, <6>1, Zenon DEF Modes
        <5>2. CASE k > Len(wire)
          <6>1. wire'[k] = put[k - Len(wire)] /\ k - Len(wire) \in 1 .. Len(writeBuffer)
            BY <2>6, <5>2
          <6> QED BY <2>3, <6>1, Zenon
        <5> QED BY <1>7, <2>4, <5>1, <5>2
      <4> QED BY <2>1, <4>1, <4>2, Zenon DEF Modes
    <3>4. Bases'
      <4>1. ASSUME NEW k \in 1 .. Len(wire'), k > 1, protocol >= 30 PROVE wire'[k].base = k - 3
        <5>1. CASE k <= Len(wire)
          BY <1>7, <1>8, <2>4, <2>5, <4>1, <5>1 DEF Bases
        <5>2. CASE k > Len(wire)
          <6>1. /\ wire'[k].base = writeBuffer[k - Len(wire)].base
                /\ k - Len(wire) \in 1 .. Len(writeBuffer)
            BY <2>3, <2>6, <5>2
          <6> QED BY <1>7, <1>8, <2>4, <2>7, <4>1, <6>1 DEF Bases
        <5> QED BY <1>7, <2>4, <5>1, <5>2
      <4> QED BY <1>7, <1>8, <2>2, <2>4, <2>7, <4>1 DEF Bases
    <3> QED BY <3>1, <3>2, <3>3, <3>4 DEF OnItsWay
  <2>9. Agreed'
    BY <1>1, <2>1 DEF SessionInv, Agreed
  <2> QED BY <1>1, <1>2, <2>1, <2>8, <2>9 DEF SessionInv, InBody
<1>6. CASE TryFlush
  <2> DEFINE put == OnWire(writeBuffer, isWriteMultiplexed)[flushStart + 1]
  <2>1. /\ UNCHANGED <<isReadBuffered, isWriteMultiplexed, readBuffer, lastIndexWritten, heard>>
        /\ wire' = Append(wire, put)
    BY <1>6 DEF TryFlush, modes
  <2>2. Len(writeBuffer) # 0
    BY <1>6, <1>7 DEF TryFlush
  <2>3. \/ flushStart + 1 = Len(writeBuffer) /\ flushStart' = 0 /\ writeBuffer' = <<>>
        \/ flushStart + 1 # Len(writeBuffer) /\ flushStart' = flushStart + 1 /\ writeBuffer' = writeBuffer
    BY <1>6 DEF TryFlush
  <2>4. flushStart + 1 \in 1 .. Len(writeBuffer)
    BY <1>7, <2>2
  <2>5. /\ put \in Units
        /\ put.session = writeBuffer[flushStart + 1].session
        /\ put.base = writeBuffer[flushStart + 1].base
        /\ put.framed = isWriteMultiplexed
    <3>1. /\ OnWire(writeBuffer, isWriteMultiplexed) \in Seq(Units)
          /\ Len(OnWire(writeBuffer, isWriteMultiplexed)) = Len(writeBuffer)
      BY <1>1, <1>7, Framed
    <3>2. put \in Units
      BY <2>4, <3>1
    <3> QED BY <1>1, <1>7, <2>4, <3>2, Framed
  <2> HIDE DEF put
  <2>6. /\ wire' \in Seq(Units) /\ Len(wire') = Len(wire) + 1 /\ wire'[Len(wire) + 1] = put
        /\ \A k \in 1 .. Len(wire) : wire'[k] = wire[k]
    BY <1>7, <2>1, <2>5
  <2>7. /\ writeBuffer' \in Seq(Writes) /\ flushStart' \in Nat
        /\ \/ flushStart + 1 = Len(writeBuffer) /\ flushStart' = 0 /\ Len(writeBuffer') = 0
           \/ /\ flushStart + 1 < Len(writeBuffer) /\ flushStart' = flushStart + 1
              /\ Len(writeBuffer') = Len(writeBuffer)
              /\ \A k \in 1 .. Len(writeBuffer) : writeBuffer'[k] = writeBuffer[k]
    <3>1. CASE flushStart + 1 = Len(writeBuffer)
      <4>1. flushStart' = 0 /\ writeBuffer' = <<>>
        BY <2>3, <3>1
      <4>2. writeBuffer' \in Seq(Writes) /\ Len(writeBuffer') = 0
        BY <4>1
      <4> QED BY <3>1, <4>1, <4>2
    <3>2. CASE flushStart + 1 # Len(writeBuffer)
      BY <1>7, <2>3, <2>4, <3>2
    <3> QED BY <3>1, <3>2
  <2>8. lastIndexWritten' = lastIndexWritten
    BY <2>1
  <2>11. /\ Len(wire') = Len(wire) + 1 /\ wire'[Len(wire) + 1] = put
         /\ \A k \in 1 .. Len(wire) : wire'[k] = wire[k]
    BY <2>6
  <2>12. \/ flushStart + 1 = Len(writeBuffer) /\ flushStart' = 0 /\ Len(writeBuffer') = 0
         \/ /\ flushStart + 1 < Len(writeBuffer) /\ flushStart' = flushStart + 1
            /\ Len(writeBuffer') = Len(writeBuffer)
            /\ \A k \in 1 .. Len(writeBuffer) : writeBuffer'[k] = writeBuffer[k]
    BY <2>7
  <2>9. OnItsWay'
    <3>1. Lengths'
      BY <1>7, <2>6, <2>7, <2>8 DEF Lengths
    <3>2. OfThisSession'
      <4>1. put.session = number
        BY <1>8, <2>4, <2>5 DEF OfThisSession
      <4>2. \A k \in 1 .. Len(wire') : wire'[k].session = number
        BY <1>8, <1>9, <2>11, <4>1 DEF OfThisSession
      <4>3. \A k \in 1 .. Len(writeBuffer') : writeBuffer'[k].session = number
        BY <1>8, <1>9, <2>12 DEF OfThisSession
      <4> QED BY <1>9, <4>2, <4>3 DEF OfThisSession
    <3>3. Modes'
      <4>1. wire'[1].framed = FALSE
        BY <1>7, <1>8, <2>6 DEF Modes
      <4>2. ASSUME NEW k \in 1 .. Len(wire'), k > 1 PROVE wire'[k].framed = isWriteMultiplexed
        <5>1. CASE k = Len(wire) + 1
          BY <2>5, <2>6, <5>1, Zenon
        <5>2. CASE k # Len(wire) + 1
          <6>1. wire'[k] = wire[k] /\ k \in 1 .. Len(wire)
            BY <1>7, <2>6, <5>2
          <6> QED BY <1>8, <4>2, <6>1, Zenon DEF Modes
        <5> QED BY <5>1, <5>2
      <4> QED BY <2>1, <4>1, <4>2, Zenon DEF Modes
    <3>4. Bases'
      <4>1. CASE protocol >= 30
        <5>1. put.base = Len(wire) + 1 - 3
          BY <1>7, <1>8, <2>4, <2>5, <4>1 DEF Bases
        <5>2. ASSUME NEW k \in 1 .. Len(wire'), k > 1 PROVE wire'[k].base = k - 3
          BY <1>8, <1>9, <2>11, <4>1, <5>1, <5>2 DEF Bases
        <5>3. ASSUME NEW k \in 1 .. Len(writeBuffer')
              PROVE  writeBuffer'[k].base = Len(wire') - flushStart' + k - 3
          <6>1. /\ k \in 1 .. Len(writeBuffer) /\ writeBuffer'[k] = writeBuffer[k]
                /\ flushStart' = flushStart + 1
            BY <1>9, <2>12
          <6>2. writeBuffer[k].base = Len(wire) - flushStart + k - 3
            BY <1>8, <4>1, <6>1 DEF Bases
          <6> QED BY <1>9, <2>11, <6>1, <6>2
        <5>4. lastIndexWritten' = Len(wire') - flushStart' + Len(writeBuffer') - 2
          <6>1. lastIndexWritten = Len(wire) - flushStart + Len(writeBuffer) - 2
            BY <1>8, <4>1 DEF Bases
          <6>2. \/ flushStart + 1 = Len(writeBuffer) /\ flushStart' = 0 /\ Len(writeBuffer') = 0
                \/ flushStart' = flushStart + 1 /\ Len(writeBuffer') = Len(writeBuffer)
            BY <2>12
          <6>3. Len(wire') = Len(wire) + 1
            BY <2>11
          <6> QED BY <1>9, <2>8, <6>1, <6>2, <6>3
        <5> QED BY <1>9, <5>2, <5>3, <5>4 DEF Bases
      <4>2. CASE ~(protocol >= 30)
        BY <1>7, <4>2 DEF Bases
      <4> QED BY <4>1, <4>2
    <3> QED BY <3>1, <3>2, <3>3, <3>4 DEF OnItsWay
  <2>10. Agreed'
    BY <1>1, <2>1 DEF SessionInv, Agreed
  <2> QED BY <1>1, <1>2, <2>1, <2>9, <2>10 DEF SessionInv, InBody
<1> QED BY <1>3, <1>4, <1>5, <1>6 DEF Body

LEMMA NextSession == DaemonsSpeak30 /\ SessionInv /\ [Next]_vars => SessionInv'
<1> SUFFICES ASSUME DaemonsSpeak30, SessionInv, [Next]_vars PROVE SessionInv'
  OBVIOUS
<1>1. CASE UNCHANGED vars
  <2>1. UNCHANGED <<usingSSH, step, protocol, isReadBuffered, isWriteBuffered, isWriteMultiplexed,
                    flushStart, writeBuffer, readBuffer, lastIndexWritten, number, wire, heard,
                    remoteProtocol>>
    BY <1>1 DEF vars, connectionVars, clientVars, modes, buffers, channelVars
  <2>2. Begun' /\ Agreed'
    BY <2>1 DEF SessionInv, Begun, Fresh, Agreed
  <2>3. InBody'
    BY <2>1 DEF SessionInv, InBody, OnItsWay, Lengths, OfThisSession, Modes, Bases
  <2> QED BY <2>2, <2>3 DEF SessionInv
<1>2. CASE Ends
  <2>1. step' = "idle" /\ usingSSH' = usingSSH /\ number' = number /\ protocol' = protocol
    BY <1>2 DEF Ends, clientVars, channelVars
  <2> QED BY <2>1 DEF SessionInv, Begun, Agreed, InBody
<1> QED BY <1>1, <1>2, ConnectionSession, StartSession, VersionSession, SeedSession, BodySession,
           Zenon DEF Next

THEOREM SessionIsInvariant == DaemonsSpeak30 /\ Spec => []SessionInv
<1> SUFFICES ASSUME DaemonsSpeak30 PROVE Spec => []SessionInv
  OBVIOUS
<1>1. Init => SessionInv
  BY SessionInitInv
<1>2. SessionInv /\ [Next]_vars => SessionInv'
  BY NextSession
<1> QED BY <1>1, <1>2, PTL DEF Spec

(* Nothing of an earlier operation, however it ended, gets into a session. *)
THEOREM SessionsStaySeparate == DaemonsSpeak30 /\ Spec => []SessionsAreSeparate
<1>1. SessionInv => SessionsAreSeparate
  <2> SUFFICES ASSUME SessionInv, InSession PROVE SessionsAreSeparate
    BY DEF SessionsAreSeparate
  <2>1. CASE step \in {"version", "seed"}
    <3>1. Len(wire) = 1 /\ wire[1].session = number /\ wire[1].framed = FALSE
          /\ wire \in Seq(Units) /\ (step # "version" => heard = number)
      BY <2>1 DEF SessionInv, Begun, Agreed
    <3>2. Len(wire) > 0 /\ DOMAIN wire = {1}
      BY <3>1
    <3>3. ~(1 > 1)
      OBVIOUS
    <3>4. ASSUME NEW k \in DOMAIN wire
          PROVE  /\ wire[k].session = number
                 /\ wire[k].framed = (k > 1 /\ remoteProtocol >= 30)
                 /\ wire[k].framed => wire[k].base = k - 3
      <4>1. k = 1 /\ ~(k > 1)
        BY <3>2, <3>4
      <4>2. wire[k].framed = FALSE /\ wire[k].session = number
        BY <3>1, <4>1
      <4> QED BY <4>1, <4>2, Zenon
    <3> QED BY <3>1, <3>2, <3>4, Zenon DEF SessionsAreSeparate
  <2>2. CASE step = "body"
    <3>1. /\ OnItsWay /\ heard = number
          /\ isWriteMultiplexed \in BOOLEAN /\ (isWriteMultiplexed = TRUE <=> remoteProtocol >= 30)
          /\ (isWriteMultiplexed = TRUE <=> protocol >= 30)
      BY <2>2 DEF SessionInv, InBody, Agreed
    <3>2. Len(wire) > 0 /\ DOMAIN wire = 1 .. Len(wire)
      BY <3>1 DEF OnItsWay, Lengths
    <3>3. ASSUME NEW k \in DOMAIN wire
          PROVE  /\ wire[k].session = number
                 /\ wire[k].framed = (k > 1 /\ remoteProtocol >= 30)
                 /\ wire[k].framed => wire[k].base = k - 3
      <4>1. wire[k].session = number /\ (k = 1 => wire[k].framed = FALSE)
            /\ (k > 1 => wire[k].framed = isWriteMultiplexed)
            /\ (k > 1 /\ protocol >= 30 => wire[k].base = k - 3)
            /\ k \in Nat /\ k >= 1
        BY <3>1, <3>2, <3>3 DEF OnItsWay, Lengths, OfThisSession, Modes, Bases
      <4>2. CASE k = 1
        <5>1. wire[k].framed = FALSE /\ ~(k > 1)
          BY <4>1, <4>2
        <5> QED BY <4>1, <5>1, Zenon
      <4>3. CASE k > 1
        <5>1. wire[k].framed = (remoteProtocol >= 30)
          <6>1. wire[k].framed = isWriteMultiplexed
            BY <4>1, <4>3
          <6>2. CASE isWriteMultiplexed = TRUE
            BY <3>1, <6>1, <6>2, Zenon
          <6>3. CASE isWriteMultiplexed = FALSE
            <7>1. ~(remoteProtocol >= 30)
              BY <3>1, <6>3
            <7>2. wire[k].framed = FALSE
              BY <6>1, <6>3
            <7>3. (remoteProtocol >= 30) = FALSE
              BY <7>1
            <7> QED BY <7>2, <7>3, Zenon
          <6> QED BY <3>1, <6>2, <6>3
        <5>2. wire[k].framed = TRUE => wire[k].base = k - 3
          BY <3>1, <4>1, <4>3
        <5>3. wire[k].framed \in BOOLEAN
          BY <3>1, <4>1, <4>3
        <5> QED BY <4>1, <4>3, <5>1, <5>2, <5>3, Zenon
      <4> QED BY <4>1, <4>2, <4>3
    <3> QED BY <2>2, <3>1, <3>2, <3>3, Zenon DEF SessionsAreSeparate
  <2> QED BY <2>1, <2>2 DEF InSession
<1> QED BY <1>1, SessionIsInvariant, PTL
=============================================================================
