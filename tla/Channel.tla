------------------------------- MODULE Channel -------------------------------
(***************************************************************************)
(* How Stream (rsync/rsync_stream.cpp) waits on a channel: readAll,        *)
(* writeAll, the loop of read that waits for a message, and timedWait with *)
(* its cancellation and its timeout; over SSHIO, whose errors are fatal,   *)
(* and over SocketIO, which returns -1.                                    *)
(*                                                                         *)
(* What the bytes are is the matter of Stream: here they are counted.  The *)
(* sockets and libssh2 are external.  flush() of the channel is taken to   *)
(* change nothing that is counted.                                         *)
(***************************************************************************)
EXTENDS Integers

CONSTANTS
  Kinds,         \* of channels: of "ssh" and "socket"
  MaxTimeout,    \* maximumTimeout
  MaxSize,       \* bound: how much a call reads or writes
  MaxPipe,       \* bound: what the channel holds in either direction
  MaxNoise,      \* bound: packets of ssh that bring no data
  MaxBelow       \* bound: how often a call is followed that gets -1

ASSUME ChannelAssumption ==
  /\ Kinds \subseteq {"ssh", "socket"}
  /\ MaxTimeout \in Nat \ {0} /\ MaxSize \in Nat \ {0} /\ MaxPipe \in Nat \ {0}
  /\ MaxNoise \in Nat /\ MaxBelow \in Nat

VARIABLES
  kind, connection,    \* "open", "ended" by the remote side, or "broken"
  incoming, room,      \* bytes to be read, and bytes that will be taken
  congested,           \* ssh: whether the socket takes no more
  noise, pending,      \* packets to come, and whether there is one
  call,                \* "none", "read", "write", or "message" (of Stream::read)
  pc,                  \* "io", "look" for a message, "wait" or "idle"
  inner,               \* whether in the readAll of a message
  size, bytes,         \* of the readAll or writeAll under way
  saved,               \* size and bytes of the writeAll behind it
  elapsed,             \* time since d_blockedTime, or Unset if it is 0
  still,               \* time since a byte moved or the call began (read by
                       \* properties only)
  cancelled,           \* *d_cancelFlag
  ending               \* why the session is over

channel == <<kind, connection, incoming, room, congested, noise, pending>>
thread == <<call, pc, inner, size, bytes, saved, elapsed, still, ending>>
vars == <<channel, thread, cancelled>>
-----------------------------------------------------------------------------
Unset == -1
Later(t) == IF t > MaxTimeout THEN t ELSE t + 1

Reading == inner \/ call \in {"read", "message"}
Direction == IF Reading THEN "read" ELSE "write"

Init ==
  /\ kind \in Kinds /\ connection = "open"
  /\ incoming = 0 /\ room = MaxPipe /\ congested = FALSE
  /\ noise = MaxNoise /\ pending = FALSE
  /\ call = "none" /\ pc = "idle" /\ inner = FALSE
  /\ size = 0 /\ bytes = 0 /\ saved = <<0, 0>>
  /\ elapsed = Unset /\ still = [read |-> 0, write |-> 0]
  /\ cancelled = FALSE /\ ending = "none"

Progress == elapsed' = Unset /\ still' = [still EXCEPT ![Direction] = 0]

Begin ==
  /\ call = "none" /\ ending = "none"
  /\ call' \in {"read", "write", "message"}
  /\ pc' = IF call' = "message" THEN "look" ELSE "io"
  /\ size' \in IF call' = "message" THEN {0} ELSE 1 .. MaxSize
  /\ bytes' = 0
  /\ elapsed' = Unset
  /\ still' = [read |-> 0, write |-> 0]
  /\ UNCHANGED <<channel, inner, saved, cancelled, ending>>

Returns == call' = "none" /\ pc' = "idle"

(* LOG_FATAL *)
Ends(why) == Returns /\ inner' = FALSE /\ ending' = why
-----------------------------------------------------------------------------
(* The outcomes of io->read and io->write: some bytes; nothing; -1, which only
   a socket returns; an exception, which only ssh throws. *)
NoMore == connection = "broken" \/ (connection = "ended" /\ incoming = 0)

Offered == size - bytes

CanRead == connection # "broken" /\ incoming > 0
CanWrite == connection # "broken" /\ room > 0 /\ (kind = "ssh" => ~congested)

(* A read takes the packet that has come. *)
Took(n) ==
  /\ incoming' = incoming - n
  /\ pending' = FALSE
  /\ UNCHANGED <<kind, connection, room, congested, noise>>

Gave(n) ==
  /\ room' = room - n
  /\ UNCHANGED <<kind, connection, incoming, congested, noise, pending>>

Read(n) == CanRead /\ n <= incoming /\ Took(n)
ReadsNothing == ~CanRead /\ Took(0) /\ (connection = "open" \/ (connection = "ended" /\ kind = "ssh"))
ReadThrows == kind = "ssh" /\ NoMore /\ Took(0)
ReadMinusOne == kind = "socket" /\ NoMore /\ Took(0)

WritesNothing == ~CanWrite /\ connection # "broken" /\ Gave(0)
WriteThrows == kind = "ssh" /\ connection = "broken" /\ Gave(0)
WriteMinusOne == kind = "socket" /\ connection = "broken" /\ Gave(0)

-----------------------------------------------------------------------------
(* readAll and writeAll. *)
Moves ==
  /\ pc = "io" /\ bytes < size
  /\ \E n \in 1 .. Offered :
       /\ IF Reading THEN Read(n) ELSE CanWrite /\ n <= room /\ Gave(n)
       /\ bytes' = bytes + n
  /\ Progress
  /\ UNCHANGED <<call, pc, inner, size, saved, cancelled, ending>>

MovesNothing ==
  /\ pc = "io" /\ bytes < size
  /\ IF Reading THEN ReadsNothing ELSE WritesNothing
  /\ pc' = "wait"
  /\ UNCHANGED <<call, inner, size, bytes, saved, elapsed, still, cancelled, ending>>

(* -1 is added to the count like any other number, and is not 0. *)
MinusOne ==
  /\ pc = "io" /\ bytes < size
  /\ IF Reading THEN ReadMinusOne ELSE WriteMinusOne
  /\ bytes > -MaxBelow /\ bytes' = bytes - 1
  /\ elapsed' = Unset
  /\ UNCHANGED <<call, pc, inner, size, saved, still, cancelled, ending>>

Throws ==
  /\ pc = "io" /\ bytes < size
  /\ IF Reading THEN ReadThrows ELSE WriteThrows
  /\ Ends("error")
  /\ UNCHANGED <<size, bytes, saved, elapsed, still, cancelled>>

(* The readAll of a message goes back to the loop that looked for it; the loop
   of read starts its timer anew, and ends if the message is of data. *)
EndMessage ==
  /\ pc = "io" /\ bytes = size /\ inner
  /\ inner' = FALSE
  /\ \/ call = "write" /\ pc' = "io" /\ UNCHANGED <<call, elapsed>>
     \/ call = "message" /\ pc' = "look" /\ elapsed' = Unset /\ UNCHANGED call
     \/ call = "message" /\ Returns /\ elapsed' = Unset
  /\ size' = saved[1] /\ bytes' = saved[2] /\ saved' = <<0, 0>>
  /\ UNCHANGED <<channel, still, cancelled, ending>>

EndCall ==
  /\ pc = "io" /\ bytes = size /\ ~inner
  /\ Returns
  /\ UNCHANGED <<channel, inner, size, bytes, saved, elapsed, still, cancelled, ending>>
-----------------------------------------------------------------------------
(* readMessageFlag and readMessageContent.  In an open chunk -1 is added to the
   position in the read buffer, and nothing more is made of it. *)
LookedInVain ==
  /\ pc = "look"
  /\ ReadsNothing \/ (call = "write" /\ ReadMinusOne)
  /\ pc' = IF call = "message" THEN "wait" ELSE "io"
  /\ UNCHANGED <<call, inner, size, bytes, saved, elapsed, still, cancelled, ending>>

(* The flag of some data, or, during a write, some data of an open chunk. *)
LookedAtData ==
  /\ pc = "look"
  /\ \E n \in 1 .. incoming : Read(n)
  /\ still' = [still EXCEPT !.read = 0]
  /\ \/ call = "message" /\ Returns /\ elapsed' = Unset
     \/ call = "write" /\ pc' = "io" /\ UNCHANGED <<call, elapsed>>
  /\ UNCHANGED <<inner, size, bytes, saved, cancelled, ending>>

(* A message of which there is more to read; after -1 there is always more. *)
SameClock ==
  /\ pc' = "io" /\ inner' = TRUE
  /\ saved' = <<size, bytes>>
  /\ size' \in 1 .. MaxSize /\ bytes' = 0
  /\ elapsed' = elapsed
  /\ still' = [still EXCEPT !.read = 0]

ReadRest ==
  /\ pc' = "io" /\ inner' = TRUE
  /\ saved' = <<size, bytes>>
  /\ size' \in 1 .. MaxSize /\ bytes' = 0
  /\ elapsed' = Unset
  /\ still' = [still EXCEPT !.read = 0]

LookedAtMessage ==
  /\ pc = "look"
  /\ \/ \E n \in 1 .. incoming : Read(n)
     \/ ReadMinusOne
  /\ ReadRest
  /\ UNCHANGED <<call, cancelled, ending>>

LookThrows ==
  /\ pc = "look" /\ ReadThrows
  /\ Ends("error")
  /\ UNCHANGED <<size, bytes, saved, elapsed, still, cancelled>>
-----------------------------------------------------------------------------
(* timedWait: select on the socket, which says nothing of the channel. *)
IsReadable == incoming > 0 \/ pending \/ connection = "broken" \/ (kind = "socket" /\ connection = "ended")

IsWritable == connection = "broken" \/ (IF kind = "ssh" THEN ~congested ELSE room > 0)

Accessible == IF Reading THEN IsReadable ELSE IsWritable

GoOn == pc' = IF Reading /\ (inner \/ call = "read") THEN "io" ELSE "look"

WaitEnds == cancelled /\ Ends("cancelled") /\ UNCHANGED <<elapsed, still>>

WaitSucceeds ==
  /\ ~cancelled /\ Accessible
  /\ elapsed' = Unset
  /\ GoOn
  /\ UNCHANGED <<call, inner, still, ending>>

(* The first failure sets the clock.  A failure takes time. *)
StartAgain == 0
CountOn == IF elapsed = Unset THEN 0 ELSE Later(elapsed)

WaitFails ==
  /\ ~cancelled /\ ~Accessible
  /\ elapsed' = CountOn
  /\ still' = [read |-> Later(still.read), write |-> Later(still.write)]
  /\ IF elapsed' > MaxTimeout THEN Ends("timeout")
                              ELSE GoOn /\ UNCHANGED <<call, inner, ending>>

Wait ==
  /\ pc = "wait"
  /\ WaitEnds \/ WaitSucceeds \/ WaitFails
  /\ UNCHANGED <<channel, size, bytes, saved, cancelled>>
-----------------------------------------------------------------------------
(* The remote side, the network and the user. *)
RemoteSends ==
  /\ connection = "open" /\ incoming < MaxPipe
  /\ incoming' = incoming + 1
  /\ UNCHANGED <<kind, connection, room, congested, noise, pending, thread, cancelled>>

RemoteReads ==
  /\ connection = "open" /\ room < MaxPipe
  /\ room' = room + 1
  /\ UNCHANGED <<kind, connection, incoming, congested, noise, pending, thread, cancelled>>

Congestion ==
  /\ kind = "ssh"
  /\ congested' = ~congested
  /\ UNCHANGED <<kind, connection, incoming, room, noise, pending, thread, cancelled>>

Noise ==
  /\ kind = "ssh" /\ connection = "open" /\ noise > 0
  /\ noise' = noise - 1 /\ pending' = TRUE
  /\ UNCHANGED <<kind, connection, incoming, room, congested, thread, cancelled>>

ConnectionLost ==
  /\ \/ connection = "open" /\ connection' = "ended" /\ pending' = TRUE
     \/ connection # "broken" /\ connection' = "broken" /\ UNCHANGED pending
  /\ UNCHANGED <<kind, incoming, room, congested, noise, thread, cancelled>>

Cancel ==
  /\ ~cancelled
  /\ cancelled' = TRUE
  /\ UNCHANGED <<channel, thread>>

(* Time that goes by outside select. *)
Tick ==
  /\ call # "none"
  /\ elapsed' = IF elapsed = Unset THEN Unset ELSE Later(elapsed)
  /\ still' = [read |-> Later(still.read), write |-> Later(still.write)]
  /\ UNCHANGED <<channel, call, pc, inner, size, bytes, saved, cancelled, ending>>
-----------------------------------------------------------------------------
Thread ==
  \/ Moves \/ MovesNothing \/ MinusOne \/ Throws \/ EndMessage \/ EndCall
  \/ LookedInVain \/ LookedAtData \/ LookedAtMessage \/ LookThrows
  \/ Wait

Environment ==
  RemoteSends \/ RemoteReads \/ Congestion \/ Noise \/ ConnectionLost \/ Cancel \/ Tick

Next == Begin \/ Thread \/ Environment

Spec == Init /\ [][Next]_vars

(* The thread does nothing else during a call. *)
FairSpec == Spec /\ WF_vars(Thread)
-----------------------------------------------------------------------------
(* No call reads or writes outside its buffer as long as no socket fails. *)
SocketFailed == kind = "socket" /\ connection # "open"

TypeOK ==
  /\ kind \in Kinds /\ connection \in {"open", "ended", "broken"}
  /\ incoming \in 0 .. MaxPipe /\ room \in 0 .. MaxPipe
  /\ noise \in 0 .. MaxNoise /\ pending \in BOOLEAN /\ congested \in BOOLEAN
  /\ call \in {"none", "read", "write", "message"} /\ pc \in {"idle", "io", "look", "wait"}
  /\ inner \in BOOLEAN /\ cancelled \in BOOLEAN
  /\ size \in 0 .. MaxSize /\ bytes \in -MaxBelow .. size
  /\ bytes < 0 => SocketFailed
  /\ elapsed \in Unset .. MaxTimeout + 1
  /\ still \in [{"read", "write"} -> 0 .. MaxTimeout + 1]
  /\ ending \in {"none", "error", "cancelled", "timeout"}

(* A call gives up only if no byte has moved in its direction for more than
   the timeout, also where one d_blockedTime serves a write and the reads of
   messages in the middle of it. *)
TimesOutLate ==
  [][ending' = "timeout" /\ ending = "none" => still'[Direction] > MaxTimeout]_vars

(* Unless a socket fails, a read ends whatever the remote side does, and so does
   a write that is cancelled, also if the remote side never reads and has
   messages for ever.  (The loop of Stream::read does not look at the cancel
   flag as long as there are messages.) *)
CallsEnd ==
  /\ call = "read" ~> call = "none" \/ SocketFailed
  /\ cancelled /\ call = "write" ~> call = "none" \/ SocketFailed

(* rsync_stream.h says of the cancel flag: "whenever '*cancelFlag' becomes
   non-zero, any operation, even a blocking one, will be terminated
   immediately".  So a readAll or writeAll that has been cancelled tries again
   without a look at the flag only if it has just moved some bytes. *)
CancelNoticed ==
  [][cancelled /\ pc = "io" /\ pc' = "io" /\ inner' = inner /\ bytes' # bytes
       => bytes' > bytes]_vars
=============================================================================
