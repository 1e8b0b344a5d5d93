------------------------------- MODULE Session -------------------------------
(***************************************************************************)
(* The sessions of rsync/rsync_client.cpp: Client::start with the          *)
(* negotiation over ssh or Stream::login with a daemon, and then upload,   *)
(* remove, mkdir, link, list, listModules, or the first half of download,  *)
(* opposite a remote rsync that follows the same protocol.                  *)
(*                                                                         *)
(* A unit stands for one thing either side reads or writes as a whole: an  *)
(* integer, a line, an entry, an index, the contents of a file.  What is   *)
(* written waits in a buffer until it is flushed.  How units become bytes  *)
(* is the matter of Entries, Stream and Delta.                              *)
(***************************************************************************)
EXTENDS Integers, Sequences, FiniteSets

CONSTANTS
  Operations,    \* records of an operation and whether d_deletionEnabled is set
  Connections,   \* records of daemon (or ssh), preferredProtocol and the
                 \* version of the remote side
  Itemized,      \* operations of whose single entry the remote side reports
  Sizes,         \* of the files to upload, a sequence: what the list says
  Lengths,       \* for each of them, the lengths it may have when it is read
  MaxLines       \* bound: lines a daemon says before it lets the client in

ASSUME SessionAssumption ==
  /\ \A o \in Operations : o.deletion \in BOOLEAN
  /\ \A c \in Connections :
       c.daemon \in BOOLEAN /\ c.preferred \in {29, 30} /\ c.version \in Nat
  /\ Sizes \in Seq(Nat) /\ Lengths \in [DOMAIN Sizes -> SUBSET Nat]
  /\ MaxLines \in Nat

INDEX_DONE == -1

VARIABLES
  op, deletionEnabled, connection,
  pc,            \* where the client is
  protocol,      \* d_protocol
  buffer,        \* written and not flushed
  out, in,       \* units on their way to the remote side and back
  index,         \* the index being dealt with
  phase, lastIndex, rounds,
  skipped, logical,   \* *d_skippedBytes and *d_logicalBytes
  sent, read,    \* files whose last transfer was made, and how long they were
  changed,       \* whether a file asked for again was not of the size on the
                 \* list when it was sent (these three for properties only)
  rpc,           \* where the remote side is
  rprotocol,     \* the protocol it uses
  lines,         \* lines it has said
  receiving,     \* the index its receiver deals with
  wanted,        \* the first index the generator has not decided about
  asked, redo,   \* indices of which anything was said, and those to ask for again
  dones, echoed, \* INDEX_DONEs sent and received
  retried        \* whether a file was asked for again

client == <<pc, protocol, buffer, index, phase, lastIndex, rounds, skipped, logical, sent, read, changed>>
remote == <<rpc, rprotocol, lines, receiving, wanted, asked, redo, dones, echoed, retried>>
constant == <<op, deletionEnabled, connection>>
vars == <<client, remote, constant, out, in>>

Files == DOMAIN Sizes
Downloading == op \in {"list", "download"}
(* --delete-during in the command: set for remove, and for an upload with
   deletion. *)
Deleting == op = "remove" \/ (op = "upload" /\ deletionEnabled)

Unit(kind, value) == [kind |-> kind, value |-> value]
Just(kind) == Unit(kind, 0)
Index(k) == Unit("index", k)
Entries(n) == [k \in 1 .. n |-> Just("entry")]

(* The bytes of some files, each a file and a place in it, and their number
   when the files are as long as length says, or of the sizes on the list. *)
BytesOf(files, length) == UNION {{k} \X (1 .. length[k]) : k \in files}
Total(files, length) == Cardinality(BytesOf(files, length))
SizeOf(files) == Total(files, Sizes)

Init ==
  /\ \E o \in Operations : op = o.op /\ deletionEnabled = o.deletion
  /\ connection \in Connections
  /\ op = "listModules" => connection.daemon
  /\ pc = "connect" /\ protocol = connection.preferred
  /\ buffer = <<>> /\ out = <<>> /\ in = <<>>
  /\ index = 0 /\ phase = 0 /\ lastIndex = 0 /\ rounds = 0
  /\ skipped = 0 /\ logical = 0
  /\ sent = {} /\ read = [k \in Files |-> 0] /\ changed = FALSE
  /\ rpc = "start" /\ rprotocol = connection.version
  /\ lines = 0 /\ receiving = 0 /\ wanted = 1 /\ asked = {} /\ redo = {}
  /\ dones = 0 /\ echoed = 0 /\ retried = FALSE
-----------------------------------------------------------------------------
(* The client's reads, and its writes past and through the write buffer. *)
Reads(kind) == in # <<>> /\ Head(in).kind = kind /\ in' = Tail(in)
Value == Head(in).value

WritesDirectly(units) == out' = out \o units /\ UNCHANGED buffer
Buffers(units) == buffer' = buffer \o units /\ UNCHANGED out
Flushes(units) == out' = out \o buffer \o units /\ buffer' = <<>>
WritesNothing == UNCHANGED <<out, buffer>>

uploadState == <<index, phase, lastIndex, rounds, skipped, logical, sent, read, changed>>

Connect ==
  /\ pc = "connect"
  /\ IF connection.daemon
       THEN /\ WritesDirectly(<<Unit("version", protocol), Just("module")>>)
            /\ pc' = "login"
       ELSE /\ WritesDirectly(<<Unit("version", protocol)>>)
            /\ pc' = "version"
  /\ UNCHANGED <<in, protocol, uploadState, remote, constant>>

AfterVersion(p) == IF p >= 30 THEN "compatibility" ELSE "seed"

OwnProtocol(version) == protocol
Negotiated(version) == IF version < protocol THEN version ELSE protocol

ReadVersion ==
  /\ pc = "version" /\ Reads("version")
  /\ protocol' = Negotiated(Value)
  /\ pc' = IF protocol' \in {29, 30} THEN AfterVersion(protocol') ELSE "fatal"
  /\ WritesNothing /\ UNCHANGED <<uploadState, remote, constant>>

(* Stream::login: the greeting, and then lines up to OK, an error or EXIT. *)
ReadGreeting ==
  /\ pc = "login" /\ Reads("version")
  /\ protocol' = IF Value >= 31 THEN 30 ELSE IF Value \in {29, 30} THEN Value ELSE protocol
  /\ pc' = IF Value >= 29 THEN "lines" ELSE "fatal"
  /\ WritesNothing /\ UNCHANGED <<uploadState, remote, constant>>

LoginEnds == IF op = "listModules" THEN "done" ELSE AfterVersion(protocol)

ReadLine ==
  /\ pc = "lines" /\ Reads("line")
  /\ CASE Value = "text"     -> pc' = pc /\ WritesNothing
       [] Value = "authreqd" -> pc' = pc /\ WritesDirectly(<<Just("response")>>)
       [] Value = "ok"       -> pc' = LoginEnds /\ WritesDirectly(<<Just("arguments")>>)
       [] Value = "exit"     -> pc' = LoginEnds /\ WritesNothing
       [] Value = "error"    -> pc' = "fatal" /\ WritesNothing
  /\ UNCHANGED <<protocol, uploadState, remote, constant>>

ReadCompatibility ==
  /\ pc = "compatibility" /\ Reads("compatibility")
  /\ pc' = IF Value = 1 THEN "fatal" ELSE "seed"
  /\ WritesNothing /\ UNCHANGED <<protocol, uploadState, remote, constant>>

(* From here on writes are buffered.  The end of an empty list of filters is
   written if the remote side is the sender or deletion is enabled. *)
ReadSeed ==
  /\ pc = "seed" /\ Reads("seed")
  /\ IF Downloading \/ deletionEnabled THEN Flushes(<<Just("no filter")>>) ELSE WritesNothing
  /\ pc' = CASE Downloading -> "receive list"
             [] op = "remove" -> "filters"
             [] OTHER -> "send list"
  /\ UNCHANGED <<protocol, uploadState, remote, constant>>
-----------------------------------------------------------------------------
SendFilters ==
  /\ pc = "filters"
  /\ Flushes([k \in 1 .. 5 |-> IF k <= 4 THEN Just("filter") ELSE Just("no filter")])
  /\ pc' = "send list"
  /\ UNCHANGED <<in, protocol, uploadState, remote, constant>>

IoErrorAlways == <<Just("io error")>>
IoError == IF protocol < 30 THEN <<Just("io error")>> ELSE <<>>

(* The list is all files of an upload, or the one entry that remove, mkdir and
   link are about. *)
SendList ==
  /\ pc = "send list"
  /\ Flushes(Entries(IF op = "upload" THEN Len(Sizes) ELSE 1) \o <<Just("end")>> \o IoError)
  /\ pc' = IF op = "upload" THEN "upload" ELSE "rounds"
  /\ rounds' = IF op = "upload" THEN 2 ELSE 4
  /\ UNCHANGED <<in, protocol, index, phase, lastIndex, skipped, logical, sent, read, changed,
                 remote, constant>>

(* list and download, up to the end of the file list; list then ends the
   session. *)
ListReceived ==
  /\ pc' = "done"
  /\ IF op = "list" THEN Flushes(<<Index(INDEX_DONE), Index(INDEX_DONE)>>) ELSE WritesNothing

ReceiveEntry ==
  /\ pc = "receive list" /\ Reads("entry")
  /\ WritesNothing /\ UNCHANGED <<pc, protocol, uploadState, remote, constant>>

ReceiveEnd ==
  /\ pc = "receive list" /\ Reads("end")
  /\ IF protocol < 30 THEN pc' = "io error" /\ WritesNothing ELSE ListReceived
  /\ UNCHANGED <<protocol, uploadState, remote, constant>>

ReceiveIoError ==
  /\ pc = "io error" /\ Reads("io error")
  /\ ListReceived
  /\ UNCHANGED <<protocol, uploadState, remote, constant>>
-----------------------------------------------------------------------------
(* Client::upload: two phases, each up to an INDEX_DONE. *)
CountLast(first, upTo) == {k \in Files : first <= k /\ k < upTo}
Between(first, upTo) == {k \in Files : first < k /\ k < upTo}

WithoutFlush == Buffers(<<Index(INDEX_DONE)>>)
AnswerDone == Flushes(<<Index(INDEX_DONE)>>)

MorePhases(p) == p < 2

UploadDone ==
  /\ pc = "upload" /\ Reads("index") /\ Value = INDEX_DONE
  /\ AnswerDone
  /\ skipped' = skipped + SizeOf(Between(lastIndex, Len(Sizes) + 1))
  /\ lastIndex' = IF lastIndex <= Len(Sizes) THEN Len(Sizes) + 1 ELSE lastIndex + 1
  /\ phase' = phase + 1
  /\ pc' = IF MorePhases(phase') THEN pc ELSE "rounds"
  /\ UNCHANGED <<protocol, index, rounds, logical, sent, read, changed, remote, constant>>

KeepLogical(k) == logical
BeforeSending(k) == IF phase = 1 THEN logical - Sizes[k] ELSE logical

UploadIndex ==
  /\ pc = "upload" /\ Reads("index") /\ Value # INDEX_DONE
  /\ IF Value \in Files
       THEN /\ pc' = "flags"
            /\ index' = Value
            /\ logical' = BeforeSending(Value)
            /\ sent' = IF phase = 1 THEN sent \ {Value} ELSE sent
            /\ changed' = (changed \/ (phase = 1 /\ read[Value] # Sizes[Value]))
            /\ skipped' = skipped + SizeOf(Between(lastIndex, Value))
            /\ lastIndex' = Value
       ELSE /\ pc' = "fatal"
            /\ UNCHANGED <<index, logical, sent, changed, skipped, lastIndex>>
  /\ WritesNothing /\ UNCHANGED <<protocol, phase, rounds, read, remote, constant>>

(* sendFile: an index that is not wanted is sent back with its flags, and
   nothing is flushed. *)
ReadFlags ==
  /\ pc = "flags" /\ Reads("flags")
  /\ IF Value = "wanted"
       THEN pc' = "checksums" /\ WritesNothing
       ELSE pc' = "upload" /\ Buffers(<<Index(index), Unit("flags", Value)>>)
  /\ UNCHANGED <<protocol, uploadState, remote, constant>>

(* A file that cannot be opened is passed over without a word.  One that can
   is counted as long as it turns out to be, which need not be what the list
   said when it was made. *)
SendFile ==
  /\ pc = "checksums" /\ Reads("checksums")
  /\ pc' = "upload"
  /\ \/ /\ Flushes(<<Index(index), Unit("flags", "wanted"), Just("file")>>)
        /\ \E n \in Lengths[index] :
             logical' = logical + n /\ read' = [read EXCEPT ![index] = n]
        /\ sent' = sent \cup {index}
     \/ WritesNothing /\ UNCHANGED <<logical, sent, read>>
  /\ UNCHANGED <<protocol, index, phase, lastIndex, rounds, skipped, changed, remote, constant>>

(* The last rounds of all the operations that send a list: an index is sent
   back, with its flags if it has any.  link answers with INDEX_DONE whatever
   it reads, and reads no flags. *)
EndRound(units) ==
  /\ Flushes(units)
  /\ rounds' = rounds - 1
  /\ pc' = IF rounds' = 0 THEN "done" ELSE "rounds"

Round ==
  /\ pc = "rounds" /\ Reads("index")
  /\ IF Value = INDEX_DONE \/ op = "link"
       THEN EndRound(<<Index(INDEX_DONE)>>) /\ UNCHANGED index
       ELSE /\ index' = Value
            /\ pc' = "round flags"
            /\ Buffers(<<Index(Value)>>)
            /\ UNCHANGED rounds
  /\ UNCHANGED <<protocol, phase, lastIndex, skipped, logical, sent, read, changed,
                 remote, constant>>

RoundFlags ==
  /\ pc = "round flags" /\ Reads("flags")
  /\ EndRound(<<Unit("flags", Value)>>)
  /\ UNCHANGED <<protocol, index, phase, lastIndex, skipped, logical, sent, read, changed,
                 remote, constant>>
-----------------------------------------------------------------------------
(* The remote side. *)
RemoteReads(kind) == out # <<>> /\ Head(out).kind = kind /\ out' = Tail(out)
RemoteWrites(units) == in' = in \o units
unchangedByRemote == <<client, constant>>
generator == <<wanted, asked, redo, dones, echoed, retried>>

RemoteGreets ==
  /\ rpc = "start"
  /\ RemoteWrites(<<Unit("version", rprotocol)>>)
  /\ rpc' = "version"
  /\ UNCHANGED <<out, rprotocol, lines, receiving, generator, unchangedByRemote>>

(* It uses the lower of the two versions. *)
RemoteNegotiates ==
  /\ rpc = "version" /\ RemoteReads("version")
  /\ rprotocol' = IF Head(out).value < rprotocol THEN Head(out).value ELSE rprotocol
  /\ rpc' = IF connection.daemon THEN "module" ELSE "set up"
  /\ UNCHANGED <<in, lines, receiving, generator, unchangedByRemote>>

RemoteModule ==
  /\ rpc = "module" /\ RemoteReads("module")
  /\ rpc' = "lines"
  /\ UNCHANGED <<in, rprotocol, lines, receiving, generator, unchangedByRemote>>

RemoteSays(text, next) ==
  /\ RemoteWrites(<<Unit("line", text)>>)
  /\ rpc' = next
  /\ UNCHANGED <<out, rprotocol, receiving, generator, unchangedByRemote>>

RemoteLines ==
  /\ rpc = "lines"
  /\ \/ lines < MaxLines /\ lines' = lines + 1 /\ RemoteSays("text", "lines")
     \/ UNCHANGED lines /\ op = "listModules" /\ RemoteSays("exit", "gone")
     \/ UNCHANGED lines /\ op # "listModules" /\ RemoteSays("authreqd", "response")
     \/ UNCHANGED lines /\ op # "listModules" /\ RemoteSays("ok", "arguments")
     \/ UNCHANGED lines /\ RemoteSays("error", "gone")

RemoteResponse ==
  /\ rpc = "response" /\ RemoteReads("response")
  /\ \/ RemoteWrites(<<Unit("line", "ok")>>) /\ rpc' = "arguments"
     \/ RemoteWrites(<<Unit("line", "error")>>) /\ rpc' = "gone"
  /\ UNCHANGED <<rprotocol, lines, receiving, generator, unchangedByRemote>>

RemoteArguments ==
  /\ rpc = "arguments" /\ RemoteReads("arguments")
  /\ rpc' = "set up"
  /\ UNCHANGED <<in, rprotocol, lines, receiving, generator, unchangedByRemote>>

(* The list of filters is read by a sender, and by a receiver that deletes. *)
RemoteSetsUp ==
  /\ rpc = "set up"
  /\ \E incremental \in {0, 1} :
       RemoteWrites((IF rprotocol >= 30 THEN <<Unit("compatibility", incremental)>> ELSE <<>>)
                      \o <<Just("seed")>>)
  /\ rpc' = IF Downloading \/ Deleting THEN "filters" ELSE "list"
  /\ UNCHANGED <<out, rprotocol, lines, receiving, generator, unchangedByRemote>>

RemoteFilter ==
  /\ rpc = "filters"
  /\ \/ RemoteReads("filter") /\ UNCHANGED <<rpc, in>>
     \/ /\ RemoteReads("no filter")
        /\ IF Downloading
             THEN /\ RemoteWrites(Entries(2) \o <<Just("end")>>
                                    \o (IF rprotocol < 30 THEN <<Just("io error")>> ELSE <<>>))
                  /\ rpc' = "serve"
             ELSE rpc' = "list" /\ UNCHANGED in
  /\ UNCHANGED <<rprotocol, lines, receiving, generator, unchangedByRemote>>

RemoteList ==
  /\ rpc = "list"
  /\ \/ RemoteReads("entry") /\ UNCHANGED rpc
     \/ RemoteReads("end") /\ rpc' = IF rprotocol < 30 THEN "io error" ELSE "receive"
  /\ UNCHANGED <<in, rprotocol, lines, receiving, generator, unchangedByRemote>>

RemoteIoError ==
  /\ rpc = "io error" /\ RemoteReads("io error")
  /\ rpc' = "receive"
  /\ UNCHANGED <<in, rprotocol, lines, receiving, generator, unchangedByRemote>>

(* Its generator goes through the list in order. *)
Item(k) == <<Index(k), Unit("flags", "unwanted")>>
Request(k) == <<Index(k), Unit("flags", "wanted"), Just("checksums")>>

Generating == rpc \in {"receive", "flags", "file"}

RemoteGenerates ==
  /\ Generating /\ dones = 0
  /\ wanted <= (IF op = "upload" THEN Len(Sizes) ELSE 1)
  /\ wanted' = wanted + 1
  /\ \/ UNCHANGED <<in, asked>>
     \/ /\ op = "upload" \/ op \in Itemized
        /\ RemoteWrites(Item(wanted)) /\ asked' = asked \cup {wanted}
     \/ /\ op = "upload"
        /\ RemoteWrites(Request(wanted)) /\ asked' = asked \cup {wanted}
  /\ UNCHANGED <<out, rpc, rprotocol, lines, receiving, redo, dones, echoed, retried, unchangedByRemote>>

RemoteAsksAgain ==
  /\ Generating /\ dones = 1 /\ echoed >= 1 /\ redo # {}
  /\ LET k == CHOOSE k \in redo : \A j \in redo : k <= j
     IN  RemoteWrites(Request(k)) /\ redo' = redo \ {k}
  /\ retried' = TRUE
  /\ UNCHANGED <<out, rpc, rprotocol, lines, receiving, wanted, asked, dones, echoed, unchangedByRemote>>

(* INDEX_DONE ends the first phase, then the second, and then twice more. *)
RemoteDone ==
  /\ Generating /\ dones < 4
  /\ IF dones = 0 THEN wanted > (IF op = "upload" THEN Len(Sizes) ELSE 1)
                  ELSE echoed >= dones /\ redo = {}
  /\ RemoteWrites(<<Index(INDEX_DONE)>>)
  /\ dones' = dones + 1
  /\ UNCHANGED <<out, rpc, rprotocol, lines, receiving, wanted, asked, redo, echoed, retried, unchangedByRemote>>

(* Its receiver.  A file that arrives damaged is asked for once more. *)
RemoteIndex ==
  /\ rpc \in {"receive", "serve"} /\ RemoteReads("index")
  /\ receiving' = Head(out).value
  /\ IF receiving' = INDEX_DONE THEN echoed' = echoed + 1 /\ UNCHANGED rpc
                                ELSE rpc' = "flags" /\ UNCHANGED echoed
  /\ UNCHANGED <<in, rprotocol, lines, wanted, asked, redo, dones, retried, unchangedByRemote>>

RemoteFlags ==
  /\ rpc = "flags" /\ RemoteReads("flags")
  /\ rpc' = IF Head(out).value = "wanted" THEN "file" ELSE "receive"
  /\ UNCHANGED <<in, rprotocol, lines, receiving, generator, unchangedByRemote>>

RemoteFile ==
  /\ rpc = "file" /\ RemoteReads("file")
  /\ rpc' = "receive"
  /\ \/ UNCHANGED redo
     \/ echoed = 0 /\ redo' = redo \cup {receiving}
  /\ UNCHANGED <<in, rprotocol, lines, receiving, wanted, asked, dones, echoed, retried,
                 unchangedByRemote>>
-----------------------------------------------------------------------------
Client ==
  \/ Connect \/ ReadVersion \/ ReadGreeting \/ ReadLine \/ ReadCompatibility \/ ReadSeed
  \/ SendFilters \/ SendList \/ ReceiveEntry \/ ReceiveEnd \/ ReceiveIoError
  \/ UploadDone \/ UploadIndex \/ ReadFlags \/ SendFile
  \/ Round \/ RoundFlags

Remote ==
  \/ RemoteGreets \/ RemoteNegotiates \/ RemoteModule \/ RemoteLines \/ RemoteResponse
  \/ RemoteArguments \/ RemoteSetsUp \/ RemoteFilter \/ RemoteList \/ RemoteIoError
  \/ RemoteGenerates \/ RemoteAsksAgain \/ RemoteDone
  \/ RemoteIndex \/ RemoteFlags \/ RemoteFile

Next == Client \/ Remote
Spec == Init /\ [][Next]_vars

(* The client's thread runs until it has to wait for input, and the remote
   processes go on as long as they can. *)
FairSpec == Spec /\ WF_vars(Client) /\ WF_vars(Remote)
-----------------------------------------------------------------------------
(* Once both sides have seen the other's version they speak the same protocol. *)
ProtocolsAgree ==
  pc \notin {"connect", "version", "login", "fatal"} /\ rpc \notin {"start", "version"} =>
    protocol = rprotocol

(* What a side reads next is always one of the things it takes it for: in every
   operation, under either protocol, an index is read where an index was
   written, flags where flags were, and the lists end where they should. *)
ClientExpects(at) ==
  CASE at \in {"version", "login"} -> {"version"}
    [] at = "lines" -> {"line"}
    [] at = "receive list" -> {"entry", "end"}
    [] at \in {"upload", "rounds"} -> {"index"}
    [] at \in {"flags", "round flags"} -> {"flags"}
    [] at \in {"compatibility", "seed", "io error", "checksums"} -> {at}
    [] OTHER -> {}

RemoteExpects(at) ==
  CASE at \in {"version", "module", "response", "arguments", "io error", "flags", "file"} -> {at}
    [] at = "filters" -> {"filter", "no filter"}
    [] at = "list" -> {"entry", "end"}
    [] at \in {"receive", "serve"} -> {"index"}
    [] OTHER -> {}

InStep ==
  /\ in # <<>> /\ ClientExpects(pc) # {} => Head(in).kind \in ClientExpects(pc)
  /\ out # <<>> /\ RemoteExpects(rpc) # {} => Head(out).kind \in RemoteExpects(rpc)

(* Unless a file had to be sent again, the bytes counted as skipped when the
   first phase is over are those of the files the remote side did not ask
   about. *)
SkippedIsExact == phase >= 1 /\ ~retried => skipped = SizeOf(Files \ asked)

(* The bytes counted as synced are those that were read in the last transfers,
   whatever became of the files since they were listed, through retries and
   files that can no longer be opened; unless a file that is asked for again was
   not of the size on the list when it was sent, since that size is what is
   taken back. *)
LogicalIsExact == ~changed => logical = Total(sent, read)

(* No operation waits for ever for a remote side that waits for what is still
   in the write buffer. *)
Terminates == <>(pc \in {"done", "fatal"})
=============================================================================
