------------------------------ MODULE Download ------------------------------
(***************************************************************************)
(* The transfer loop of Client::download (rsync/rsync_client.cpp:716-805)  *)
(* with sendChecksum, receiveFile and PartialFileKeeper.                   *)
(*                                                                         *)
(* One thread asks for files and receives them at the same time.  Requests *)
(* go into a write buffer that is flushed a little at a time, between one  *)
(* look at the input and the next; once there is input, the thread blocks  *)
(* until it has a whole file.  The files of the queue are requested again, *)
(* without their local copies, if they came out wrong the first time.      *)
(*                                                                         *)
(* A unit of the wire is a part of a request, an INDEX_DONE, or one item   *)
(* of a reply.  Stream models what becomes of the bytes of a unit.  The    *)
(* remote sender is external, and so are the other programs on this        *)
(* machine, which may change or delete a local file at any time.           *)
(***************************************************************************)
EXTENDS Integers, Sequences, FiniteSets

CONSTANTS
  Files,           \* the remote files that need to be downloaded
  Queue,           \* their indices, in the order of the file list
  PreEpoch,        \* those whose modification time is negative
  RequestLength,   \* units of a request
  ReplyLength,     \* data tokens of a reply
  PipeCapacity,    \* units the network holds in each direction
  Digests,         \* what a digest can look like, byte by byte
  AbortsAt,        \* where the thread may be cancelled or time out
  CanFail          \* the system calls that may fail without being looked at,
                   \* and "kill" if the process may be killed, each with the
                   \* file it is about

ASSUME DownloadAssumption ==
  /\ Queue \in Seq(Files) /\ Queue # <<>>
  /\ \A j, k \in DOMAIN Queue : Queue[j] = Queue[k] => j = k
  /\ PreEpoch \subseteq Files
  /\ RequestLength \in Nat \ {0}
  /\ ReplyLength \in Nat \ {0}
  /\ PipeCapacity \in Nat \ {0}
  /\ Digests \subseteq Seq(Nat) /\ \A a, b \in Digests : Len(a) = Len(b)
  /\ AbortsAt \subseteq {"generate", "index", "header", "token", "digest"}
  /\ CanFail \subseteq {"write", "rename", "utime", "kill"} \X Files

VARIABLES
  pc,              \* where the thread is
  phase, i, queue, retries, bufferFlushed,  \* the locals of download()
  buffer,          \* the units in the write buffer that are not on the wire
  flushStart,      \* whether part of a frame is: d_flushStart # 0
  outPipe, inPipe, \* the units in the network, oldest first
  remoteOut,       \* what the remote sender still has to write
  isReadable,      \* [Files -> BOOLEAN], Entry::isReadable
  local,           \* what is at the local path of each file
  mtime,           \* its modification time: "older" or "current" compared
                   \* with the remote one, or "unset" for -1
  unmoved,         \* the files whose PathUtil::rename has failed, and
  unstamped,       \* those whose setModifiedTime has, after a rename: history
  current,         \* the file receiveFile is about, in its states
  oldFile,         \* what the open old file holds, "absent" if there is none
  temporary,       \* what the temporary file holds
  sound,           \* whether the data put together so far is the remote file's
  written,         \* whether all of it has reached the disk
  logicalBytes,    \* *d_logicalBytes
  startBytes,      \* currentLogicalBytes
  updated,         \* d_updatedFiles
  failures,        \* [Files -> Nat], how often receiveFile returned false
  unnoticed,       \* the files with a lost write, or a digest with a zero byte,
                   \* that were found right although they are not: history
  skipped,         \* the files the remote sender could not open
  faults           \* the files it has had read errors with

loop == <<phase, i, queue, retries, bufferFlushed>>
receiving == <<current, oldFile, temporary, sound, written, startBytes>>
disk == <<local, mtime, unmoved, unstamped>>
results == <<logicalBytes, updated, failures, unnoticed>>
remote == <<skipped, faults>>
vars == <<pc, loop, buffer, flushStart, outPipe, inPipe, remoteOut, isReadable,
          disk, receiving, results, remote>>

-----------------------------------------------------------------------------
Request(f, base) ==
  [k \in 1 .. RequestLength |-> [type |-> "request", file |-> f, base |-> base, part |-> k]]

Done == [type |-> "done"]

Contents == {"absent", "old", "edited", "edited twice", "partial", "wrong", "new"}

Drop(s, n) == SubSeq(s, n + 1, Len(s))
Take(s, n) == SubSeq(s, 1, n)

Init ==
  /\ pc = "generate"
  /\ phase = 0 /\ i = 0 /\ queue = Queue /\ retries = <<>> /\ bufferFlushed = TRUE
  /\ buffer = <<>> /\ flushStart = FALSE
  /\ outPipe = <<>> /\ inPipe = <<>> /\ remoteOut = <<>>
  /\ isReadable \in [Files -> BOOLEAN]
  /\ local \in [Files -> {"absent", "old"}]
  /\ mtime = [f \in Files |-> "older"] /\ unmoved = {} /\ unstamped = {}
  /\ current = Queue[1] /\ oldFile = "absent" /\ temporary \in {"absent", "wrong"}
  /\ sound = TRUE /\ written = TRUE /\ startBytes = 0
  /\ logicalBytes = 0 /\ updated = <<>>
  /\ failures = [f \in Files |-> 0] /\ unnoticed = {} /\ skipped = {} /\ faults = {}

-----------------------------------------------------------------------------
(* The base sendChecksum describes: the local file, in the first phase. *)
BaseOf(f) == IF phase = 0 THEN local[f] ELSE "absent"

(* What one turn of the loop adds to the write buffer. *)
NextRequest ==
  LET f == queue[i + 1]
  IN  (IF isReadable[f] THEN Request(f, BaseOf(f)) ELSE <<>>)
        \o (IF i + 1 = Len(queue) THEN <<Done>> ELSE <<>>)

(* Nothing is added to a buffer whose flush is incomplete: Stream::write would
   throw. *)
NeverWaits == FALSE
MustWait == ~bufferFlushed

Generate ==
  /\ pc = "generate"
  /\ IF MustWait \/ i >= Len(queue)
       THEN pc' = "flush" /\ UNCHANGED <<i, buffer>>
       ELSE IF flushStart /\ NextRequest # <<>>
              THEN pc' = "write failed" /\ UNCHANGED <<i, buffer>>
              ELSE pc' = "flush" /\ i' = i + 1 /\ buffer' = buffer \o NextRequest
  /\ UNCHANGED <<phase, queue, retries, bufferFlushed, flushStart, outPipe, inPipe,
                 remoteOut, isReadable, disk, receiving, results, remote>>

(* tryFlushWriteBuffer, one io->write: units of the buffer, or the flag in
   front of them, or nothing if the channel is full. *)
TryFlush ==
  /\ pc = "flush"
  /\ pc' = "poll"
  /\ \/ /\ buffer = <<>>
        /\ bufferFlushed' = TRUE
        /\ UNCHANGED <<buffer, flushStart, outPipe>>
     \/ /\ buffer # <<>>
        /\ ~flushStart \/ Len(outPipe) = PipeCapacity
        /\ bufferFlushed' = FALSE
        /\ flushStart' = (flushStart \/ Len(outPipe) < PipeCapacity)
        /\ UNCHANGED <<buffer, outPipe>>
     \/ \E n \in 1 .. Len(buffer) :
          /\ Len(outPipe) + n <= PipeCapacity
          /\ outPipe' = outPipe \o Take(buffer, n)
          /\ buffer' = Drop(buffer, n)
          /\ bufferFlushed' = (n = Len(buffer))
          /\ flushStart' = (n < Len(buffer))
  /\ UNCHANGED <<phase, i, queue, retries, inPipe, remoteOut, isReadable,
                 disk, receiving, results, remote>>

(* isDataAvailable *)
ReadsBlindly == TRUE
DataAvailable == inPipe # <<>>

Poll ==
  /\ pc = "poll"
  /\ pc' = IF DataAvailable THEN "index" ELSE "generate"
  /\ UNCHANGED <<loop, buffer, flushStart, outPipe, inPipe, remoteOut, isReadable,
                 disk, receiving, results, remote>>

(* The loop runs twice at most, the second time for what failed. *)
MorePhases(p) == p < 2

(* INDEX_DONE ends a phase, and what failed is queued again. *)
ForgetRetries ==
  /\ queue' = <<>> /\ retries' = <<>>
  /\ phase' = phase + 1 /\ i' = 0 /\ bufferFlushed' = TRUE
  /\ pc' = "finish"

EndPhase ==
  /\ queue' = retries /\ retries' = <<>>
  /\ phase' = phase + 1 /\ i' = 0 /\ bufferFlushed' = TRUE
  /\ pc' = IF MorePhases(phase + 1) /\ retries # <<>> THEN "generate" ELSE "finish"

(* readIndex.  An index other than INDEX_DONE starts receiveFile, with a
   PartialFileKeeper around it. *)
ReadIndex ==
  /\ pc = "index"
  /\ inPipe # <<>>
  /\ inPipe' = Tail(inPipe)
  /\ \/ Head(inPipe).type = "done" /\ EndPhase /\ UNCHANGED receiving
     \/ /\ Head(inPipe).type = "index"
        /\ current' = Head(inPipe).file
        /\ startBytes' = logicalBytes
        /\ pc' = "header"
        /\ UNCHANGED <<loop, oldFile, temporary, sound, written>>
  /\ UNCHANGED <<buffer, flushStart, outPipe, remoteOut, isReadable, disk, results, remote>>
-----------------------------------------------------------------------------
(* PathUtil::rename removes what is at the destination, then renames, and looks
   at the result of neither; setModifiedTime stamps what is there afterwards.
   A time that is not set is that of the last write.  What stays in the
   temporary file is wrong for any other file. *)
Renamed(f, content, stamp) ==
  /\ content # "absent"
  /\ temporary' = "absent"
  /\ local' = [local EXCEPT ![f] = content]
  /\ UNCHANGED unmoved
  /\ \/ mtime' = [mtime EXCEPT ![f] = stamp] /\ UNCHANGED unstamped
     \/ /\ <<"utime", f>> \in CanFail
        /\ mtime' = [mtime EXCEPT ![f] = "current"]
        /\ unstamped' = unstamped \cup {f}

NotRenamed(f, content, stamp) ==
  /\ content = "absent" \/ <<"rename", f>> \in CanFail
  /\ temporary' = IF content = "absent" THEN "absent" ELSE "wrong"
  /\ unmoved' = unmoved \cup {f}
  /\ UNCHANGED unstamped
  /\ \/ local' = [local EXCEPT ![f] = "absent"] /\ UNCHANGED mtime
     \/ /\ <<"rename", f>> \in CanFail
        /\ local[f] # "absent"
        /\ mtime' \in {mtime, [mtime EXCEPT ![f] = stamp]}
        /\ UNCHANGED local

Discarded(f) ==
  /\ temporary' \in {"absent"} \cup (IF <<"rename", f>> \in CanFail THEN {temporary} ELSE {})
  /\ UNCHANGED disk

(* The end of the PartialFileKeeper of a file, after more than ten seconds or
   not; content is what the temporary file holds, "absent" if there is none. *)
RemoveTarget(f, complete, content) ==
  \/ Renamed(f, content, IF complete THEN "current" ELSE "unset")
  \/ /\ temporary' = "absent"
     /\ local' = [local EXCEPT ![f] = "absent"]
     /\ UNCHANGED <<mtime, unmoved, unstamped>>

StampAnyway(f, complete, content) ==
  Renamed(f, content, "current") \/ Discarded(f)

Keep(f, complete, content) ==
  \E slow \in BOOLEAN :
    LET stamp == IF complete THEN "current" ELSE "unset"
    IN  IF slow \/ (complete /\ f \notin PreEpoch)
          THEN Renamed(f, content, stamp) \/ NotRenamed(f, content, stamp)
          ELSE Discarded(f)

(* receiveFile up to the tokens: the temporary file is created, and the old
   file must be there if its checksums have been sent. *)
ReceiveHeader ==
  /\ pc = "header"
  /\ inPipe # <<>>
  /\ inPipe' = Tail(inPipe)
  /\ sound' = TRUE /\ written' = TRUE
  /\ LET usesBase == Head(inPipe).base # "absent"
     IN  IF usesBase /\ local[current] = "absent"
           THEN pc' = "failed" /\ Keep(current, FALSE, "partial") /\ UNCHANGED oldFile
           ELSE /\ pc' = "token"
                /\ oldFile' = IF usesBase THEN local[current] ELSE "absent"
                /\ temporary' = "partial"
                /\ UNCHANGED disk
  /\ UNCHANGED <<loop, buffer, flushStart, outPipe, remoteOut, isReadable, current,
                 startBytes, results, remote>>

(* A token: data from the wire, or a block of the old file as it is now.  The
   result of newFile.write is not looked at.  Token 0 ends the data. *)
ReceiveToken ==
  /\ pc = "token"
  /\ inPipe # <<>>
  /\ inPipe' = Tail(inPipe)
  /\ \/ Head(inPipe).type = "end" /\ pc' = "digest" /\ UNCHANGED <<sound, written, logicalBytes>>
     \/ /\ Head(inPipe).type = "token"
        /\ sound' = (sound /\ Head(inPipe).from \in {"wire", oldFile})
        /\ written' \in {written, written /\ <<"write", current>> \notin CanFail}
        /\ logicalBytes' = logicalBytes + 1
        /\ UNCHANGED pc
  /\ UNCHANGED <<loop, buffer, flushStart, outPipe, remoteOut, isReadable, disk, current,
                 oldFile, temporary, startBytes, updated, failures, unnoticed, remote>>

(* strncmp over two digests: equal if they are so up to a zero byte. *)
StrncmpEqual(a, b) ==
  \E n \in 0 .. Len(a) :
    /\ \A k \in 1 .. n : a[k] = b[k]
    /\ n = Len(a) \/ (n > 0 /\ a[n] = 0)

(* The comparison of the digest that was sent with that of what was received. *)
NotCompared(a, b) == TRUE
DigestsAgree(a, b) == StrncmpEqual(a, b)
HasZero(a) == \E n \in DOMAIN a : a[n] = 0

(* *d_logicalBytes does not count what has to be sent again. *)
KeepCounting(n) == logicalBytes
CountedBefore(n) == n

(* The end of receiveFile, and what download() does with its answer. *)
ReceiveDigest ==
  /\ pc = "digest"
  /\ inPipe # <<>>
  /\ inPipe' = Tail(inPipe)
  /\ LET same    == sound /\ Head(inPipe).good
         content == IF ~written THEN "partial" ELSE IF same THEN "new" ELSE "wrong"
     IN  \E a, b \in Digests :
           /\ same <=> a = b
           /\ IF DigestsAgree(a, b)
                THEN /\ updated' = Append(updated, current)
                     /\ unnoticed' = IF ~written \/ (~same /\ HasZero(a))
                                       THEN unnoticed \cup {current} ELSE unnoticed
                     /\ UNCHANGED <<retries, logicalBytes, failures>>
                ELSE /\ retries' = Append(retries, current)
                     /\ failures' = [failures EXCEPT ![current] = @ + 1]
                     /\ logicalBytes' = CountedBefore(startBytes)
                     /\ UNCHANGED <<updated, unnoticed>>
           /\ Keep(current, DigestsAgree(a, b), content)
  /\ pc' = "generate"
  /\ UNCHANGED <<phase, i, queue, bufferFlushed, buffer, flushStart, outPipe, remoteOut,
                 isReadable, current, oldFile, sound, written, startBytes, remote>>

(* The user cancels, the channel stays blocked for too long, or the temporary
   file cannot be created: an exception leaves download(), through the
   PartialFileKeeper if there is one.  A process that is killed runs no
   destructor; killed inside the keeper it leaves what one of the calls after
   that point would by failing. *)
Abort ==
  /\ pc \in AbortsAt
  /\ pc' = "failed"
  /\ \/ pc \in {"header", "token", "digest"} /\ Keep(current, FALSE, temporary)
     \/ /\ pc \notin {"header", "token", "digest"} \/ <<"kill", current>> \in CanFail
        /\ UNCHANGED <<disk, temporary>>
  /\ UNCHANGED <<loop, buffer, flushStart, outPipe, inPipe, remoteOut, isReadable, current,
                 oldFile, sound, written, startBytes, results, remote>>
-----------------------------------------------------------------------------
(* After the last phase: four INDEX_DONEs and a blocking flush, which takes
   input off the pipe when it cannot write. *)
Finish ==
  /\ pc = "finish"
  /\ IF flushStart
       THEN pc' = "write failed" /\ UNCHANGED buffer
       ELSE pc' = "final" /\ buffer' = buffer \o [k \in 1 .. 4 |-> Done]
  /\ UNCHANGED <<loop, flushStart, outPipe, inPipe, remoteOut, isReadable, disk,
                 receiving, results, remote>>

FinalFlush ==
  /\ pc = "final"
  /\ \/ \E n \in 1 .. Len(buffer) :
          /\ Len(outPipe) + n <= PipeCapacity
          /\ outPipe' = outPipe \o Take(buffer, n)
          /\ buffer' = Drop(buffer, n)
          /\ pc' = IF n = Len(buffer) THEN "stopped" ELSE pc
          /\ UNCHANGED inPipe
     \/ /\ Len(outPipe) = PipeCapacity
        /\ inPipe # <<>>
        /\ inPipe' = Tail(inPipe)
        /\ UNCHANGED <<pc, outPipe, buffer>>
  /\ UNCHANGED <<loop, flushStart, remoteOut, isReadable, disk, receiving, results, remote>>
-----------------------------------------------------------------------------
(* The remote sender answers one request at a time, from the wire or out of
   the old file the request describes; after a read error of its own it sends
   a digest that cannot match; a file it cannot open it passes over. *)
Reply(f, from, of, good) ==
  <<[type |-> "index", file |-> f], [type |-> "header", base |-> of]>>
    \o [k \in 1 .. ReplyLength |-> [type |-> "token", from |-> from]]
    \o <<[type |-> "end"], [type |-> "digest", good |-> good]>>

RemoteRead ==
  /\ remoteOut = <<>>
  /\ outPipe # <<>>
  /\ outPipe' = Tail(outPipe)
  /\ LET unit == Head(outPipe)
     IN  \/ unit.type = "done" /\ remoteOut' = <<Done>> /\ UNCHANGED remote
        \/ /\ unit.type = "request" /\ unit.part < RequestLength
           /\ UNCHANGED <<remoteOut, remote>>
        \/ /\ unit.type = "request" /\ unit.part = RequestLength
           /\ \/ skipped' = skipped \cup {unit.file} /\ UNCHANGED <<remoteOut, faults>>
              \/ \E from \in {"wire", unit.base} \ {"absent"}, good \in BOOLEAN :
                   /\ remoteOut' = Reply(unit.file, from, unit.base, good)
                   /\ faults' = IF good THEN faults ELSE faults \cup {unit.file}
                   /\ UNCHANGED skipped
  /\ UNCHANGED <<pc, loop, buffer, flushStart, inPipe, isReadable, disk, receiving, results>>

RemoteWrite ==
  /\ remoteOut # <<>>
  /\ Len(inPipe) < PipeCapacity
  /\ inPipe' = Append(inPipe, Head(remoteOut))
  /\ remoteOut' = Tail(remoteOut)
  /\ UNCHANGED <<pc, loop, buffer, flushStart, outPipe, isReadable, disk, receiving,
                 results, remote>>

(* Another program edits a local file, in place or not, or deletes it; it
   edits each file twice at most. *)
Edited(content) == IF content = "old" THEN "edited" ELSE "edited twice"

UserChange ==
  /\ \E f \in Files :
       /\ local[f] \in {"old", "edited"}
       /\ \/ /\ local' = [local EXCEPT ![f] = Edited(local[f])]
             /\ mtime' = [mtime EXCEPT ![f] = "current"]
             /\ oldFile' \in {oldFile} \cup
                  IF f = current /\ oldFile = local[f] THEN {Edited(oldFile)} ELSE {}
          \/ local' = [local EXCEPT ![f] = "absent"] /\ UNCHANGED <<mtime, oldFile>>
  /\ UNCHANGED <<pc, loop, buffer, flushStart, outPipe, inPipe, remoteOut, isReadable,
                 unmoved, unstamped, current, temporary, sound, written, startBytes, results, remote>>
-----------------------------------------------------------------------------
Thread ==
  \/ Generate \/ TryFlush \/ Poll \/ ReadIndex
  \/ ReceiveHeader \/ ReceiveToken \/ ReceiveDigest
  \/ Finish \/ FinalFlush

Next == Thread \/ Abort \/ RemoteRead \/ RemoteWrite \/ UserChange

Spec == Init /\ [][Next]_vars

(* The thread runs, and the remote sender reads and writes when it can. *)
FairSpec == Spec /\ WF_vars(Thread) /\ WF_vars(RemoteRead) /\ WF_vars(RemoteWrite)
-----------------------------------------------------------------------------
Ended == {"stopped", "failed", "write failed"}

TypeOK ==
  /\ pc \in {"generate", "flush", "poll", "index", "header", "token", "digest",
             "finish", "final"} \cup Ended
  /\ phase \in 0 .. 2 /\ i \in Nat
  /\ queue \in Seq(Files) /\ retries \in Seq(Files) /\ updated \in Seq(Files)
  /\ \A b \in {bufferFlushed, flushStart, sound, written} : b \in BOOLEAN
  /\ isReadable \in [Files -> BOOLEAN]
  /\ local \in [Files -> Contents]
  /\ mtime \in [Files -> {"older", "current", "unset"}]
  /\ current \in Files
  /\ oldFile \in Contents /\ temporary \in Contents
  /\ logicalBytes \in Nat /\ startBytes \in Nat
  /\ failures \in [Files -> Nat]
  /\ \A files \in {skipped, faults, unmoved, unstamped, unnoticed} : files \subseteq Files

(* The thread never writes while a flush is incomplete: not for the next
   request, not when a phase begins with bufferFlushed set, and not for the
   final INDEX_DONEs.  (Stream::write would throw, rsync_stream.cpp:218.) *)
NeverWritesIntoFlush == pc # "write failed"

(* A file that is reported as updated is there, with the remote content and a
   time that makes it up to date, whatever happened to it and to the others:
   unless its time is negative (the PartialFileKeeper takes it for incomplete),
   its rename failed, or a write or a digest with a zero byte went wrong
   unnoticed. *)
UpdatedIsCurrent ==
  \A k \in DOMAIN updated :
    LET f == updated[k]
    IN  \/ f \in PreEpoch \cup unmoved \cup unnoticed
        \/ local[f] = "new" /\ mtime[f] = "current"

(* When the transfer is over every readable file of the queue has been
   updated once, or was passed over by the remote sender, or failed twice.  The
   second attempt does not depend on the local copy, so a file fails twice only
   if the remote sender had a read error, however the local one changed. *)
Accounted ==
  /\ \A f \in Files : Cardinality({k \in DOMAIN updated : updated[k] = f}) <= 1
  /\ pc = "stopped" =>
       \A k \in DOMAIN Queue :
         LET f == Queue[k]
         IN  isReadable[f] =>
               \/ f \in skipped
               \/ failures[f] = 2 /\ f \in faults
               \/ \E j \in DOMAIN updated : updated[j] = f

(* A local file that neither the remote side nor the user has made what it is
   looks up to date only after a call on this very file has failed without being
   looked at: whatever else is left of a transfer will be fetched again.  (The
   -1 that marks a leftover is not older than a negative time.) *)
LeftoversAreStale ==
  \A f \in Files \ PreEpoch :
    local[f] \in {"old", "partial", "wrong"} /\ mtime[f] = "current"
      => f \in unmoved \cup unstamped \cup unnoticed

(* *d_logicalBytes counts each updated file once, and no failed attempt. *)
LogicalBytesMatch == pc = "stopped" => logicalBytes = ReplyLength * Len(updated)

(* The thread makes a local file vanish only where the file in hand could not
   be renamed, and then what had been received is still in the temporary file. *)
LocalFileKept ==
  [][pc' # pc =>
       \A f \in Files :
         local[f] # "absent" /\ local'[f] = "absent"
           => /\ f = current /\ f \in unmoved'
              /\ temporary # "absent" => temporary' # "absent"]_vars

(* The transfer comes to an end: the thread never waits for a reply while
   the request is still in its own write buffer, and never so that each side
   waits for the other to read. *)
Terminates == <>(pc \in Ended)
=============================================================================
