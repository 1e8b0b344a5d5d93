# A verification project for acrosync-library

acrosync-library is an rsync client in C++: it speaks the rsync protocol, over
SSH or to an rsync daemon, to a remote rsync process, and copies files in either
direction. This directory holds TLA+ models of the parts of it that are hard to
test, the TLC configurations that check them on small instances, and proofs
that TLAPS checks for every instance. References such as `client 785` are to
lines of `src/rsync/rsync_client.cpp`, `stream 535` to
`src/rsync/rsync_stream.cpp`.

| Module | Models | Checked by | Proofs in |
|--------|--------|------------|-----------|
| `ByteChannel` | what one direction of a connection promises | `stream` (refinement) | |
| `Stream` | buffers, frames and messages | `stream`, `large_write` | `Stream_proofs` |
| `Throttle` | the upload limit | `throttle` | `Stream_proofs` |
| `Channel` | waiting, timeouts, cancellation, errors of the I/O classes | `channel`, `lost_connection` | `Channel_proofs` |
| `Download` | the transfer loop of a download, and the partial file | `download` | `Download_proofs` |
| `Delta` | checksums, the scan, the reconstruction | `delta` | `Delta_proofs` |
| `Encoding`, `Entries` | integers, indices and file list entries on the wire | `entries` | `Sync_proofs` |
| `EntryOrder` | the two orders of entries | `sync` | `Sync_proofs` |
| `Sync` | two trees: lists, merge, queue, deletion, sizes | `sync` | `Sync_proofs` |
| `Session` | negotiation, uploads, and the short operations | `session` | `Session_proofs` |
| `Connection`, `Client` | sockets, sessions, channels; one operation after the other on them | `client` | `Client_proofs` |
| `Outport` | the signals that call the application back | `outport` | `Outport_proofs` |

## The system

| Part | State it keeps | Operations | Talks to |
|------|----------------|------------|----------|
| `Stream` | write buffer and position, `d_flushStart`, automatic flush, multiplexing, read buffer, `d_readDataLength`, last indices, deleted names, upload limit and buckets | `write`, `flushWriteBuffer`, `tryFlushWriteBuffer`, `disableAutomaticFlush`, `read`, `isDataAvailable`, integer and index encodings, `login`, `setUploadLimit` | one `IO`; called by `Client` |
| `Client::download` | queue, retries, phase, position in the queue, `bufferFlushed`, counters, lists of updated and deleted files | ask for files, receive them into a temporary file, retry, delete | `Stream`, `PathUtil`, `File` |
| `PartialFileKeeper` | source, destination, time, start time | its destructor keeps or discards the temporary file | `PathUtil` |
| delta transfer | checksums, hash table, chunk, rolling sums, tokens | `sendChecksum`, `sendFile`, `receiveFile` | `Stream`, `File` |
| `Client::upload` | phase, last index, counters | answer the remote generator, forward `INDEX_DONE`s | `Stream` |
| `remove`, `mkdir`, `link`, `list`, `listModules` | none of their own | one short exchange each | `Stream` |
| file list | last path, mode and time of an entry | `sendEntry`, `receiveEntry`, `Entry::compareGlobally`, merge of two lists | `Stream`, `PathUtil` |
| session | protocol, checksum seed, buffering modes | `start`, `reset`, `login`, `stop` | `IO`, `Stream` |
| `SSHIO`, `SocketIO`, `SocketUtil` | a session, a channel, a socket | connect, create and close channels, read, write, wait | libssh2, sockets |
| `block::out` | what an outport points to, its invoker, the array of a delegate | `connect`, `disconnect`, `isConnected`, emission | the application, whose slots it calls |
| `File`, `PathUtil` | a handle | system calls | the file system |
| `Util`, `TimeUtil`, `Log` | none that matters here | digests, clocks, logging | |

One thread does everything in a session. What makes it hard is that it runs
against a remote process with buffers of its own: any call of `io->read` or
`io->write` moves any part of what it could, the thread has to receive in the
middle of sending, and either side may wait for the other. The second source of
trouble is the local file system, which other programs use at the same time,
and the third is arithmetic on windows, counters and encoded integers. The
fourth is what an exception leaves behind: it may end an operation anywhere,
nothing is cleaned up, and the next operation begins on the same stream and the
same connection. And in the middle of all this the library calls the
application, which may call it back.

What makes each part correct:

* Stream: no byte is lost, repeated or reordered in either direction; a frame's
  header always matches the frame; a blocked write ends; the upload limit is kept.
* download: the loop ends; nothing is written into a flush that is under way;
  what is reported as updated is on the disk; what is left of a failure is
  fetched again; a user's file is never lost.
* delta: the tokens rebuild the file whatever collides; counters agree.
* upload: the counters say what happened; every index is answered in order.
* file list: both sides sort alike; the merge misses nothing; only what the
  other side does not have is deleted.
* session: buffering and multiplexing are switched in step with the remote side;
  nothing of an operation gets into the next.
* I/O: no socket leaks, none is closed twice, and a session starts on a channel
  that is ready, whatever failed before.
* signals: every slot is called once and in order, whatever the slots do.
* encodings: what is read is what was written, for every value.

`PROJECT.json` lists the hazards, each at its line, with the properties that
would catch it.

## Modules

`ByteChannel` is the abstract specification of one direction of a connection:
bytes accepted are delivered once and in order.

`Stream` models `rsync_stream.cpp` between `enableBuffer()` and the end of a
session. A byte is its number, in the order in which it was written; a flag (the
header of a message) is `FlagLength` bytes of its own type. `op` says which call
the thread is in; each `io->read` or `io->write` is one action that moves any
part of what it could. `Write`, `Flush`, `DisableAutomaticFlush`,
`TryFlushWriteBuffer`, `IsDataAvailable` and `Read` begin a call;
`WriteAll`, `WriteAllBlocked`, `Poll`, `ReadMessage` and `ReadChunk` are the
loops inside. `EndMessage` is `readMessageContent`. The remote side
(`RemoteSend`, `RemoteWrite`, `RemoteRead`) is external: a process with one
thread that does not read while it has something to write, which is the
behaviour the client must not deadlock against. `MCStream` gives it small
numbers; `MCStreamTokens` composes it with the order in which `sendFile`
writes (a length, then a chunk).

`Download` models the transfer loop (client 716-805) with the control of
`sendChecksum`, `receiveFile` and `~PartialFileKeeper`. The bytes of a request
are a few units; `Stream` is about what happens to the bytes of a unit.
`Generate`, `TryFlush`, `Poll` are the three parts of one turn of the loop;
`ReadIndex`, `ReceiveHeader`, `ReceiveToken`, `ReceiveDigest` are the parts of
a reply, between which anything else may happen; `Finish` and `FinalFlush` end
the session. `Keep` is the destructor of the keeper (client 118-150): more than
ten seconds may have gone by or not, and it discards the temporary file or
renames and stamps it. `Renamed` and `NotRenamed` are `PathUtil::rename`, which
removes the destination, then renames, and looks at the result of neither, with
the `setModifiedTime` that follows in either case; so the old file may be gone,
may stay, or may stay with the remote time. `CanFail` says which of the calls
whose results are ignored may fail (`write`, `rename`, `utime`), and whether the
process may be killed (`kill`), each for a file. `UserChange` is another program at the local file, `Abort`
is the exception of a cancellation or of the 600 s timeout, also before there is
a temporary file, or the end of a killed process: killed inside the keeper, it
leaves what one of the calls after that point would by failing. The remote sender
may skip a file, have a read error, send data or name blocks of the base.
A file's contents are one of a few names: what matters is whether they are the
remote file's, the user's, or neither. `unmoved`, `unstamped` and `unnoticed`
are history: the files on which a rename or a stamp failed, and those with a lost
write or a digest with a zero byte that were found right.

`Delta` models the algorithm on bytes: `SendChecksum`, then the loop of
`sendFile` cut at its decisions (`Start`, `SendPlain`, `Match`, `Slide`,
`NoMatch`, `Refill`, `Advance`, `Trailer`), then `receiveFile` (`ReceiveData`,
`ReceiveBlock`, `ReceiveDigest`). In the program either half faces a remote
rsync that follows the same protocol; here they face each other. The strong
digest is taken to be the block; the weak one is computed as in the code,
modulo a small number so that it collides.

`Channel` models what `Stream` does when a call moves nothing: `readAll`,
`writeAll`, the loop in which `read` waits for a message, and `timedWait`, over
`SSHIO` (errors are thrown) and `SocketIO` (errors are -1). `Moves`,
`MovesNothing`, `MinusOne` and `Throws` are the four outcomes of an
`io->read` or `io->write`; `Wait` is `timedWait`, `LookedInVain`,
`LookedAtData`, `LookedAtMessage` and `LookThrows` are those of
`readMessageFlag`, whose `readAll` of the rest of a message may be nested in a
write (`inner`, `saved`). `elapsed` is the time since `d_blockedTime`. Bytes are
counted only.

`Encoding` holds the integers of 8 to 64 bits, the variable-length ones and the
indices as operators from a value to a sequence of bytes and back. `Entries`
puts them to use: `SendEntry`, `EndList` and `WriteIndexAction` write at one end
what `ReceiveEntry`, `ReceiveEnd` and `ReadIndexAction` read at the other, each
relative to what it remembers of the last entry or index. The transfer flags and
the mode are a unit each.

`EntryOrder` has `compareGlobally`, `compareLocally` and what sorting by them
gives; a path is a sequence of numbers, one of them the slash. `Sync` is
`Client::download` above the transfer: `ListNext` takes a directory off the
stack and lists it, `ListIncluded` is the list of a selective download, `Merge`
is one turn of the loop at client 664 (its disjuncts are its branches),
`Transfer` one file of the queue, which arrives or fails, `Delete` one turn
of the deletion pass, and `AddSizes` one turn of the loop that sums up the sizes
of directories with a stack (a size is the set of the files it counts). `Removed`,
`Created` and `Installed` are what PathUtil's calls do to a tree. The walk does
not see everything: `listDirectory` passes over names that begin with `.acrosync`
(pathutil 859), links that it cannot read (894) and what is in a directory that
it cannot open (850). These paths are `Unlisted`; `Internal` are those under
`.acrosync/` at the top, which the merge leaves alone on the remote side too
(client 670).

`Session` follows a session from the first byte: `Connect`, `ReadVersion`,
`ReadGreeting`, `ReadLine`, `ReadCompatibility` and `ReadSeed` are `start` and
`login`; `SendList` to `SendFile` are `upload`, `Round` and `RoundFlags` the
last rounds of all that send a list; `ReceiveEntry` to `ReceiveIoError` are
`list` and the beginning of a download. A unit of the wire is one thing that is
read as a whole, and says what it is; the client never looks at that, it reads
what it expects, and `InStep` says that it is there. What is written stays in
`buffer` until a flush. A file may have grown or shrunk between the listing and
the reading: `SendFile` counts what it reads (`Lengths`), `UploadIndex` takes the
size on the list (`Sizes`) back. The remote side (the actions whose names begin with
`Remote`) has a generator and a receiver, follows the protocol, and is external.

`Throttle` is the beginning of `writeAll` (stream 579-620): `LimitedWriteAll` moves and
extends the buckets to where the clock is (`Shifts`, `Extended`), sleeps
(`DelayOf`) and counts. `Pause` is any time between two writes, `ClockStepsBack`
a clock that is set. A write is any number of units, of which several are a
kilobyte, as flushes are never whole kilobytes. `debt` is what was written above
a rate; whoever waits pays it back, so that a bound of it bounds what is written
in any stretch of time. It is counted in whole kilobytes of each write, as the
code counts, and the rate is the limit or `Allowance`, whichever is more.

`Connection` is how channels come and go. `SSHIO::connect` (`Connect`,
`CreateSocket`, `SessionInit`, `SessionStartup`, `CheckHostKey`, `Authenticate`)
and `createChannel` (`CreateChannel`, `OpenChannel`, `Exec`) are cut at each call
that may fail; `Close` is `closeSession`, or `SocketIO`'s `closeChannel`. `fds`
says whose each descriptor of the process is, as a number that the library
closes may be given to another thread (`OtherOpens`, `OtherCloses`) at once.
`Create` is `SocketUtil::create`; a server that refuses counts as connected
(socketutil 177), so that the rest of the list is not tried: the model does
this too, and the handshake then fails.

`Client` extends it with the life of the stream across operations. `Start` is
`Client::start` or the beginning of `listModules`, `WriteVersion`, `ReadVersion`
and `ReadSeed` what comes before an operation proper, `Body` anything an
operation does with the stream, and `Ends` its return or an exception, from any
point of it. `NewClient` is the application that takes another client for its
I/O. A write or an answer carries the number of the session it belongs to.

`Outport` is `block/block_out.h` for one of the arities it spells out. `Connect`,
`Disconnect` and `Emit` are the operations; an emission is cut where a slot runs
(`SlotReturns`, `SlotThrows`), so that a slot may connect and disconnect. A
delegate's array may be replaced under the loop of `multiInvoker`. `Disciplines`
says what an application does with an outport.

## Runs

| Run | Question | Bounds |
|-----|----------|--------|
| `stream` | All of Stream's properties, and that it implements `ByteChannel` in each direction | flag of 2, buffer of 3, pipes of 3, 3 bytes written in pieces of 1 and 2, 4 bytes read, messages of four kinds |
| `large_write` | Is a long write kept? No: finding 1 | writes of 1 and 3, buffer of 3 |
| `channel` | Do calls end, and never too early? | calls of up to 2 bytes, pipes of 2, a timeout that the third failed wait in a row runs into, one packet without data |
| `lost_connection` | Does a cancelled call notice? Not over a closed socket: finding 2 | one byte each way |
| `download` | Does the transfer loop end, count, account for every file, and what is on the disk, whatever fails? | 2 files, one of them with a negative time, requests of 2 units, pipes of 1, each file edited at most twice, digests of two bytes with and without zeros, cancellation anywhere; for one file, writes, renames and stamps that fail and a process that is killed |
| `delta` | All of Delta's properties | blocks of 2, old files of up to 5 bytes, new ones of up to 7, checksums modulo 2 |
| `entries` | Is what is read what was written, and do both ends stay in step? | both protocols, a byte that holds lengths up to 2, sizes and times at the edges of the forms, 11 indices, 2 things written ahead of the reader |
| `sync` | Are the lists sorted, the queue and the sizes exact, the deletion right? | all pairs of trees over eight paths, directories in directories, names that are passed over, with deletion or not, whole or selective |
| `session` | Do both sides stay in step, count rightly and end? | all operations, remote versions 28 to 31, preferred 29 and 30, three files of sizes 1, 2, 4, the first of which may have grown to 9 and the last been emptied when it is read, one line of a daemon's text |
| `client` | Does an operation start clean, on a ready channel, and no socket leak? | 3 operations, 2 writes in each, 3 descriptors, four lists of one or two servers, ssh versions 28 to 30, daemons 30 and 31 |
| `throttle` | What of the upload limit is kept, over any pauses? | half seconds, half kilobytes, writes of one half and of five, limit off, one or two kilobytes, pauses of up to two seconds at once, one step back of the clock |
| `outport` | Does an emission call what is connected, whatever the slots do? | 2 slots, 5 connections, a delegate that begins with room for 2 |

The bounds are small but the interesting cases all occur in them.

* `stream`: neither a frame nor a message fits into a pipe, so partial flushes,
  blocked writes, chunks put aside in parts, and messages in the middle of any
  call all happen.
* `channel`: a call takes several reads, a message arrives in the middle of a
  write with the clock already running, and any state may lose the connection.
* `download`: neither a request nor a reply fits into a pipe, so that each side
  gets blocked; two files give a queue with an order, a leftover of one lies in
  the way of the other, and both may fail and be retried. The calls on one file
  may fail in any attempt, and any number of them; what an attempt does to a file
  depends on the other only through the temporary file that is left, and the
  theorems are about failures on all of them.
* `delta`: a file of seven bytes is three and a half blocks: the chunk of two
  blocks slides, refills and ends with every length of rest.
* `entries`: paths of up to four characters are long names and have common
  prefixes beyond the limit of 2; the sizes are 0, the last and the first value
  on both sides of a form's edge, and one with three bytes more; the indices
  step by 1, 253, 254, 32767 and more, down as well as up, and have every sign.
* `sync`: the paths are a name, the same name with a character below the slash
  added, a file in either of the two as a directory, a file with an invalid
  name, a file in a directory in a directory, a file whose name is passed over in
  a directory that is not, and `.acrosync/` with a file in it; every way in which
  the two orders could disagree about a slash is among them, the stack of
  directories is two deep, and a directory may be kept by what is not listed in it. Times are 0, 1 and 2, on both sides of `isOlderThan`'s second of grace.
* `session`: sizes 1, 2 and 4 tell every set of files by its sum, and 9 and 0
  are none of them; one file cannot change. The remote versions are too old, the
  same, and newer.
* `client`: three operations are one that fails, one in the state it left, and
  one after that; two writes are a flush that is half done. The descriptors are
  0 and two more, so that a number is given away and that there is none left.
* `throttle`: a write is less than a kilobyte or more than a limit allows in a
  second, and never whole kilobytes; a burst takes several, and every number of
  buckets and every offset within a second occurs; pauses add up, and the buckets
  reach back five seconds whatever a second is.
* `outport`: five connections make a delegate of two grow twice, also from a slot
  that it is calling.

Each passing run's properties have a mutant each in `PROJECT.json`: a change to
one definition, of the kind a slip in the code would be, that breaks it.

What the passing runs leave out, since the properties would be false with it:

* `channel`: what a call does after a socket has failed (finding 2); writes that
  nobody cancels, which over ssh need not end, as `isWritable` asks the socket and
  not the channel; and `Stream::read`'s loop, which does not look at the cancel
  flag while there are messages.
* `entries`: times from 2^31 on under protocol 29, which `sendEntry` writes in 64
  bits (client 988) and `receiveEntry` reads in 32 (client 362).
* `session`: deletion enabled together with `mkdir`, `link` or `remove` (client
  1688), a daemon and a preferred version of 29 (stream 419), a remote side that
  reports on `link` (client 1559), skipped bytes once a file has been retried
  (client 1395).
* `client`: daemons that speak 29 or less. `d_protocol` keeps what the last session
  negotiated, and a client left at 29 meets stream 419 with the next daemon that
  speaks 30; the theorem about it has the same hypothesis. An operation on an
  `SSHIO` without a session: `createChannel` calls libssh2 with a null session
  before it looks (sshio 231, 233), and the application is taken to ask
  `isConnected()` first, which is true from the moment there is a session, be it
  authenticated or not. And descriptor 0 is open from the start, as
  `closeSession` takes a socket of 0 for none.
* `sync`: which paths are passed over does not change during a download.
* `throttle`: a clock set back before `d_bucketStartTime`: the time that has gone by
  is then negative, is compared with an unsigned size (stream 592), and buckets are
  added without end; `BucketsFit` is violated when `MaxBehind` is positive.
  `LimitKept` says nothing once the clock has been set back at all, as the buckets
  then stand for less time than has gone by. What `LimitKept` says is less than the
  limit, and the three differences are the code's: five quarters, as the buckets
  reach back four seconds only at the moment when the oldest is dropped; the
  largest write in every second, as a sleep ends after a second (stream 610);
  whole kilobytes of each write (stream 599, 618). What `tryFlushWriteBuffer` writes is not limited
  at all.
* `outport`: an application that disconnects an outport from within one of several
  slots that it is calling, which deletes the delegate under the loop, or that
  emits after a disconnect without asking `isConnected()`, which leaves
  `d_invoker` without a target. `NoBadUse` is violated when `Disciplines` holds
  `"careless"`; the library's own emissions ask first, but for `listModules`.

Deadlock checking is off where a session or a call ends, or a fatal error stops
it; `entries`, which never ends, has it on.

### Fairness

`Stream!FairSpec` asks that a call that has begun is carried on (the thread has
nothing else to do), that the remote side goes on writing a message it has
begun, and, by strong fairness, that it reads again and again between its
messages. Nothing is asked of the client's decision to call anything.
`Channel!FairSpec` asks the first of these only: nothing of the remote side, the
network or the user. `Download!FairSpec` asks that the thread runs and that the
remote sender reads and writes when it can. No fairness is put on cancellation
or on other programs. `Session!FairSpec` asks that the client and the remote
processes do what they can; what they cannot do is read what the other has not
flushed. `Entries`, `Sync`, `Client`, `Throttle`
and `Outport` are checked for safety only, and have none.

## Findings

1. `large_write`: a chunk of 64000 bytes or more, written when the buffer is
   empty, is dropped by the early return of `flushWriteBuffer` (stream 494).
2. `lost_connection`: over a socket, errors are -1, which `readAll` and `writeAll`
   take for progress (stream 558, 623): the thread spins, and notices neither the
   cancel flag nor the timeout.

Some properties have exceptions, each for something that the code does and that
the documents say or suggest it does not. They are part of the property, so that
they cannot grow: what is excepted is the one file, path or write to which it
happens.

* `UpdatedIsCurrent`, against "created or modified" (`rsync_client.h:103`) and "if
  there is any error we'll be able to tell" (client 534). A reported file
  need not be there if its rename failed, at which nothing looks (pathutil 785;
  `unmoved`); if its time is negative, which the `PartialFileKeeper` takes for a
  transfer that was cut short (client 134; `PreEpoch`); if a write failed, at
  which nothing looks either, as the digest is that of what was received (client
  508); or if the digests differ only behind a zero byte, where `strncmp` stops
  (client 541; both `unnoticed`).
* `LeftoversAreStale`, against the modified time that is there to indicate a
  complete download (client 143). A leftover looks up to date if it could not be stamped, or the
  process died before it was (client 136; `unstamped`), and so does an old file
  that could be neither removed nor replaced and is stamped all the same
  (`unmoved`). The -1 that marks a leftover is no older than a negative time.
* `LocalFileKept`, against a temporary file that is moved into place after the
  transfer (`rsync_client.h:53`). The old file is removed first (pathutil 782). It is
  gone if the rename then fails, as it does when there is no temporary file yet:
  a cancellation after ten seconds in front of the first token is enough.
* `Mirror`. The path of a directory ends with a slash, so that the branches of the
  merge for a path that has changed its kind (client 691, 700) are dead. A file
  where there was a directory, or under something that was not one, is reported
  and need not be there (`rsync_client.h:103` again); nor is a path mirrored that
  had to change its kind, or what is under it.
* `QueueIsExact`. A selective download (`rsync_client.h:50`) fetches what is not
  selected as well: `includeFiles` replaces the local list (client 632), the
  remote one stays whole, and what was not selected is taken for missing.
* `ListIsSorted`. In a directory the files come before the directories; comments at
  `rsync_entry.cpp:30` and `:49` say the opposite. Both orders agree on it, which
  is what matters.
* `LimitKept`, against the upload limit of `rsync_client.h:81`: see `throttle`
  above.
* `LogicalIsExact`, against "the number of bytes that have been synced" (`rsync_client.h:90`): the
  length that was read is added, the listed size is taken back when a file is
  asked for again (client 1409). If the file has changed in between the counter is
  off by the difference from then on, and may be negative (`changed`).

A disagreement of words only: `tryFlushWriteBuffer` is called all or none at
client 756, and `rsync_stream.h:94` says it does not return until done; it may
return in the middle of a frame. The code copes, as `FrameIntegrity` and
`NeverWritesIntoFlush` show.

## Proofs

TLAPS proves the following for every value of the constants that the modules'
`ASSUME`s allow (sizes are positive, queues are not empty and name no file
twice, files are sequences of integers, paths are sequences of positive numbers
that neither begin nor end with a slash and whose directories are paths too). Where a
theorem needs more than that, it says so as a hypothesis: the code does
something else without it, which is then under "Runs" or "Findings".

* `Delta_proofs`. `ScanInv` says, for each place in the loop of `sendFile`, how
  `i`, the length of the chunk, and the bytes read and sent are related. It is
  inductive where the asserts alone are not: that a slide meets a full chunk
  follows from the window having moved up to the end of one that was refilled.
  From it: `AssertsNeverFail` and `NoByteLost`. `TokenInv` reads the tokens that
  are still to be received as a journey: each takes the receiver's count of
  bytes, and its position in the old file, one step on, and the journey ends
  where the sender is. A token for a block leads over bytes of the new file
  that are those of the block. From it: `FileIsReconstructed`, for any two files,
  any block length and any collisions of the weak checksum. `RollInv` is that the
  two sums belong to the window; sliding it by a byte changes them as
  `sendFile` does, and never out of the modulus. From it: `ChecksumIsOfWindow`.
  What the sum of a window is for every length needs an induction over the
  length, which is by the least number for which it fails (`InductionUpTo`).
* `Stream_proofs`. `FlushInv`: what a partial flush has sent is less than the
  frame, and a blocking flush begins with none half done. From it
  `FlushStaysFrozen`, the action property on which the integrity of frames
  rests. `OutInv` and `InInv` describe what is in a pipe by the parser at its far
  end: the bytes lead it, one step for each, from where it is to where they were
  written, which is in the middle of a frame during a partial flush and in the
  middle of a message while the remote side writes one. From `OutInv`:
  `FramesStayWhole`, `WrittenBytesInOrder`, and `OutboundIsChannel`, that the
  outward direction implements `ByteChannel`. From `InInv`:
  `DeletionsReachTheList`, and `InboundIsChannel` for the other direction. The
  outward order has the hypothesis `Small`, that no chunk is as long as the
  buffer; without it bytes are dropped, which is finding 1. `FramesStayWhole`
  needs no such hypothesis: what is dropped was never announced.
  At its end is the upload limit, which is a part of `writeAll`. `BucketInv` adds
  to `BucketsFit` that the clock is not before the first bucket; that the loops
  which move and extend the buckets end with five at most, the last of them the
  one the clock is in, is arithmetic of `div` (`Quotient`, `LoopsEnd`). The
  hypothesis is `MaxBehind = 0`: a clock set back before the first bucket is under
  "Runs". `LimitKept` by itself is not inductive, as a debt at its bound may grow.
  `LimitInv` bounds the debt by what is in the buckets (`Bounds`): when each of them
  began, the bound itself was owed at most, or nothing; since then the debt has grown
  by what that bucket and those after it hold, and a part of it was paid back.
  Dropping buckets leaves that (`BoundsMoved`). A write that is within the average
  keeps it because five buckets are then owed for with five sixths of the bound; one
  that is not, because it sleeps past the end of its bucket (`DelaySleeps`), for as
  long as pays for it but for a tick, or for a second, which pays for more than it
  writes. The hypothesis is `CountedWrites`: the whole kilobytes of a write are no
  more than the limit or the allowance comes to in a second. Writes may be of any
  size: it is for the allowance to be as large as the largest.
* `Download_proofs`. `TypeInv` is the types with the shape of every unit on the
  wire. `FlushInv` is the argument why the client may set
  `bufferFlushed` at the start of a phase without asking the stream: there is at
  most one `INDEX_DONE` of the phase, it is behind every request, it reaches the
  wire only when the buffer has been emptied, and the remote side sends one back
  only for one it got; so when it arrives, nothing is half flushed. From it:
  `NoWriteIntoFlush`. `ReplyInv` and `CountInv` say that replies come whole and in
  order, and at which unit of its reply the client is; they give
  `LogicalBytesAreExact`. `AttemptInv` says that a file of the queue is in one
  place at a time (waiting, asked for, answered, in hand, to be retried,
  updated) and has failed once for each phase that is over; it is where the
  assumption that the queue names no file twice is used: the merge that makes it
  only moves forward, and queues an index once. `SettleInv` adds that
  none gets lost on the way, hence `EveryFileAccounted`. `UpdatedStaysCurrent`,
  that a file reported as updated is the remote file, `LeftoversStayStale`, that
  what a failure leaves in a file's place is not taken for it, and
  `LocalFilesAreKept` have no hypothesis: whatever can fail, and wherever the
  thread can be cancelled or killed, the exceptions are the files in `unmoved`,
  `unstamped` and `unnoticed` and those with a negative time. What the keeper does is
  in two lemmas, what it leaves (`KeepLeaves`) and what it removes (`KeepRemoves`).
* `Session_proofs`. Both sides are parsers of what the other writes.
  `ClientTakes` and `RemoteTakes` say what each does with a unit, `InwardInv` and
  `OutwardInv` that the units on their way, with those in the write buffer, are a
  run of the parser at their end, from where that side is (`ClientAt`,
  `RemoteAt`) to where it will be when the other one writes next
  (`ClientWillBe`, `ClientWritesAt`). The state of the client's parser holds more
  than its place: the number of `INDEX_DONE`s to come, the last index of the
  first phase and the files that are asked for again; without these a step of
  the upload could not be shown to leave a run. `PlaceInv` ties
  places to operations, `PromptInv` says who waits for whom during the
  set-up, `ProtocolInv` what both take the version for, `CountInv` what the
  counters stand for. From them: `SidesAgree`, `SidesInStep`,
  `SkippedBytesExact` and `LogicalBytesExact`, for any number and sizes of
  files, any lengths when they are read (`Total`) and any talk of a daemon. The
  hypotheses are what the run leaves out
  (see above): a daemon is met with a preferred version of 30
  (`DaemonsPrefer30`), deletion is enabled for uploads, lists and downloads only
  (`DeletionOnlyForSyncs`), and the remote side does not report on `link`
  (`LinkIsSilent`).
* `Channel_proofs`. `TypeInv` adds to the types where the thread is in each call
  and what is saved of the write behind a message; it gives `TypeCorrect`, whose
  point is that a count falls below zero only over a socket that has failed.
  `TimerInv`: the clock was not set before the last byte moved, in the direction
  of the call, and during the read of a message in the middle of a write in both
  directions; without the second half a message could end a write too early.
  From it: `TimeoutIsLate`.
* `Sync_proofs`. `compareGlobally` is a strict total order on paths of any
  length over any alphabet (`Irreflexive`, `Total`, `Transitive`), which is what
  `std::sort` and the merge of two lists require of it, and within a directory it
  agrees with `compareLocally` (`LocallyIsGlobally`), which is why the list made
  by the walk with a stack needs no sorting. Transitivity is by the first
  differences of the three paths: the earlier of two decides for the third pair.
  On it rests the invariant `IInv` of a download, for any two trees of any depth.
  `Walked` is the walk: what is listed comes before everything that is in the
  directories on the stack, what is in one of those comes before what is in those
  under it, and everything is listed or in one of them. `Merging` and `Deleting`
  say what is known to be past where the two lists are, `Queued` that the queue
  names what was needed of the nodes that the merge has passed, `Kept` that
  nothing is gone before the deletion and that what was not a directory does not
  become one. From it: `ListIsSorted`, `QueueIsExact` and `RemovesOnlyMissing`.
  What is listed is what was `Seen`: what `listDirectory` does not pass over, or
  `createEntry` finds. `MirrorInv` is an extension of `IInv`: what is at a path had
  been there or is there on the remote side (`Kinds`), whatever the merge has
  passed is there from then on (`Made`, `Fetched`) unless something of another kind
  is in its place or obstructs a directory above it (`ParentObstructed`), as a
  directory comes before what is in it, and the deletion pass leaves nothing behind its
  position that the remote side does not have (`Cleared`); that a directory is
  empty when its turn comes is because the pass goes from the end to the start.
  It gives `Mirror`. For `SizesAreExact`, `OnStack` says that the stack holds
  the directories that an entry is in, each in the one below; what is between a
  directory and something in it is in it too (`ContentsTogether`), so that no
  directory is popped too early. The stack at each place of the list is defined
  by recursion along the list; that there is such a run, and only one, is by
  the least place at which it would end.
  The same module has the proofs about `Entries`, the way such a list travels.
  Every encoding has a lemma of the form `Gives`: a reader of it gets the value
  that was written and leaves what follows, whatever that is. They are built up
  from the integers (`UnpackIs` for the variable-length ones, of every length and
  every room beside the ones; `SizeRead`, `TimeRead`, `LengthRead`) and the steps
  between indices (`StepRead`, `IndexRead`) to a whole entry (`EntryRead`). The
  invariant `WireInv` says that what is under way leads from what the reader
  remembers to what the writer does: before each thing on the wire there is a
  memory, and the thing was written relative to it. It gives `ReadIsWritten` and
  `EndsInStep`, for all paths and links shorter than an int holds, all sizes,
  modes and indices of 30 bits, and for all times under `TimesFit`: where
  protocol 29 is spoken they lie from 0 to 2^31 - 1, as it reads a time as 32 bits
  (client 362). Units of the wire that are not bytes are the flags and the mode,
  and under protocol 29 an index.
* `Client_proofs`. `ConnectionInv` has two halves. `Owned`: the library's socket is
  the one it remembers or it has none, and none of another thread's is
  remembered. `Progress`: how far `connect` or `createChannel` has come says what
  there is. From it: `NoSocketLeaks`, `SessionHasChannel` and `ForeignStaysOpen`,
  for any number of descriptors and servers. `SessionInv` follows the stream from
  `reset` to the body of an operation: what is in the buffers is of this session,
  and the base of the next index is the number of indices written in it. It
  gives `SessionsStaySeparate`, under the hypothesis `DaemonsSpeak30`.
* `Outport_proofs`. `Fits` says that `d_invoker` fits `d_inport` whenever there is
  one, `InOrder` that the array holds what was connected, `Loop` where an emission
  is. From them `EmissionCallsEverySlot` and `PointersAreGood`, for any capacity
  and any number of slots, under the hypothesis `Careful`: no application is
  careless.

Only model-checked: all liveness (`FlushCompletes` of `Stream`, the calls of
`Channel`, the ends of `Download` and `Session`), which is out of the prover's
reach.

## Not modelled

`File`, `PathUtil` as such, digests, clocks and logging are wrappers of other
libraries; the models contain what they let through to the parts above. The
build tool and the test helpers are not part of the program. Left out as well:

* of the I/O classes: name resolution, socket options, disconnecting a session
  that does not answer for ten seconds, and a close that returns `EAGAIN`, which
  the code ignores. `flush` of a channel is taken to change nothing, and the
  signal that a write to a closed socket may raise is left out;
* of `Stream`: the line reader and writer of `login`, and frames of 2^24 bytes;
* of `Client`: the download of a single file, for which `localFiles` may be empty
  (client 642, 809); remote lists that the remote side says are incomplete
  (client 605); `getBlockLength`; file modes; the flags of a top directory and of
  an incomplete list in an entry; the lists of updated and deleted files of a
  client that is used for several downloads, which are never cleared; and
  `stop`, which nothing calls;
* of `block::out`: an outport that is emitted from within its own slots, an
  emission to nobody where a value is to be returned, which throws, and the
  inports of a deleted delegate, which are never freed;
* an application that connects the log's handler: `LOG_FATAL` then does not throw
  (log 62), and the library goes on where all of the models stop.

In `Download` the timeout appears as `Abort`.

## Plan

Done: `Stream`, `Channel`, `Download`, `Delta`, `Encoding` with `Entries`,
`EntryOrder` with `Sync`, `Session`, `Connection` with `Client`, `Throttle`,
`Outport`; proofs about all of them, of all that the runs check but liveness.
Left, in this order:

1. `Throttle` with a clock that is set back: how much more may then be written.
2. `Sync` with incomplete remote lists (the IO_ERROR flags) and what the deletion
   pass may then remove; the download of a single file.
3. What the next sync makes of what a killed process left: `Download` and `Sync`
   composed.
4. `Entries` with times that protocol 29 cannot carry, and `Session` with a daemon
   and a preferred version of 29, as questions of their own.
