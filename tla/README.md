# PeerShare: a TLA+ model of the file-sharing program

PeerShare (`src/p2p`) is a Windows console program. Each process announces
itself over UDP, lists the peers it hears of, and sends one file at a time to
one of them over TCP, encrypted, in chunks that are hashed, acknowledged and
resumable. These modules model the program's protocol and state, TLC checks
them on small instances, and TLAPS proves the safety properties, that the
transfer implements an abstract download and that the byte streams implement queues of frames, for every value of the constants.

## The system

| Part | Code | State | Operations |
|---|---|---|---|
| Peer discovery | `discovery/*`, `core/PeerCore` | flag `running`, two threads, the peer table | announce every 2 s, enter and remove peers, stop with a goodbye and two joins |
| Session set-up | `main.cpp`, `ProtocolSession` 63-81, 344-467, `net/TcpListener` | one main thread and one listener thread per process, the listen backlog, a connection with a key per session | connect, HELLO / HELLO_ACK, the prompt, key exchange, serial accept loop, exit |
| File transfer, sender | `ProtocolSession::sendFile`, `handleResumeAsSender` | the manifest, the peer's bitmap, the loop index | manifest, offer, wait for the answer and the bitmap, one chunk and one acknowledgement at a time |
| File transfer, receiver | `recvFile`, `handlResumeAsReceiver` | the offer, the bitmap, the loop index, the stream `out` with its buffer | prompt, open, load the resume file, verify, write, save, acknowledge, remove the resume file |
| Resume state | `storage/ResumeState` | `<name>.resume` on disk | `save` (truncate, then write on close), `load`, `markReceived` |
| Framing | `MessageFramer`, the receive loops | a byte buffer, local to each receive call | encode, decode |
| TCP | `net/TcpConnection` | a socket | send all, receive what is there, close in the destructor |
| Chunks and manifest | `ChunkManager`, `FileManager` | none | hash, read a chunk, write and parse the manifest |
| Console | `ui/CLI`, the prompts of `main.cpp` | stdin and its failure flag, shared by both threads | menus, a path, "Press Enter", yes/no prompts |
| Cryptography | `crypto/*` | a key pair, a shared secret | ECDH, AES (OpenSSL calls) |
| Configuration, log, progress | `core/ConfigManager`, `core/Logger`, `ui/ProgressTracker` | none the protocol depends on | read `config.ini`, print |

The parts meet in `main.cpp`. The main thread takes a peer from the discovery
table, dials it, and runs `performClientHandshake`, `performKeyExchange` and
`sendFile` on one `ProtocolSession`. The listener thread of the other process
accepts it and runs `performServerHandshake`, its prompt, `performKeyExchange`
and `recvFile`. There are no timeouts and no locks outside the peer table and the
logger: the two sides are kept in step only by each waiting for the other's next
frame. What persists is the downloaded file and `<name>.resume`.

What is hard about it:

- frames carry no chunk index, so the sender's and the receiver's loop agree
  only if they skip the same chunks and nothing is acknowledged twice or never;
- a receive call may read bytes of two frames, and drops the second or its beginning;
- counts, offsets and lengths are 32 bits wide in the transfer and not in the manifest;
- a payload above `max_message_size` is sent as nothing, and the sender is told it was sent;
- both threads of a process ask their user on one console;
- the file, its manifest and its size are read at different times;
- the chunk goes through the buffer of a stream, the resume file does not: a
  kill separates them; the resume file is truncated before it is written;
- the result of `sendBytes`, of `handleResumeAsSender`, of the writes to disk and
  of the `recvBytes` of the key exchange is ignored;
- either process, or the connection, may go at any point, with or without notice;
- the listener serves one connection at a time, may accept one whose client has
  long gone, and is detached from a main thread that may exit under it;
- a peer can be announced after it has said goodbye, or never say it.

`PROJECT.json` lists these hazards with their lines and the properties that
cover them.

## The modules

| Module | Models |
|---|---|
| `ChunkedFile` | Files as sequences of chunk contents; `ReadChunk` (with the padding of a short read), which chunk a loop takes next, when it is through |
| `TcpLink` | The connection of a session, one entry per frame: `sendBytes` that cannot fail, receive calls that may drop what follows the frame they return, closing, breaking |
| `SendFile` | `sendFile` with every early return |
| `RecvFile` | `recvFile`, the resume file, the stream buffer, the disk |
| `FileTransfer` | The two composed with the environment (faults), the properties of a transfer |
| `TransferInvariants` | The inductive invariants of FileTransfer |
| `Download` | What a transfer promises: the abstract specification |
| `TransferRefinement` | FileTransfer seen as a Download: the refinement mapping |
| `TransferClaims` | Statements of `src/README.md` that the code does not meet |
| `FileTransferProofs`, `RefinementProofs` | Proofs about FileTransfer: its invariants and what resuming promises; that it implements Download |
| `ChunkArithmetic` | Number, offset and length of chunks, as the manifest and as the transfer compute them |
| `ChunkArithmeticProofs` | Lemmas about them |
| `ByteTransfer` | The sessions of one download down to bytes: `encode`, `decode`, the receive loops and their buffer, reads and writes of the file |
| `ByteInvariants` | The inductive invariant of ByteTransfer |
| `ByteTransferProofs` | Proofs about ByteTransfer |
| `FrameChannel` | One direction of `TcpLink` as a specification of its own, which the byte streams of ByteTransfer implement |
| `Console` | The prompts of both threads of a process over one stdin, and its inductive invariant |
| `ConsoleProofs` | Proofs about Console |
| `SessionSetup` | Both threads of several processes, from `connect` to `recvFile`, the backlog, exit, kill, restart |
| `SetupInvariants` | The inductive invariant of SessionSetup |
| `SetupProofs` | Proofs about SessionSetup |
| `Discovery` | Announcements, goodbyes, the peer tables, start and stop of the threads |
| `DiscoveryProofs` | Proofs about Discovery |
| `ShortSequences` | Lemmas about sequences of one and two elements and their prefixes, for the proofs |
| `MCFileTransfer`, `MCSessionSetup`, `MCDiscovery` | Small instances for TLC |

Operators marked "Seeded fault" are plausible bugs, one per property. Nothing uses
them; each property was seen to fail when its fault takes the place of the
definition it follows.

### How the transfer corresponds to the code

`spc` is the place of the sending thread: `manifest` (before and in
`generateManifest`), `offer`, `response` (in the first `recvEncryptedMessage`),
`bitmap` (in `handleResumeAsSender`), `loop`, `ack` (waiting for `CHUNK_ACK`),
then `sent` (returned true) or `failed`. `rpc` is the receiving thread: `offer`,
`confirm` (the prompt), `open` (accepted, file not yet opened), `loop`, `save` and
`saving` (before and between the truncation and the write of `ResumeState::save`),
`ack`, `remove` (after `out.close()`), then `done`, `failed` or `crashed`. Between two blocking
calls several statements form one action, unless another process, a kill or the
disk can tell them apart: that is why writing a chunk, truncating the resume file,
writing it and acknowledging are four actions.

- A *chunk* is its contents, and its hash is its contents: SHA-256 is taken to be
  injective. `Blobs` are the possible contents, `Short` those that fit in the
  stream buffer and so may stay there after `out.write`.
- A *file* is a sequence of chunks. A version with other contents, more or fewer
  chunks stands for an edit, a truncation, a replaced file of the same name or
  another `chunk_size`.
- `disk` is the downloaded file, `unflushed` the chunk in the stream buffer,
  `resumeFile` the contents of `<name>.resume` (`NoResume`: no such file).
- `bitmap`, `resumed`, `remoteBitmap` are the receiver's bitmap, the part of it
  that was loaded, and the sender's copy.
- `Garbled` is what is left of frames when an earlier call dropped the beginning of the first. It never decodes to
  a frame; it stays in the way until a receive call has read it, and takes any frame that is read together with it along.

`Download` has what is left when frames, prompts, indices, buffers and the two copies of the bitmap are taken away:
an offer that is read at most once, a set of chunks believed from an earlier session, a set of chunks taken in this one, the
file and its record. `TransferRefinement` maps the file to what `out` would hold if it were closed now (`View`), so that flushing is a stutter
and a kill an action that may take back one short chunk.

### How the set-up corresponds to the code

`client[p].pc` is the main thread of `p`: `select` (the peer menu), `hello` (in
`recvHelloAck`), `key` (in the loop of `performKeyExchange`), `path`
(`askFilePath`), `transfer` (in `sendFile`), `again` ("Press Enter to continue"),
`exit` (out of the loop of `main`). `listener[q].pc` is the listener thread:
`accept`, `hello`, `prompt`, `key`, `offer` (in `recvFile`, before the offer),
`transfer`. `wire[c]` is one TCP connection: who has its socket open and the frames on their
way to each end. The loop of `performKeyExchange` has no exit but a frame, so a
thread whose peer has hung up takes no step there. `ReadBy` idealises one thing: a call that reads
on past its frame may in the code stop in the middle of the next, whose tail then stays on the wire; here a frame that is partly read is lost as a whole. The
tail of a key could be taken for a frame only if it had zeros where the length of one would be. ByteTransfer has such tails. The transfer is cut to its
effect on the two threads (`EnterPath`, `RecvFileReturns`, `FileSent`); FileTransfer
has what happens inside.

### How discovery corresponds to the code

`main[p]` is the main thread as far as discovery goes: `up`, `left` (in `stop`,
after the goodbye), `joining` (`running` cleared), `off`. `broadcaster[p]` is `awake`
when it has passed its test of `running` and not yet sent. A datagram waits in the
socket of its receiver; the code sends to 127.0.0.1, so there is nowhere else to wait.
`ExitUntold` is the exit of `main` after a transfer: it calls `WSACleanup`, and the
`stop` in the destructor then returns at line 35.

### How the bytes correspond to the code

`stream[end]` is what is on its way to an end (`wire`) and the local buffer of its receive call. A byte is a
position of the frame it belongs to, so that the code's blindness can be modelled: when a buffer begins in the
middle of a frame, the header it is taken for is any header (`Headers`), and stays that header while the buffer grows. A message is its type,
its encrypted length and what matters of its body: chunk data byte by byte, the bits of a bitmap.
`alike` is a file whose bytes are all equal, so that chunks of equal length have equal hashes; otherwise all
bytes differ. Offsets and lengths are those of `ChunkArithmetic`, with `Word` in the place of 2^32.
Sessions follow one another (`NextSession`): one may end or break wherever its ends are, and the next one starts from
the resume file and the disk it left, those of a session that lost its bitmap included. `dropped` remembers over all of them whether a call has dropped bytes.
Both users accept, no file is edited, and what was written is kept: edits, a kill between write and save, and failing disks are the subject of FileTransfer.

### How the console corresponds to the code

`mpc` is what the main thread does with the question `mask`: `number` (in `cin >> c`), `failed` (it failed and has not been
tested), `discard` and `rest` (in `cin.ignore` after a failure and otherwise), `line` (`getline`), `one` and `two`
("Press Enter": `cin.ignore()` and `cin.get()`), `asleep` (receiver mode), `exit`. `lpc` is the same for the listener thread.
A character is read at a time, by whichever thread comes first; it remembers the question it was typed for, which
the program cannot see. `shared` remembers that the listener has asked while the main thread asks too.

## The runs

| Run | Asks | Instance | Distinct states |
|---|---|---|---|
| `transfer_safety` | What holds under every fault at once, and is it a download? | 3 chunk positions, 3 contents of which one is short, 4 versions of the file: one with a repeated chunk, one edited, one shorter, one empty | 1.9 million |
| `resume_unchanged` | What does resuming promise if the file does not change and the disk works? | a file of 3 or 2 chunks that stays as it is, none short, kills, breaks, silence, coalesced reads | 8.6 thousand |
| `transfer_liveness` | Do sessions end? | 2 versions of different lengths, all faults but the disk's | 56 thousand |
| `byte_transfer` | Does the file arrive byte by byte, are files and payloads that do not fit refused, are the bytes a queue of frames, is `ByteInv` an invariant? | any number of sessions that break anywhere, a word of 12, files of 1 to 16 bytes, chunks of 3, 7 and 9, messages up to 8, reads up to 4, a header of 2 | 50 thousand |
| `console` | Which thread hears what the user types, is `ConsoleInv` an invariant? | one peer, 4 characters typed ahead | 44 thousand |
| `session_setup` | Does consent come first, do keys agree, is no socket lost, is `SetupInv` an invariant, what holds up the listener? | 3 processes of two builds, 2 of which also dial, 2 connections, backlog 1, all faults | 48 thousand |
| `discovery` | Do peers find each other, does `stop` return, and is it final? | 2 processes that start and end any number of times, 2 identities that may coincide, loss and kills | 68 thousand |

Three chunks are enough for a chunk before, at and behind the one in hand, a
resumed prefix, a resumed chunk in the middle and a last chunk; a repeated chunk
makes contents that match at the wrong place; versions of lengths 3, 2 and 0 let a
resume file be longer than the offer it is loaded for, and the reverse. Sessions follow one
another without bound: the disk and the resume file of one are the start of the
next. Queues need no bound, since each side waits for the other: at most two frames are under
way (acceptance and bitmap). In `session_setup` two connections are one in service and one in the
backlog, or one that lingers at a listener and one that is new. In `discovery` two processes and
two identities give every case of same, different and changed identity.

In `byte_transfer` a word of 12 puts the boundary of 32 bits where a file of 11 bytes just fits and files of 12 and 16 do not.
Chunks of 7 bytes make the largest message allowed, chunks of 9 do not fit and an offer for six chunks of 3 just does.
Files of 3 and 4 bytes end at a chunk and one byte behind it; the old download is longer than some files and
shorter than others. Messages are longer than a read and a read is longer than a header, so that a read can end in a header, in a payload, at
its end, and in the middle of the next frame. In `console` four characters are two lines, one for each
thread; a longer lead shows no other order in which they can be shared out.

Five further runs refute, each with the fewest faults it takes, what a document or a message of the
program says:

| Run | Said | Done |
|---|---|---|
| `claim_resumed_file` | "No data corruption" (README 209) | Resumed chunks are not hashed again: after an edit of the source a download that returns true mixes two versions |
| `claim_recorded_survives` | "Resume after crash, kill, or network loss" (README 96) | A short chunk can be recorded in the resume file and still be in the stream buffer when the process is killed; it is skipped from then on |
| `claim_stream_decoding` | "Safe decoding over TCP streams" (README 27) | A bitmap that is read together with the acceptance is dropped, and both sides wait for ever |
| `claim_rejection_noticed` | "Connection was rejected by the remote peer." (`main.cpp` 127) | A refused client spins in `performKeyExchange`; that line is never reached |
| `claim_gone_forgotten` | "Dynamic peer table with liveness tracking" (README 33) | A process that exits after a transfer says no goodbye, and no entry expires |

Further departures from the documents, visible in the model but with no run of their own: a corrupt chunk ends the session
and is not requested again (`RejectChunk`; "Corrupt chunks are detected and retransmitted", README 83); an existing longer download is not truncated (`OpenAndResume`);
a kill between the two halves of `save` forgets the record (the exception in `KillKeepsProgress`; "Transfer state persisted on disk", README 95); writes
that fail are not noticed (`DiskFails`, and the condition `outOk` of the invariants); a silent peer is never given up (`GoSilent`; "Timeout and liveness detection", README 63);
an offer that is read together with the key is dropped, and both sides wait for ever (`OfferLost`, an excuse in `ListenerComesBack`);
a process that has sent its file exits while its detached listener receives another ("Safe cancellation and cleanup", README 102; `FileSent`).

What the bytes show:

- a file of 4 GiB or more fails, but late, and again in every session: it is offered, and some chunk is cut short by the 32-bit length and
  fails its hash (`LargeFilesRefused`). The property has one exception: all bytes of the file are equal and some session has dropped
  its bitmap. Then the two loops count differently, a chunk of the same contents can be stored under the index of the one that is cut, and a later session, which
  drops nothing, skips it and ends: `recvFile` returns true, and bytes of the file are missing. Without the exception TLC finds
  such a run in three sessions (a file of 16 bytes in chunks of 3);
- a payload above `max_message_size` is encoded as nothing while `sendEncryptedMessage` returns true, so
  both sides wait for ever. `FittingFilesArrive` has the condition `Fits` for that;
- the rest of a frame whose beginning was dropped can itself look like a frame, of any length. `decrypt` then returns an
  empty payload and the session goes on; the model takes it that the two bytes read as its type are not those of the message that is awaited.

What the console shows:

- if only one thread has asked so far (`~shared`) every character goes to the question it was typed for; as soon as
  the listener asks while the main thread asks, a character goes to whichever thread reads first, an answer can reach the other question,
  and a connection can be allowed by a peer's number typed for another one. Nothing is stated of that case,
  for the program promises nothing in it. A receiver, whose main thread sleeps, is served well;
- "Press Enter to continue" takes two characters, so Enter has to be typed twice;
- the prompt "Allow?" leaves the end of its line for the next one to read; after `yes` that is `es`, which the next prompt takes for
  a refusal (the model's user types one character);
- a letter at the first menu goes on as "send" (`selectAction` returns -1 and `main` compares with 2 and 3 only);
- the listener's `cin.clear()` may fall between the failure of a read of the main thread and its test; the letter then counts as
  0, which at the peer menu ends the process (`TestFailed`).

## Fairness

A thread that is not blocked in a receive call keeps running: weak fairness for each
thread's steps (`SenderStep`, `ReceiverStep`; `ClientThread`, `ListenerThread`;
`Stopping`, `Broadcasting`, `RecvLeave`). The program has no locks a
thread could starve on. Nothing is assumed of users (dialling, answering, typing a path),
of kills, or of TCP giving up on a silent peer. Only discovery assumes something of the
network: `RecvAnnounce` is strongly fair, that is, of announcements that are repeated for ever some arrive.

`TransferCompletes` assumes that kills, breaks and silence stop, not that they do not happen, and that the user
accepts. In `ByteTransfer` both threads are fair, and `FittingFilesArrive` assumes
that sessions stop being broken at some point (no fairness makes a user send a file again). In `Console` the user is fair too, answers a question that waits, and
types nothing else; nothing would be said of a prompt that nobody answers.

Liveness is therefore conditional, and the conditions are the known ways to hang: the prompt
nobody answers, the bitmap or the offer lost with the frame before it, the silent peer, the key exchange whose
peer has gone (`Spins`). `ListenerComesBack` names what may hold up a listener, each with the state of the client it
takes: a user (at the listener's prompts, at the client's path, or in the transfer), a client that has gone without leaving its key (`Spins`), the client's own key dropped with
`HELLO_ACK` (`KeyLost`), the offer dropped with the key (`OfferLost`).

## What is proved

For every set of contents, files, number of chunks, choice of short chunks and faults that meets the
`ASSUME`s of `ChunkedFile`, `TcpLink` and `RecvFile`:

- `TypeCorrect`: the types, and with them that loop indices stay in range.
- `TransferInvHolds`: the inductive invariant `TransferInv`. It has four parts: what is in the stream
  buffer is marked and belongs to this session (`StreamInv`); everything behind the receiver's index is
  marked (`LoopInv`); the resume file lags behind the bitmap by the chunk in hand, and only until it is
  saved (`RecordInv`); and, by the state of the sender, which frames can be under way and how far apart the two
  loops can be (`SessionInv`): one token, a chunk or an acknowledgement, is under way at a time, and everything behind the sender's index
  is held by the receiver. The last part is what replaces the index that frames lack. None of the properties below is inductive without it:
  an acknowledgement in flight means nothing unless one knows which chunk it is for.
- `AlignedLoopsHolds`: while the bitmap has arrived, the chunk in flight is the one that the receiver takes it for. The second
  invariant, `AlignInv`, adds to the first that at most one frame of the loops is under way (`OneFrameUnderWay`) and that the
  sender has no chunk ahead of the receiver but those it skipped (`NoneAhead`); it also holds when the sender has
  gone and its last chunk is still in flight.
- `DownloadImplemented`: `Spec => ImplementsDownload`, every step of `sendFile`, `recvFile` and the faults is a step of `Download` or a stutter.
  `RefinementInv` adds what the mapping needs: only a short chunk waits in the stream buffer, so a kill takes back no more than that,
  and the offer has not been read before it is sent.
- From the first invariant: `HeldChunksMatchHolds`, `SentMeansHeldHolds`, `KillKeepsProgressHolds`,
  `VerifiedWritesOnlyHolds`, `RemovedOnlyWhenWholeHolds`.
- `ResumeSoundHolds` and `DoneMeansOfferedHolds`, under the hypothesis `Steady`: the file is never edited, the disk
  works, and no chunk is short. `claim_resumed_file` and `claim_recorded_survives` show that the first
  and the last of these are needed.

For ChunkArithmetic, with any word, file and chunk size: `SmallFilesExact` (a file that fits the word has the same
counts, offsets and lengths in the transfer as in the manifest), `EveryByteSentOnce` (its byte `k` is in chunk `k \div cs` and in no
other), `LargeFilesCut` (a file that does not fit has a chunk that is sent shorter than it was hashed).

For Discovery, with any processes, identities and reachability: `DiscoveryTypeCorrect` (no thread outlives its process),
`OwnIdNotListedHolds`, `SilentAfterStopHolds`. The inductive invariant adds that a process that is off has
an empty table and one that runs has an identity.

For SessionSetup, with any peers, builds, connections, backlog and faults that meet `SetupAssumption`:
`SetupTypeCorrect`, `SocketsAreOwned`, `ConsentComesFirst`, `KeysAreAgreed`, all from `SetupInvariant`. The inductive
invariant `SetupInv` has two parts. `OwnersInv` says who has which socket: a thread that is in a session has its own end of
one connection and is in the right role there, a backlog holds distinct connections that nobody serves yet, and there is no
other open end. `StageInv` says, for each connection with both ends open, which states of the client and of the listener go
together and which frames lie between them: a key the client sends before the prompt is answered still waits there when the listener
gets to its own key exchange, and until its user has agreed no frame is under way to a waiting client that it could take for a key. When the connection breaks,
a prefix of those frames is left, which is why the invariant speaks of prefixes. The consent of the
user and the agreement of the keys follow from the stages; they are not inductive alone, because the program does not look at the type of the frame it
takes for a key. Each action has one lemma. It shows what happens to the one connection the action is about;
`OneInStep` and `SameOwners` say that all others stay as they are, since no thread touches a connection it does not own.

For Console, with any peers, menu choices and number of characters typed ahead that meet its `ASSUME`: `ConsoleTypeCorrect` and
`LoneReaderHearsHolds`, from the inductive invariant `ConsoleInv`. It says, as long as only one thread has asked, which characters lie on
stdin: where the main thread asks, the rest of one line, typed for its question, and nothing while it is busy (`MainAlone`); where the listener
asks, ends of lines and at most one answer, to its question (`ListenerAlone`).

For ByteTransfer, with any sizes of files and chunks, limits, word, header and reads that meet `ByteAssumption` and `WordAssumption`:
`DoneMeansSourceHolds` and `LargeFilesRefusedHolds`, from `ByteInvHolds`. The inductive invariant `ByteInv` has these parts:

- `SetupStreams` and `LoopStreams`: the bytes on their way to an end (read or not) are, at each pair of steps of the two loops, the one or two frames
  that this pair has left there; and behind a call that dropped bytes, the end of a frame whose beginning is gone (`RestOf`). Unless
  something was dropped, the chunk on its way is the one `recvFile` waits for, and both loops skip the same chunks from there on (`AgreeFrom`).
- `BufferInv`: a buffer that begins with a frame has the header of that frame, and does not hold all of it yet.
- `LoopInv`, `OfferInv`: every chunk behind `recvFile`'s index is held, and an offer that arrived counts its chunks without overflow.
- `DiskInv`: a file that fits the word is on disk exactly where the bitmap says so, and elsewhere there is what was there before.
- `HeldWhole`: no chunk was taken that is sent shorter than it was hashed, unless all bytes
  of the file are equal and some session has dropped a bitmap.

The first theorem combines `DiskInv` and `LoopInv` with `EveryByteSentOnce`; the second `HeldWhole` and `LoopInv` with `LargeFilesCut`: the chunk that is cut
would have to be held. A broken session leaves the parts about the disk alone, and the streams begin
again (`NextSessionKeeps`); where bytes differ, a chunk that is taken for another was read from the same place (`ChunkPlaced`), which is why `HeldWhole` survives
sessions whose loops count differently. The streams are needed because frames have no index: only from what can be on its way follows what a decoded message is.

`FramesImplemented` is the refinement: `Spec => ImplementsFrames`, each of the two streams is a queue of `TcpLink` with no fault but coalesced reads and new connections. From `ByteInv`
follows that at most two frames, or the ends of two, are on their way (`Queued`), so that the queue behind a stream is computed for one
head and for two (`OneQueue`, `TwoQueue`); `QueueAppend` says what a message adds, `QueueRead` that dropping any number of bytes, at least the first frame if its
beginning is there, leaves what `Reads` allows. Every step is then one of `FrameChannel` at each end (`ChannelStep`).

Only model-checked: everything temporal beyond `[]` and the two refinements, since liveness under fairness is outside the prover's reach. That is
`transfer_liveness` and the temporal properties of the other runs (`FittingFilesArrive`, the answered prompts of Console, and so on), and the five refuted claims, which are
counterexamples.

## Not modelled

- *Cryptography.* The OpenSSL calls work; encryption is transparent between peers whose keys agree, a key is the name of its owner, and
  ciphertext is longer than plaintext by a constant.
- *The text of the manifest*, written and parsed again in one step; names with spaces or line ends in it.
- *The end of stdin*, and users who type ahead, several characters at once or without being asked.
- *Several files.* One file name in one direction. Two downloads of one name cannot overlap: the listener is serial.
- *Power loss* and write-back caches: a kill loses what the process buffered, not what it handed to the system.
- *Exceptions* of `std::filesystem` and `stoi`, logging, the progress bar, configuration.
- *Listener start-up failure* (port in use): the thread returns and the process only sends.
- Faults and bytes together: FileTransfer has all faults over frames, ByteTransfer the bytes with no fault but broken sessions, and `ImplementsFrames` is what
  connects them.

## Plan

1. (done) Transfer, session set-up and discovery, each with its invariant and proofs.
2. (done) `Download`, the refinement by FileTransfer and its proof; the invariant behind `AlignedLoops` and its proof.
3. (done) `ChunkArithmetic` with its lemmas, `ByteTransfer` and its refinement of `FrameChannel`.
4. (done) `Console`.
5. The text of the manifest: what a name can do to the parser of `sendFile` and `recvFile`.
6. (done) The proofs about `Console` and `ByteTransfer`, and of `ImplementsFrames`.
7. Liveness stays with TLC.
