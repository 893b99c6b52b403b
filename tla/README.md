# TLA+ models and proofs of leftMyCodes

The repository holds four small C and C++ projects: *LeftMyCodes*, a library of
helpers with a "thread safe list"; *CompleteConfidence*, a WebSocket server with
a console client; *LeftSupport*, a Windows library that copies one window to
another; *LeftComSupt*, a serial port library. This directory has TLA+ models of
the parts of them that keep state, TLC configurations that check the models on
small instances, and proofs, checked by TLAPS, that some properties hold for
every value of the constants.

How to run, in this directory:

    tlc -config ListApart.cfg MCThrSfeList      # a model-checking run
    tlapm ThrSfeListProofs.tla                  # the proofs of a module

`PROJECT.json` lists the runs, the faulty variant (`Mut...`) that each property
is known to catch, the source lines behind each definition, the hazards and the
theorems. Line numbers are those of the sources named with them.

---

## 1. The system

### LeftMyCodes

| Component | State and operations | Interaction and what is hard | Correct when |
|---|---|---|---|
| **ThrSfeList** (`MyCodes.cpp` 252-316, `MyCodes.h` 170-) | A ring of heap nodes around a static head, with `Next`, `Last`, `buf`, `len` and a mutex. `Add` puts a node behind the head, `GetLast` copies out and deletes the oldest, `GetBuf` reads a buffer | `main.cpp` runs two threads, one that adds and one that takes, with no other synchronisation. The constructor gets the lock *by value*; `delete Last` is outside the lock | memory safe, one unbroken ring, first in first out, nothing lost |
| **Ini list** (152-211) | A singly linked list with an empty first node. `AnalysisIniFile`, `GetIniInfo`, `DelIniInfoList` | Called in that order by `main.cpp`. Lines that are too long, files that do not open, keys and values with a `%` | the first line with a key answers; every node is freed |
| **Orders and hex** (35-108, 213-250) | No state but the caller's pointer. `AddSign`, `getNextOrder`, `HexToStr`, `StrToHex` | A text goes through `AddSign` and then through `getNextOrder` over and over | each order once, in order; hex round trip |
| **Hash, time, error texts** | none | system calls, formatting | not modelled |

### CompleteConfidence

| Component | State and operations | Interaction and what is hard | Correct when |
|---|---|---|---|
| **WebSocket frames** (`WebSocket.cpp` 43-128) | none. `PackageAddHead`, `ReadPacket`, `DecipheringStr` | The server measures a binary frame with `strlen` (`main.cpp` 194) | frames are those of RFC 6455 and leave the server whole |
| **Handshake digest** (`sha1.cpp`, `base64.cpp`, `CountMagicStr`) | The SHA1 object: block, index, two length words, five words H, `Computed`, `Corrupted`. `Reset`, `Input`, `Result` | Any number of `Input` calls, a digest, more input, a reset | the digest of FIPS 180, the base64 of RFC 4648 |
| **Handshake texts** (`GetAnswerStr`) | none | The key is taken from a fixed distance behind its name, out of what `recv` returned of the request | one accepting answer to a whole request, never an answer to another key |
| **Server and console client** (`main.cpp` 124-300) | `CltInfo`, one heap object and one thread per connection, never given back; per client a stream each way | Accept loop, threads, clients, TCP. A late thread, a cut stream, a peer that leaves, a failing `accept`, a failing thread start, SIGPIPE | each thread serves its own client; answers in order; who waits is answered |
| **Libevent variant** (`main.cpp` 24-122, built with `_USE_LIBEVENT_`) | a bufferevent with an output buffer per connection, freed when its peer leaves | One thread runs the callbacks of the listener and of all connections. Fewer descriptors than clients, answers that wait in the output, peers that leave with requests unread | echoes in order through the output; everything is read and answered; who waits is accepted when another leaves |
| **MessageFormat.h** | | structures that nothing uses | not modelled |
| **Web page** (`html master/WebSocket.html`) | a connection | is a browser client of the server | part of the server's model |

### LeftSupport

| Component | State and operations | Interaction and what is hard | Correct when |
|---|---|---|---|
| **CopyScreem** (`LeftWindows.cpp` 301-349) | A static auto-reset event, a heap block per call, a thread per call that copies for ever | Callers at the same time, threads, and a desktop whose windows come, go and change places between any two calls of the system | a thread works with its own arguments; a copy has the size of its source; calls return |
| **Window class and list** (12-127) | An object's class (name and atom), and a doubly linked list of its windows with a node at each end. Constructor, destructor, `reRegClass`, `CreateParentsWin` | Names are shared by all objects and other modules; the calls that give back or take a name may fail and nobody looks | one list, in order, from either end; atom, name and what is registered go together |
| **Drag loop** `ExSizeChange` (238-299) | The rectangle and the point that were grabbed, a flag for each button | Cursor, buttons and window are polled, each by a call of its own, while user and others change them; the system limits the size | a window follows the cursor, and settles under it |
| **WindowsInfo** (350-436) | the window it has found last and the name of a class | three calls of the system that speak of a window which may have gone in between | it reports the window that stays in front, and then is quiet |
| **Window messages** (437-1276) | none | print names of messages | not modelled |
| **GraphicsAlgorithm** (1277-1304) | none yet | | not modelled |
| **MyCodes of LeftSupport** | | system calls | not modelled |

### LeftComSupt

| Component | State and operations | Interaction and what is hard | Correct when |
|---|---|---|---|
| **Serial port through termios** (`mserial_port_lx.c`, `MoxaSerialPort_Linux.cpp`) | The port's `termios`. `mxsp_open`, setters and getters of rate, parity, data and stop bits, `left_SP_ioctl` | Each setter rewrites some bits of a word that something else left; each driver call may fail | what is set is read back, nothing else changes, wherever it fails |
| **Serial port through a file** (`SPofOpenFile.cpp`) | the same port. `set_speed`, `set_Parity`, `ComInit` | `set_speed` may write attributes it has not read | `ComInit` reads from an 8/N/1 port only |
| **Serial port on Windows** | constants for a library of which there are only binaries | | not modelled |

There are also older copies of `MyCodes` (before 1.3.2) under two `include`
directories, and vendored libraries. Of the copies the one difference in
behaviour is in `IniList` as a faulty variant: the head pointer of the caller
moves with each node of the list.

---

## 2. The modules

Each section says which TLA+ is which code. A *faulty variant* `MutX` stands
before the definition `X` it is a wrong version of, and no specification uses it.

### ThrSfeList, FifoQueue, ThrSfeListProofs

Memory is explicit: `live` is the set of allocated addresses, `last` and `next`
are the pointers of each cell, and a freed cell keeps its contents until it is
allocated again, so a dangling access reads what the program would read. One
step is one access to shared memory; an access that only its own thread can see
is merged into its neighbour. Memory is sequentially consistent: weaker orders
can only make the race that `list_race_dangling` shows worse.

| Action | Code (`MyCodes.cpp`) |
|---|---|
| `AddBegin` | `new ThrSfeList(...)`: the allocation, and the copy of the lock made for the parameter |
| `AddConstruct` | the constructor up to its first write to another node; it blocks when the copied mutex was locked |
| `AddLinkLast`, `AddLinkNext` | `Last->Next = this`, `Next->Last = this` |
| `GetLastTest` | the guards of `GetLast` and `rt = Last->len`, without the lock |
| `GetLastLock`, `GetLastCopy` | `lock`, `memcpy`, `unlock` |
| `DeleteUnlinkLast`, `DeleteUnlinkNext` | the destructor and `delete Last`, behind the unlock |
| `GetBufLock`, `GetBufUnlock` | `GetBuf` of the head |

`item` numbers the calls of `Add`, so an item is its own order of arrival.
`FifoQueue` is what a user relies on: `Put`, `Take`, and an oversize item that
stays in front of everything behind it (`GetLast` returns 0 and leaves it).

The list is not safe as it is used (finding 1), so the properties are stated for
a restricted use: in `ApartSpec` there is one `Add` at a time and no `GetLast`
unlinks the node that an `Add` links to; they may overlap otherwise, also so that
an `Add` copies a lock that is held and hangs (finding 4). `FairApartSpec` adds
that threads are scheduled.

Left out: null buffers, a failing `new`, and the destruction of the whole list,
which is global and lives as long as `main`.

### WebSocketFrame, Handshake, Sha1, Sha1Block, Base64, Hex, Orders, IniList, MCCodecs, CodecsProofs, TextsProofs

The pure parts of the projects, and three small state machines.

* `WebSocketFrame`: `FrameHead` and `LastWrite` are `PackageAddHead`;
  `PayloadLen`, `PayloadOff`, `Accepts`, `KeyRead`, `Unmasked` are `ReadPacket`
  with `DecipheringStr`; `ReplyLen` and `Sent` are what `OneConn` makes of an
  answer (`sprintf`, then `snprintf` and `strlen`). A frame is its head's bytes
  and the length of its payload. `RfcHead` is the reference.
* `Handshake`: `GetAnswerStr`. A request is what stands in front of the name
  `Sec-WebSocket-Key`, the name with its colon, some spaces, the key and the
  rest, and any part of it from the beginning may have arrived. `AskKey` takes
  the 24 characters that the code takes.
* `Sha1`: the object. `Input` begins a call and `InputByte` is one pass of its
  loop; `Reset` and `Result` (with `PadMessage`) are one step each. The words H
  depend only on the blocks `ProcessMessageBlock` was given, so the model keeps
  the blocks in `hashed`. The sizes of the two length words are constants.
* `Sha1Block`: `ProcessMessageBlock`, a word as the set of its one bits. It ties
  the blocks to the published answer of RFC 6455.
* `Base64`, `Hex`: both directions, with the reference definitions.
* `Orders`: `Written` writes a text, `AddSign` puts it in form, `GetNextOrder`
  takes one order. The caller's buffer is large enough for any order.
* `IniList`: `AnalysisIniFile` opens the file and makes the head, `ReadPair`,
  `ReadPlain` and `ReadEnds` are the passes of its loop, then `GetIniInfo` and
  `DelIniInfoList`. Nodes are addresses, so a leak or a double free shows. A
  value is told by its length, which is what `GetIniInfo` compares; a caller
  frees the list before it reads the next file, as in `main.cpp`. Keys and values
  are formats of `snprintf` (169, 170, and the value once more in 193), so a text
  has a run of `%` behind it: of two, one is copied, and a last one alone begins
  a conversion. What that makes of the text is anything the buffer holds
  (`Printed`, `Stored`), or the end of the program (`ReadCrashes`, `GetCrashes`).

`MCCodecs` runs them side by side without letting them mix: `part` is chosen at
the beginning, and each behaviour is of one part.

### WebSocketServer, WebSocketStream, EchoService, StreamEcho, WebSocketServerProofs

`WebSocketStream` extends `WebSocketFrame` and is extended by both builds of the
server: the pieces of a stream and the answers to a handshake. Which answer a
text gets is decided by `Sent` and `RfcHead`, by its length.

| Action | Code (`main.cpp`) |
|---|---|
| `Accept` | `accept` and `new ClientInfo` |
| `StartThread` | `CURRENCY_StartThread`, whose result nobody looks at |
| `AcceptFails` | `accept` fails (no descriptor left, or a peer gone from the backlog): the loop breaks and the program ends |
| `CopyInfo` | `CltInfo = *(pClientInfo)pCltIf` at the beginning of `OneConn` |
| `Recv` | `recv` of any part of what has arrived; nothing, or a peer that has closed, means another round, as the `break` is commented out |
| `Reply` | `socket_read_cb` and `send`; to a peer that has gone it is lost, and the second time SIGPIPE may end the program |
| `ReplyCrashes` | a conversion in what `snprintf` takes for its format (141, 154, 165) ends the program |
| `Connect`, `Send`, `SendEmpty`, `Receive`, `ReceiveEnd`, `Leave` | `client()` and a browser |

The stream of a client is made of *pieces*, three to a request, cut where the
server's behaviour changes: a frame is its head with the key, its text, and the
last bytes; the handshake is what comes before the name of the key, the name with all
or part of the key, and the rest. `Answers(rs, from, to)` is the set of answers
that pieces `from..to` can get.

The packet is a format of `snprintf` (141), and so is the answer (154, 165). A
request is *clean* when no byte of it is an end of string or a conversion there.
What an unclean one gets is nondeterministic, as it depends on bytes that the model
does not have: another answer, or, by a conversion that has no argument, the end
of the program. Bytes of a frame without its start are unmasked with some of
themselves and may make a conversion whatever they were (`MayConvert`). What such a
conversion writes elsewhere in memory is counted as the end. The answers' own
bytes are no conversions: the refusals have no `%`, base64 has none, and a length
byte of 0x25 (replies of 293, 549, 805 bytes) has the `R` of `Recv` behind it, which
converts nothing; glibc leaves such a pair as it is.

`EchoService` promises a client one answer to each request, the right one, in
order. The server does so only on a network that keeps requests apart
(`GentleSpec`). What remains on a real stream is `StreamEcho`, the promise of both
builds on any network: an answer is a refusal, which belongs to no request, or the
one a request deserves, and then a later request than any answered so far; each
piece that was sent has one answer at most; and who leaves may lose the last
answers, nobody else any. Here `ans` is what it calls `answered`.

Left out: `socket`, `bind` and `listen` that fail (212-236, before there is any
state), requests cut into more than three pieces, texts outside 9..973 bytes (a
shorter one has no three such pieces, the reply to a longer one does not fit
`RtMsg`), and a `send` that blocks.

### LibeventServer, StreamEcho, LibeventServerProofs

| Action | Code (`main.cpp`) |
|---|---|
| `Accept`, `AcceptAborted` | `listener_cb`, and the listener's own `accept` when the peer has gone; without a descriptor it fails and is tried again |
| `Read` | `socket_read_cb`: all that has arrived is one packet, its answer goes into the output |
| `Flush` | libevent writes an answer of the output; to a peer that has gone it is lost, and the second time SIGPIPE may end the program |
| `Free` | `socket_event_cb`: `bufferevent_free`, which closes the descriptor and drops the output |
| `Connect`, `Send`, `Leave` | a browser |

The callbacks run one at a time, so each is one step. This build gives the length
of a packet on and uses none as a format, so no request is unclean. libevent is
modelled by how `main.cpp` uses it; the output is written an answer at a time. One
callback reads at most 4095 bytes (41); all the requests of the run are fewer.

It implements `StreamEcho` too. To a client that stays, what is in the output is
as good as answered, `ans \o out`: so `Read` is the service's answer, `Flush` is
nothing, and `Leave` is where the answers still in the output are lost.

### ScreenCopy, ScreenCopyProofs

| Action | Code (`LeftWindows.cpp`) |
|---|---|
| `Call`, `Wait`, `Fill`, `Create`, `CreateFails` | the public `CopyScreem`: `WaitForSingleObject` (304), the block (305-309), `CreateThread` (310) |
| `ReadArgs`, `FreeArgs`, `Signal` | the thread: copy of the block, `delete`, `SetEvent` (323-328) |
| `OpenSource`, `SizeSource` | `GetDC` and `GetWindowRect` before the loop |
| `Look`, `Switch`, `Measure`, `Blit` | the loop (334-347) |
| `Activate`, `Destroy` | the desktop, between any two of them |

A device context and a rectangle are modelled by the window they came from, so
"the size of another window" can be told from the right one. `GetWindowRect` of a
destroyed window leaves the rectangle alone, `Unset` is one nobody has written.
Blocks are addresses that later calls use again. Windows are not resized, a
handle is not used again, and `GetDC` of a living window succeeds.

### Termios, SerialPort, SerialPortProofs

`Termios` is the data: a `c_cflag` is the number in its `CBAUD` bits and the set of
its other bits; `SetParity`, `SetDatabits`, ... are what the setters write, and
`GetParity`, ... what the getters read. `SerialPort` is the calls. `left_SP_ioctl`
is one action per setting, each of which may fail; `mxsp_open` is `Open` and
`OpenSets`, with `ret = -1` (ghost) for the `tcsetattr` whose failure it does not
look at; `ComInit` is `ComInit`, `ComSpeed`, `ComParity`, ending in `reading` or
`exited`. An uninitialised `termios` is any of `Found`. Nobody else sets the port,
so reading the attributes and writing them back is one step. Input and local
flags, `VTIME`, break, flow control, `read` and `write` go straight to the driver
and are left out.

### DragLoop, WindowsInfo, ParentsWins, MCDesktop, DesktopProofs

`DragLoop` has one action for each call of the system in `ExSizeChange`: `Top`
(`GetForegroundWindow`), `Test` (`GetAsyncKeyState`), `GrabRect`, `GrabPoint` and
`Grab` (`GetWindowRect`, `GetCursorPos`, `ScreenToClient` and the test of the
point), `ReadCursor`, `Shift`, and `Move` or `Resize` (`SetWindowPos`).
`MoveCursor`, `Button`, `Activate` and `Nudge` are the user and others, between any
two of them. One axis is modelled. Both are treated alike and in the same steps;
what the other does to the tests of both is a choice. The ghosts `left0`, `width0`,
`grabbed`, `seen` remember the grab.

`WindowsInfo` is `Look`, `GetClassName`, `Find` and `PrintStyles`, with windows that
open, come to the front and close. `ParentsWins` is `Construct`, `Destruct`,
`ReRegClass` and `CreateParentsWin` with `CloseWindow` of the user;
`RegisterClassEx` and `Unregistered` are the two calls of the system with their
failures. An atom is modelled by the name it stands for, the two nodes at the
ends of the list by two constants. The lists of children are never used.

`MCDesktop` runs the three side by side, like `MCCodecs`: nothing but the system's
windows connects them in the code.

---

## 3. The runs

| Run | Checks | Bounds, and why they are enough |
|---|---|---|
| `list_apart` | `TypeOK`, `NoDanglingAccess`, `RingIntact`, `IsFifo`, `Delivery`: used apart, the list is a FIFO queue that delivers | 2 producers, 1 consumer, 1 reader, 3 addresses, 4 items, the last oversize: addresses are used again, the list empties and fills, an oversize item parks, a reader takes the lock again and again |
| `list_race_dangling` (violation) | `NoDanglingAccess` for one producer and the consumer without restriction | finding 1 |
| `list_add_hangs` (violation) | `AddReturns` for one producer and the consumer, apart | finding 4 |
| `codecs` | frames: `HeadIsRfcInv`, `ReadsRfcInv`, `ReplyFitsInv`; base64 and hex: `RoundTripsInv`; handshake: `AcceptsKeyInv`; SHA1: `StreamKept`, `DigestOfPadded`, `ResultWhole`, `KnownAnswer`; `OrdersWhole`; ini: `GetAnswersFile`, `AllListed` | lengths 0..65600 are all of the 7- and 16-bit forms and some beyond; base64 of 0..4 bytes with every pair of first bytes has every remainder of three, alone and behind a full group; handshakes have 0 to 2 characters in front and 0 to 3 behind, 0 to 3 spaces, and are cut at each character; SHA1 is fed the text of a handshake in calls of 0, 1 and 3 octets (`operator<<` calls `Input` with 1), so that the index goes through 64 both between two calls and inside one, and the digest is asked for at every index; its length words have 2^9 and 2 values, so that the whole length goes through zero at 128 octets; it is reset once, empty, behind 60 octets, behind a full block with a high word, or when the length has overflowed; texts of up to 7 characters of 3 hold three orders with signs in front, behind and doubled; files of up to 2 lines have a key twice, or behind a line without `=` or one that is too long, and keys and values with none, one or two `%`, where a conversion and an escape differ; buffers are too short, just long enough and longer |
| `ws_frame_sends` (violation) | `SendsBelow64KInv` | finding 2 |
| `server_shared` | `TypeOK`, `OneThreadPerSocket`, `ImplementsStreamEcho` | a browser and a console client, as many as can share `CltInfo`; 2 descriptors, so the server gets full; 2 requests of the browser and one line, cut anywhere, clean or not, so that conversions may end the server: a chunk can hold the end of one request and the beginning of the next |
| `server_gentle` | `LinesPaired`, `ImplementsEcho`, `Answered` | a console client and a browser with texts of 50 (echoed), 100 (echo cut), 200 (refused) bytes: one of each answer; 3 requests each, so that an answer too many would meet a later line; threads that cannot be started, and a server that ends |
| `server_libevent` | `TypeOK`, `ImplementsStreamEcho`, `Drained`, `Taken` | 2 browsers and 1 descriptor, so one waits for the other to leave; 3 and 2 requests, so that two answers can be in the output while a third request arrives |
| `screen_copy` | `OneHandOver`, `OwnArguments`, `SourceFits`, `CallsReturn`, `Follows` | 2 callers, 2 threads, 1 block, 3 windows, one of them a source, one a target and one foreign: two calls at once, the block used again. `CreateThread` may fail. No symmetry, as there is liveness |
| `serial_port` | `PrefixApplied`, `LineApplied`, `HandedOver8N1` | rates below and above `B38400` and one that is in no table, each parity and one more, words of 5 and of 7 bits, one of them no size for `set_Parity`, 1, 2 and 3 stop bits, six ports to begin with |
| `serial_stopbits` (violation) | `StopbitsRead` | finding 3 |
| `desktop` | `DragFollows`, `Settles`; `Reports`; `ListWhole`, `ClassKept` | 3 places of the cursor, a window of width 2 that may be 1 to 3 wide, so a drag goes past both limits and back; others change it once. 3 windows, two of one class and one of another: the window found may be another than the one in front, or gone. 2 objects with 3 windows each, 3 names, one of them taken: a list of none, one, and more; a class given up with and without windows |

Deadlock is checked where the system cannot stop: the list's consumer polls, a
server's clients can always leave until all have left and its loops go on.
It is off where calls are bounded or end for good: the codecs' parts come to an
end, the server ends when it is full, the threads that can be created run out,
`ComInit` may exit the program, the libevent clients may all have left, and the last
windows be closed.

### What the properties say together

* **List.** Between `AddLinkLast` and `AddLinkNext`, and again between the two
  writes of the destructor, `Next` and `Last` disagree; that the ring is whole
  again depends on both. `IsFifo` needs `GetLast`, which tests one node without
  the lock and copies and deletes whichever is last later, to work on one node.
  `Delivery` holds although a reader may take the lock whenever it is free.
* **Frames and handshake.** `HeadIsRfcInv` and `ReadsRfcInv` compare with RFC 6455.
  `AcceptsKeyInv` says exactly which requests are accepted: whole up to the key,
  with one space behind the colon; another spacing, which HTTP allows, never is.
* **SHA1.** `StreamKept` ties index, blocks and octets together over any cut of
  the message into calls, `DigestOfPadded` the last blocks to FIPS 180, and
  `ResultWhole` the two flags to the history of the calls. `Reset` leaves the old
  octets in the block: all of this holds with any old octets there.
* **Server.** `OneThreadPerSocket` is about a thread that is scheduled after
  `CltInfo` has been assigned for the next client. `LinesPaired` says
  that `client()`, which takes anything `recv` returns for its answer, never
  takes one line's answer for another's; it needs the gentle network, and the
  server's restraint to one answer for each request. `ImplementsStreamEcho` needs no
  gentle network: it ties each answer to the request it is for, to all answers before
  it, and to what was sent, at each step of any thread.
* **Libevent server.** `ImplementsStreamEcho` goes through two buffers, the stream and
  the output. `Taken` is what `server()` does not do: a full server neither ends nor
  loses who waits, since the descriptor of a peer that leaves comes back, whatever
  was unread or unsent.
* **CopyScreem.** `OneHandOver` says who has the event at every moment,
  `SourceFits` that a copy from a living window has that window's size.
* **Serial port.** `PrefixApplied` is about a call that stops anywhere: what was
  made is made, and all else is as it was. Of 3 stop bits, which are to mean 1.5, it
  says nothing: the code sets 1 (below). A rate of no table has been given to the
  driver then; whether it is read back depends on what the driver marks in `c_cflag`,
  and `PrefixApplied` names the two rates it can be. `LineApplied` leaves out a port in
  mark or space parity, whose bit `set_Parity` does not know. `HandedOver8N1` is about both ways to a
  port that is read: whatever it was before, and whatever uninitialised attributes
  were written on the way, it is at 8/N/1 then. A `tcsetattr` of `mxsp_open` that fails
  is excepted, and flow control (290) is not in the model.
* **Drag loop.** `DragFollows` ties the window to what the cursor has done since the
  grab, over any number of rounds, and past the limits of the size and back;
  `Settles` says that a window which others have moved comes back under the cursor.
* **WindowsInfo.** `Reports` holds of a window alone of its class only. Of several,
  `FindWindow` may give another, and the thread prints for ever.
* **Class and list.** `ListWhole` needs the four pointers of `AppendParent`, where the
  old last node may be the head. `ClassKept` says which classes are registered: the
  object's, those of open windows, those given up with a window open, and those of
  destroyed objects. It is not what `LeftWindows.h` 59 promises (below).

### Fairness

Fairness is assumed only of what the code or the system beneath it must do.

* *List*: a thread that is in a call goes on (the scheduler), and the consumer
  polls for ever (the loop of `Thr2`). It gets the lock in the end although readers
  take it too (strong fairness of `GetLastLock`): that a mutex starves
  nobody for ever is assumed of the system, C++ does not promise it. Nothing makes
  a producer add.
* *Server*: `accept` returns when it can, each started thread is scheduled, and
  `recv` of a client returns what has arrived. Nobody must connect, send or leave.
* *Libevent server*: each round of `event_base_dispatch` serves every event that is
  pending: a waiting connection, data, a socket that takes output, an end of stream.
* *CopyScreem*: threads are scheduled and a waiting call is woken when the event
  is set. Weak fairness is enough for two callers, since each hand-over is of a
  call that returns and `Threads` bounds the calls. The desktop owes nothing.
* *Desktop*: the two threads are scheduled. Nobody must move a mouse or a window.

### Findings

1. **The list is not thread safe** (`MyCodes.cpp` 302, run `list_race_dangling`).
   `MyCodes.h` 170 says "Thread safe list class". `Add` has read `head.Next`; before
   it writes `Next->Last`, `GetLast` deletes that node.
2. **Texts below 0xFFFF bytes are cut** (`main.cpp` 194, run `ws_frame_sends`).
   The readme of CompleteConfidence (line 13) says that they can be sent. A frame
   with a zero byte in its length, 126..255 and each multiple of 256, ends there
   for `strlen`.
3. **`mxsp_get_stopbits` fails on every port it can read** (`mserial_port_lx.c` 209,
   run `serial_stopbits`): its test of `tcgetattr` is the opposite of the other
   getters'. Line 200 promises the stop bits.
4. **`Add` can hang** (`MyCodes.cpp` 267, run `list_add_hangs`), even when no two calls
   touch the same node: the constructor gets the head's lock by value, and a copy
   made while `GetLast` holds it stays locked. `MyCodes.h` 170 as above.

The models show other things that no text of the repository denies: a server
that ends after `MaxFds` connections, since none is closed (`StaysUp` says that on a
network that keeps clean requests apart this and a peer that leaves are the only
reasons; elsewhere a `%` of a client may end it too); an ini file with a `%` in a key
or value, which is not given back and may end the program (`ReadCrashes`,
`GetCrashes`); an empty line that leaves `client()` and the server waiting for each other; a
`CreateThread` that fails and with it every later call of `CopyScreem`
(`OneHandOver`); odd parity that becomes mark parity (`LineApplied`); a handshake
with no space, or two, in front of the key that is never accepted (`AcceptsKey`); the
class of a destroyed object that stays registered (`ClassKept`).

Two promises are broken in ways no run shows, for they can be read off the code in
one place, and the properties do not cover them:

* `LeftWindows.h` 59 says that `reRegClass` unregisters the class before and registers
  a new one. It calls `UnregisterClass` and `RegisterClassEx` without a look at their
  results (`LeftWindows.cpp` 91-94) and returns true: with a window of the class open
  the former class stays, and with the new name taken there is no class at all, so
  that `CreateParentsWin` creates nothing more. `ReRegClass` does just that, and
  `ClassKept` says what is left, not what is promised.
* `mserial_port_lx.c` 176 says that `mxsp_set_stopbits` takes 3 for 1.5 stop bits, and
  200 that `mxsp_get_stopbits` gives 3 for them. The code takes every number but 2 for
  1 (188-191), without an error, and never reads 3. `SetStopbits` and `Stopbits` do
  the same; `PrefixApplied` speaks of 1 and 2 only.

---

## 4. The proofs

Each of the eight proof modules extends the module it is about; `CodecsProofs`,
`TextsProofs` and `DesktopProofs` extend the modules in which several small parts run
side by side, so that what they state is what the runs check. All proofs are
checked to the last leaf. Assumptions are those named in the modules: sorts are
disjoint, bounds are numbers, a length word has a whole number of octets, a key of
an ini file is no word for a line without a key (`IniAssumption`), and "no name" is no
name (`ClassAssumption`). Where a bound occurs it is any number, so it bounds nothing.

**ThrSfeListProofs**, of `ApartSpec`, any number of threads, addresses and items.
`NoDanglingAccess` and `RingIntact` are not inductive: they say nothing of a ring
in the middle of a call. `ApartInv` adds that the items from the oldest to the
newest number the nodes of the list without a gap, and that `Last` leads from each
to the one after it and `Next` to the one before it, except on the one side that
the call in progress has not reached. Then each pointer is known by arithmetic on
items and no induction along the ring is needed. From it: `ApartTyped`,
`ApartMemorySafe`, `ApartRingIntact`, and `ApartFifo`, where each step is matched
with a `Put`, a `Take` or a stutter.

**WebSocketServerProofs**, of `Spec`, any number of clients and connections.
`IInv` is `TypeOK`, `HandOver` (thread `k` was started with object `k`, which holds its
own client from `Accept` on), `Stream` (what a thread holds was the last to be
received, and answers lie in front of it) and `EchoesInOrder`. `HandOver` is what a
late thread needs; without `Stream` an answer could be ahead of the stream. From
it: `Typed`, `SocketsApart`, `EchoOrder` (the order for any two answers, which
`StreamEcho` says of the newest). `NoOtherEnd` is about `GentleSpec`, where nothing a
client sends is a conversion. `ThreadsServeStreams` is the refinement
of `StreamEcho`. It needs `Counted`: every answer has taken a piece of the stream, and
what a thread holds begins behind that many; so there is a piece for each answer.
`AnswersRight` says, of any cut, that a chunk gets a refusal or the right answer to the
request it begins in, and `Stream` that this one is later. For `GentleSpec`, `Exact` is added:
received and answered differ by the request in hand. `GentleEcho` is the
refinement of `EchoService`. `Lines` needs `Paired` on top: a client in `recv` has had
all its answers but at most one, and `Exact` bounds the answers by the requests.

**LibeventServerProofs**, of `Spec`, any number of clients, descriptors and requests.
`IInv` is the types, with never more bufferevents than descriptors, and the order of
what has been read, what is in the output and what has left it. From it: `Typed`
and `EchoOrder`. `ServesStreams` is the refinement of `StreamEcho`, with `Bounded` (the
answers written and in the output are no more than the pieces read). `GivenRead`,
`GivenFlush` and `GivenLeave` are what the three steps do to `ans \o out`: put an answer
behind it, leave it as it is, and cut it down to `ans`.

**DesktopProofs**. *Drag loop*, of `Spec`, any screen, border, limits and number of
nudges. `DragFollows` speaks of the loop at rest. `Held` says what the window, `rect`
and the two points have to do with each other at each place of a round: `rect` is
what the thread wants (`Wanted`), which beyond a limit is not what the window is
(`Placed`). From it: `Typed`, `Followed`. *Class and list*, of `DesktopSpec`, any names,
any of them taken by others, any number of windows. `ListWhole` follows the chain
only; `Linked` numbers the nodes as they were made, so the neighbours of each are known
by arithmetic, and says that the ends lead nowhere else, which `AppendParent` needs
when the list is empty. `Kept` adds to `ClassKept` what names there are. From
`ClassInvariant`: `ListAlwaysWhole`, `ClassAlwaysKept`.

**ScreenCopyProofs**, of `Spec`, any numbers, whether `CreateThread` fails or not.
`IInv` joins the types and three properties with `BlockFilled` (a caller about to
create its thread has its arguments in its block) and `SourceKnown` (what the
thread knows of its source at each place of its loop). `OneHandOver` is what makes
`OwnArguments` inductive: nobody else writes to a block between `Fill` and `ReadArgs`.

**CodecsProofs**. *Frames*: by arithmetic, for every length, where TLC sweeps to 65600
only. `CutByStrlenAll` says exactly which frames `strlen` cuts. *Base64 and hex*, for
sequences of bytes of any length. Both directions are written here group by group, so
no induction is needed: `Encoded` and `DigitsFit` say which three bytes four digits are
made of, `DecodesBackAll` that they come back. `EncodesRfcAll` compares with RFC 4648, where
a digit is six of the bits of the whole text: `BitOf` and `ByteOfBits` turn division and
remainder by powers of two into those bits. *SHA1*, of `Spec`, any messages, cuts and
sizes of the length words, so in particular the real 2^32. `HashInv` is `TypeOK`,
`StreamKept`, `DigestOfPadded` and `Counted` (the two words are the length of the message
until it cannot be counted, and the object that has refused octets remembers it).
`Counted` is needed for both the padding, which writes the words where the standard
writes the length, and for `ResultWhole`. The theorems that end in `Swept` say the same of
`CodecsSpec`, whatever its bounds.

**TextsProofs**, of `CodecsSpec`.
*Handshake*: `AcceptsKeyAll` is about any number of characters in front and behind, any
spaces and any cut. `RequestIs` says at which places of a request the key stands, and
that nothing else in it is a piece of a key; so the 24 characters that are taken are the
key only if they are taken from its first place.
*Ini files* of any number of lines, any keys and values, with or without a `%`. `AnswersFile`
gives the answer exactly for values without one; a line whose key holds a conversion may
stand for any key. `AllListed` says that `Walk`,
which follows the pointers, meets the nodes that are alive; it is not inductive, as it
does not say where a new node is hung. `IniInv` does (`IsListOf`): node `i + 1` comes
behind node `i` and has the pair of line `pos[i]`, with `pos` growing, and every line read
without a place in `pos` has no pair. So `Walk` has a closed form (`WalkIs`), and the first
node with a key is that of the first line that was copied to it, for `GetAnswersFile`. There, and in the
walk, an argument by the least counterexample (`Least`, from well-foundedness) takes the
place of an induction over data.
*Orders* in texts of any length over any characters. `OrdersWhole` counts orders that have
been taken; `OrdersInv` says where the caller's pointer is meanwhile: at a sign of the
text in form, with as many orders starting in front of it as have been handed over.
`AddSign` moves every character, so the invariant has to say where to: `Count` counts the
characters kept up to a place, `CountNext`, `CountRun` and `CountLess` are what it does over a
gap, a run and any distance, and `PointerMoves` is one call of `getNextOrder`.

**SerialPortProofs**, of `Spec`, any arguments and any port; what is claimed of the arguments
is what `PrefixApplied` speaks of, any rate and parity, words of 5 to 8 bits and 1 or 2 stop
bits. The lemmas say that each setter is read back by its getter and leaves what every
other getter reads; the properties and the types are inductive together by them, with
`Begun` (before its first setting a call has changed nothing), which the rate that a
driver did not mark needs.

Only model-checked: everything with fairness (`Delivery`, `Answered`, `Drained`, `Taken`,
`CallsReturn`, `Follows`, `Settles`, `Reports`), as liveness and `ENABLED` are beyond the
prover; and `KnownAnswer`, which is one long computation, eighty rounds of `Pass` by a fold,
on words of 32 bits. What SHA1's `ProcessMessageBlock` makes of an arbitrary block has no
reference to compare with but the code itself. All other properties of the passing runs
are theorems.

---

## 5. Not modelled, and why

* Windows messages, styles and help texts (`LeftWindows.cpp` 130-236 and 437-1276,
  `DEFINE_HELP.h`): tables of names in `switch` statements.
* `hash_`: its multiplication is in 64 bits, beyond TLC's integers.
* PCOMM, easylogging, libevent: not of this project. They are also most of the
  repository: of its 31454 lines of implementation easylogging (two copies) and the
  headers of libevent alone have more than half, the older copies of `MyCodes` and
  the tables above much of the rest. The four programs' own code is about 4200 lines.
* `GetNewHdc`, `PleaseExs`, the serial port on Windows, break, flow control, modem
  lines: each is a call of the system with no state of its own.
* Input and local flags of a serial port: `set_Parity` changes some of them behind
  `tcsetattr` (`SPofOpenFile.cpp` 134), so the port keeps what it had. The model has
  the control flags only.
* The text of the handshake's answer is constant.
* Time, logging, console output and error texts: no state.

## 6. Plan

Done, in this order: the list with its queue, the frames, the server with its
service, the copy of a window, the serial port, SHA1, base64, hex, orders and the
ini list; proofs of the first five and of SHA1; then the libevent server, the
handshake, the drag loop, `WindowsInfo` and the windows of an object; proofs of
the libevent server and the drag loop, and of `LinesPaired`; then base64, hex, the
handshake, the ini list, the orders, and the class and list of an object; last
`StreamEcho`, with both builds of the server as its refinements.

To come:

1. Two drag loops of one window: `PleaseExs` starts another thread each time it is
   asked, and both would move the window.
2. The local flags of a serial port.
