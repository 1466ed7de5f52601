# A verification project for doorbell_demo

TLA+ specifications of the voice doorbell, TLC instances that check them, and
TLAPS proofs. Paths are relative to the repository; line numbers are those of the
commit the specifications were written from. `PROJECT.json` maps every
definition to its lines and lists the runs, hazards, mutants and theorems.

## 1. The system

An ESP32-S3 terminal makes WebRTC voice calls to a browser over a 4G modem:

    console, key, data channel
          |
    main/webrtc_mqtt.c (call states, timeout)     browser page (index.html)
          |                                              | WebSocket
    esp_webrtc (peer connection, streams)          audio_server (Java bridge)
      |            |                                     | MQTT
    av_render    mqtt_signaling.cpp  -- 4G modem --  MQTT broker
    (player)     (pending offer)        (esp-ml307)
      |
    data_queue, msg_q (media_lib_sal)

### Inventory

| Component | State | Operations | Interacts through | What is hard | Correct when |
|---|---|---|---|---|---|
| **data_queue** (`media_lib_sal/port/data_queue.c`) | ring of bytes with `rp`, `wp`, `fill_end`, `filled`; `user`, `quit`; event bits; two mutexes | get/send buffer, read_lock/unlock, peek_unlock, consume_all, wakeup, query | every media task; buffer addresses handed out across calls | a reservation and a read outlive the lock; bit waits with a separate clear; wrap-around | blocks are neither lost, split nor overlapped; nobody sleeps while there is work |
| **msg_q** (`media_lib_sal/port/msg_q.c`) | array ring, `user`, `quit`, one mutex, one condition | send, recv, destroy | player threads' control messages | senders and receivers sleep on the same condition | FIFO; full queues drain; destruction waits for those that wait |
| **av_render** (`av_render/src/av_render.c`) | per thread: resources, handle, `paused`, queues; event bits; `api_lock` | add_stream, add_data, pause, resume, flush, reset | messages to the threads, blocks between them, bits back | threads end and are re-created while calls wait for them; sync and async rendering; frame buffers of the display | flush leaves nothing old; reset frees nothing used; calls return; frames play once and in order |
| **decoders and renders** (`audio_resample.c`, `video_render.c`, `lcd_render.c`, …) | work buffers, the two frame buffers, owners of a renderer | convert, open, write, clear, free | player threads; an interrupt | a failure in the middle; the panel still draws | output format; the picture drawn last is not filled over |
| **esp_webrtc** (`esp_webrtc/src/esp_webrtc.c`) | `pc`, event group, `running`, `pause`, `send_going`, connection flags | enable, disable, signaling callbacks, main loop callbacks | three tasks without a lock, one event group | the same function (`stop_stream`) runs in several tasks | a BYE works alone and returns; no frame is left out of the capture |
| **apprtc and WHIP signaling** (`impl/apprtc_signal`, `impl/whip_signal`) | room, WebSocket, timer of the servers; request and response | start, send, stop, callbacks | HTTP and WebSocket libraries, a renewing task | stop against the renewing task; redirects and pieces | freed when unused; the answer is of one response |
| **esp_peer** (`esp_peer/src/dtls_srtp.c`) | session, SRTP contexts, shared certificate, count of users | init, handshake, reset, deinit | a closed library | what is static outlives the session; role changes | keys of the last handshake, shared parts alive |
| **mqtt signaling** (`main/mqtt_signaling.cpp`) | ICE data, pending offer, up to 10 pending candidates, webrtc handle | message handler, answer, reject, close, timeout | one task per message; callbacks into esp_webrtc | reordering; buffers freed across a 200 ms delay | what is copied to be answered is the newest offer, and not one turned down |
| **doorbell application** (`main/webrtc_mqtt.c`, `main.cpp`) | call state, timeout task handle, `webrtc` | ring, answer, reject, close, timeout, start, stop | console tasks, key thread, callbacks | timer deleted by others or firing late | a ring ends; no timeout after an answer |
| **audio_server sessions** (`WebSocketSessionManager`, `SignalingWebSocketHandler`) | maps session, device→session, session→device | connect, register, close, cleanup, send to device | container threads, cleaner, MQTT thread | sequences of map operations are not atomic | messages reach the registered page; closed sessions leave nothing |
| **audio_server bridge** (`MqttSignalingService`, `MqttConfig`) | call table, two MQTT clients | dispatch by type, forward, publish | MQTT ↔ sessions | one inbound thread, many handlers; connections drop | order of each sender kept; publishing comes back |
| **AT engine** (`esp-ml307/src/at_uart.cc`, `at_modem.cc`) | receive buffer, event bits, callback list, mutexes; registration | SendCommand, receive loop, URC dispatch, WaitForNetworkReady | all modem clients | late answers; callbacks under the mutex | an OK belongs to its command; Ready is fresh |
| **ML307 sockets and clients** (`ml307/*.cc`, `main/ml307_udp_socket.cc`) | `connected_`, `instance_active_`, bits, packets | connect, send, disconnect, publish, open, read | URCs set bits that callers wait for | timeouts against late URCs; lost lines | success means connected or sent; packets in order; bodies without a gap |
| **other modems** (`ec801e/*`, `esp/*`) | the same | the same | URCs; tasks of libraries | an earlier connection's bits and tasks | the same |
| **HTTP and WebSocket clients** (`http_client.cc`, `web_socket.cc`) | chunk queue with a bound, parser state, keep-alive; fragments | open, read, write, close | TCP callbacks against readers | streams cut anywhere; leftovers | all bytes once and in order; messages whole |
| **OTA** (`main/otaupgrade.cpp`) | in-progress flag, partition handle, sizes | start, URC-driven writes, end | message task, modem | partial downloads; the two seconds before the restart | only complete images are booted |
| 4G network (`network_4g.cpp`) | modem, `net` state | start-up, recovery | modem, signaling | restart against join | part of the doorbell |
| board and Wi-Fi, media_lib_sal adapters, webrtc_utils, browser page | – | – | – | see section 6 | not modelled |

## 2. Modules and the code

| Module | Models | What a reader should know |
|---|---|---|
| `BlockFifo` | `data_queue.h`'s promise | abstract bounded FIFO: put a block at the end, take the first; a flush takes one after the other |
| `DataQueue`, `DataQueueFifo` | `data_queue.c` | the ring in detail, and its mapping to `BlockFifo` |
| `MsgQueue` | `msg_q.c` | bounded queue of messages on one condition variable |
| `Queue_proofs` | | the proofs about both queues and their run: layout and reservations of the ring; both implement `BlockFifo` |
| `AvRender`, `AvRemade`, `AvRender_proofs` | `av_render.c`, audio half | decoder and render threads, API calls, event bits; its queues are the FIFOs of the two modules above; `AvRemade` adds the history variable `remade` |
| `AudioPlay` | `av_render.c`, `audio_decoder.c`, `audio_render.c` | what becomes of each audio frame in every arrangement of threads |
| `VideoPlay` | `av_render.c`, `video_decoder.c` | the video path, with frame buffers and flush |
| `Resample` | `audio_resample.c` | the chain of conversions and its work buffers |
| `LcdRender` | `video_render.c`, `lcd_render.c` | owners of a renderer, the two buffers, what the panel was last given and has still to say |
| `EspWebrtc`, `EspWebrtc_proofs` | `esp_webrtc.c` | enable/disable, signaling callbacks, `pc_task`, the senders |
| `MediaFlow` | `esp_webrtc.c` | the frames, capture and player across connections |
| `DtlsSrtp` | `dtls_srtp.c` | sessions, keys, what sessions share |
| `Whip` | `whip_signaling.c`, `https_client.c` | requests, redirects, responses in pieces |
| `AppRtc` | `signal_default.c` | room, WebSocket, renewing task |
| `Doorbell`, `Doorbell_proofs` | `webrtc_mqtt.c`, `mqtt_signaling.cpp`, `network_4g.cpp` | composition of the application and its signaling: commands, messages, timer, network |
| `SessionManager`, `SessionManager_proofs` | the server's sessions | handlers, cleaner, MQTT thread; the proofs, those of `Bridge` included |
| `Bridge` | the server's bridge | inbound thread, pages' handlers, both MQTT clients |
| `AtUart` | `at_uart.cc` | commands, receive task, callbacks |
| `AtNetwork` | `at_modem.cc`, `ml307_at_modem.cc` | registration, PIN, PDP |
| `Ml307Tcp`, `UdpSocket`, `Ml307Mqtt`, `Ml307Http` | `ml307/*.cc`, `ml307_udp_socket.cc` | the clients of the ML307 |
| `Ec801eSocket`, `Ec801eMqtt` | `ec801e/*.cc` | TCP, SSL and UDP as one module of three kinds; MQTT |
| `EspSocket`, `EspMqtt` | `esp/*.cc` | the same over ESP-IDF |
| `HttpClient`, `WebSocket` | `http_client.cc`, `web_socket.cc` | parsers, buffer, kept connections, fragments; what a WebSocket sends is left out |
| `Ota` | `otaupgrade.cpp` | from the message to the boot partition and the restart |
| `MCDataQueue`, `MCAvRender`, `MCWebrtc`, `MCSessionManager`, `MCModem`, `MCDoorbell` | | what TLC needs |
| `Webrtc_proofs` | | the proofs about the parts of `MCWebrtc`, a section for each, and about its run |
| `Streams_proofs`, `Modem_proofs` | | the same for `MCModem`: the two parsers of streams, then the other parts and the run |

The MC modules put modules that answer one question side by side. The variable
`on` is chosen in the initial state and never changes; only the part it names
moves, so that the states of the parts add up instead of multiplying. Parts that
really share state are composed in one module instead: `Doorbell` composes
application, signaling and network; `EspWebrtc` three tasks; `AvRender` takes the
queues as the FIFOs `DataQueue` refines. Where a part calls another, the other is
a choice of its environment: `Ml307Tcp` and its kind take a command of `AtUart` as
one step that the modem obeys or not and answers or not; `Bridge` takes the
sessions of `SessionManager` as bound or not; `AvRender` leaves open what
`AudioPlay` decodes.

**DataQueue.** One action per critical section of `q->lock`: a call that waits is
*enter* (test or block on the bit), *clear* and *relock* after it, as
`_WAIT_BITS` expands. `lock` appears as state only for `consume_all`, whose loop
is modelled block by block. `mem` keeps the head written at each offset, so that
an operation that looks at a wrong offset reads garbage, as the program would.
`live` is auxiliary: where unconsumed blocks start. `halted` records a
`*(int*)0 = 0`. `HeadSize` is one unit in the instances (four bytes in the code);
the proofs hold for every value.

**MsgQueue.** One mutex, so one action per stretch between lock and unlock or
condition wait; `pthread_cond_signal` wakes one sleeper chosen by TLC. `NULL`
arguments and `msg_q_reset`, which nothing in the repository calls, are left out.

**AvRender.** `op`/`at` is the API call under way; API calls exclude one another
by `api_lock`. Each thread has the program counter of `render_thread`: read a
message, handle it, read a block, decode or render it. A block is its kind and
whether it was in the pipeline when the current flush began. `AudioPlay` follows
each frame from the block to the device; `VideoPlay` each picture, in a
configuration (`vcfg`) of synchronous or asynchronous decoding and rendering, with
or without buffers of the display.

**EspWebrtc, MediaFlow.** One action per access to a flag that another task may
change. `at` gives the place of the application task, of the signaling task and of
`pc_task`. `Free` lets one call or one message start at a time: the runs do not
mix a console call with a message being handled. `media_send_task` is a count in
`EspWebrtc` and has its own steps in `MediaFlow`.

**Doorbell.** `sg` is `mqtt_sig_t`, `rtc` what of `webrtc_t` the application can
see, `state` the `door_bell_state`, `timer` the instances of the timeout task and
`handle` their global. A message waits in `inbox`, a set, since every message has a
task of its own and their order is free. `then` is where a task goes on after
`stop_call_timeout`, which three tasks call. `pending_sdp` has no lock: whoever frees
it does so in one step (`FreePending`; `freed` is what the task found there) and writes
NULL or the next offer in another, and the answer reads it three times, with a copy
(`text`) in between. `sent`, `withdrawn`, `newest`, `answered` and `taken` are auxiliary.

**SessionManager, Bridge.** One action per operation on a `ConcurrentHashMap`. A
handler thread runs one event of its session at a time; `open` may turn false at
any moment. A page registers once per connection, as `index.html` does in `onopen`.

**The modem.** The receive task handles URCs in the order they come; a class has
the bits of its event group, its flags, and a place for the call under way. What
the modem does is external: it answers late, twice to none, and loses connections.

**Streams (`HttpClient`, `WebSocket`, `Whip`).** A stream is a sequence of tokens
(a line, a head, a byte, half a handshake) cut into packets anywhere; a parser sees
what a packet brings and what it has buffered.

## 3. Runs

The MC modules declare the bounds of a run as CONSTANTS; the `.cfg` files give
them their values. The theorems of section 4 hold for every value.

Pass:

| Run | Instance | What it shows |
|---|---|---|
| `queues` (`MCDataQueue`) | a ring of 4 units, requests of 1 to 3; two writers, reader and closer in one part, writer, reader and flusher in the other; `msg_q` of 2 slots with two senders, a receiver, a destroyer | `RingLayout`: the blocks tile the filled part at every wrap, full and empty boundary. `ReservationHolds`: the place and the room a writer was given are there when it sends. `AvailableIsHonest`. `BothImplementFifo`: both queues refine `BlockFifo`, the ring while another task flushes. `RingWriterServed`, `MsgQueueDrains`: no wake-up is lost. `MsgQueueNoWaiterFreed`: `msg_q_destroy` frees the queue under no task that waits in it (one that is still to signal is not counted, see section 5) |
| `player` (`MCAvRender`) | "ends": add, a second add, flush, reset over queues of two; "pauses": also pause and resume, over queues of one | `FreedUnlessRemade`, `FlushUnlessRemade` in both: a reset frees nothing that is used and a flush leaves nothing, until a reset sees the render thread it told to end made again; `EndingCallReturns`: without pauses every API call returns, up to the same event |
| `webrtc` (`MCWebrtc`) | the peer connection as `webrtc_mqtt.c` sets it up and with automatic reconnection, and seven parts beside it | `ByeAlone`, `ByeReturnsAgain` (peer connection), `FramesReturned` (media), `AnswerOfOneResponse` (WHIP), `AliveWhileUsed` (AppRTC), `NothingStale` (video), `PlaysInOrder` (audio), `LeavesConverted` (resampling), `LastDrawnKept` (display), `KeysAsNegotiated`, `SharedAlive` (DTLS) |
| `sessions` (`MCSessionManager`) | two connections, two identifiers, cleaner, MQTT thread; a bridge of one device and one page | `GoneForgotten`: no orphan entries. `SoleOwnerReachable`, `DeliveredToRegistrant`. `OrderKept`: what one sender sends arrives once and in order |
| `doorbell` (`MCDoorbell`) | two offers, two timers, four inputs of any kind | `WithdrawnNotCopied`, `NewestCopied`: what the answer reads after its delay, while other tasks free, clear and store offers. `RingEnds`: a ring does not last for ever unless another task takes its timer away |
| `modem` (`MCModem`) | thirteen parts, one per class | `OkIsOwn`, `CommandReturns` (AT engine), `ReadyIsFresh` (registration), `ConfirmedOnce`, `AckedOnce` (sends), `HandedInOrder` (UDP), `ConnectIsFresh` (the three MQTT classes), `BodyWithoutGap` (HTTP of the modem), `GroupOutlivesTask` (ESP-IDF sockets), `BodyInOrder` (HTTP), `MessagesWhole` (WebSocket), `BootsWhole` (upgrade) |

Violation (each a disagreement with the line quoted in its finding):

| Run | What TLC finds |
|---|---|
| `player_freed` | after a stream was added over a stream, `av_render_reset`'s second round skips a render thread made again during the first and frees what it uses |
| `webrtc_stop` | two tasks in `stop_stream` wait for one bit, and disable does not return |
| `doorbell_timeout` | a ring that was answered still sends a timeout: nothing stops the timer |
| `http_chunks` | a chunk whose CRLF comes with the next packet ends the body |
| `udp_remote` | two connections of the map share a socket of the modem, and a packet goes to the other's remote |
| `publisher_lost` | the server's publishing client stays down after one drop |

### Bounds

- Ring of 4 units: with heads it holds two blocks, or one and a gap, so every case
  of `fill_end` (none, at the end, rewound) occurs; the request of 3 fills the ring
  exactly.
- `MaxUser`: no flush starts above this `user` count. A flush during a read makes
  the later `read_unlock` leave `user` raised, so the count would grow for ever.
- `MaxDying`: exits of one thread that overlap. `MaxSenders = 2`: one more than
  the code means to have. `Frames`: frames per block; 0 (nothing decoded) and 2
  (output interrupted between frames) are among them.
- `msg_q`: as many senders as slots, the limit up to which wake-ups are not lost.
- Queues of one or two slots in the players: full and empty are both one step away.
- `Calls`, `AppOps`, `SigMsgs`, `PeerEvents`, `Commands`, `PageTypes` name the calls
  and events a run admits; where they are not all, the module says why.
- Doorbell: `MaxInputs = 4` calls and messages together. The races found take
  three (offer, answer, and the one that interferes); the timer, the peer and the
  network add steps of their own. `MaxPending = 1` stands for the ten candidates:
  what matters is the one that no longer fits. Two timers: one that is still
  there when the next ring starts.
- Modem: two or three calls, one or two losses and reports, so that an answer of
  one call can be late for the next; three clients or connections of one object,
  so that one is neither first nor last. Bodies of three lines, of which two may
  be lost or come without their data; an HTTP buffer of two bytes against bodies of
  two (`BodyLength`), so that it fills, and that a body can be cut into one chunk or two.
- Server: every race is between two threads about one identifier; the second
  identifier shows that others are untouched.
- DTLS: three handshakes and four openings: a role changed, changed back, and a
  session opened after `init_count` has returned to 0. One session at a time, as
  `esp_webrtc.c` has one peer connection; section 5 says what two would do.

`CHECK_DEADLOCK FALSE` is said where the system may stop: bounded numbers of
calls are used up, a destroyed queue, closed sessions that are all gone, an abort
of the program, a hang that is the subject of `webrtc_stop` and possible in
`webrtc`.

### Fairness

Weak fairness of each task's steps: the scheduler runs every ready task; callers
are obliged neither to call nor to send, and neither the modem, the peer, the
server nor the network is obliged to answer. What `CommandReturns` and `RingEnds`
rest on is that waits have timeouts and timers run. Three places differ. A reader
in `DataQueue` gives a block back (WF/SF of `ReadUnlock`, since the lock it needs
is taken over and over by writers; FreeRTOS gives a mutex to the waiter of the
highest priority and equal priorities take turns). The liveness part of the ring
has no flusher, whose loop holds the mutex. In `player` the liveness is of the
calls without pauses: a paused thread has every right to leave a queue full.

### Mutants

Each property of a passing run comes with a changed definition (a dropped test, a
missing signal, an off-by-one, one statement too early) under which TLC finds the
property violated; they stand before the definition they change, marked `Mutant`.

## 4. What is proved

Every safety property that a passing run checks is a theorem about the specification
the run checks, for every value of the constants. A theorem `Spec => []P` rests on
an invariant that is inductive: the initial states satisfy it, every action keeps
it, and it implies `P`. TLC has checked each of these invariants on the run's
instance before it was proved. There is one lemma, or one step, per action.

A run whose MC module puts parts side by side has a theorem of its own
(`QueuesRunCorrect`, `WebrtcRunCorrect`, `SessionsRunCorrect`, `ModemRunCorrect`):
`on` never changes, so that a behaviour of the run is a behaviour of the part it
names with the others standing still (`PartsOfTheRun`), and the theorems about the
parts give what the run checks. The assumptions are on constants only:

| Assumption | Why the code justifies it |
|---|---|
| `SizeAssumption`, `ThreadAssumption`, `QueueAssumption`, `SlotAssumption`, `CfgAssumption`, `DoorbellAssumption`, `SessionAssumption` | sizes are positive, tasks of different roles and the absent values are distinct, finitely many tasks wait in `msg_q.c` |
| `None \notin Tasks` (`AtUart`) | no task handle is NULL |
| `MAX_CONN \in Nat \ {0}` (`UdpSocket`) | the connection numbers of the modem |
| `BodyLength \in Nat \ {0}` (`HttpClient`) | an answer without a body is one of `Answers` by itself; a chunk of no bytes would end the body |
| `BodyLines`, `ImageSize`, `Pieces`, `FramesPerBlock \in Nat`, `ResampleAssumption` | lengths and numbers; a sample rate is not 0, since the converter (`ConvertRate`) divides by it |
| `Cameras \cap Webs = {}` (`Bridge`) | a device and a page differ in their identifier; without it their messages could not be told apart |
| one reader (`ReaderSleepsForCause`) | each queue of `av_render.c` is read by the one thread that owns it; of two readers one may clear the bit meant for the other |
| `FewSenders` (`MsgQueueWakesUp`): one receiver, no more senders than slots | `av_render.c` makes queues of 4 messages (757) for one thread each, and sends under `api_lock`. It is the exact limit: of three senders for two slots and the receiver all may sleep over a full queue |
| `"again" \notin Calls` (`FirstStreamsFreeUnused` alone) | it says of a player that is not given a second stream over the first that `remade` never happens; the other theorems about the player are about every set of calls |

The modules with proofs use no RECURSIVE operator: walks over data are recursive
functions or folds.

### Queues

`Queue_proofs` proves of the ring, for every size of the buffer, every set of request
sizes, contents and tasks (`SizeAssumption`, `ThreadAssumption`):

| Theorem | Statement |
|---|---|
| `TypeCorrect` | `Spec => []TypeOK` |
| `LayoutCorrect` | `Spec => []RingLayout`: the live blocks tile exactly the filled part of the buffer |
| `ReservationsHold` | `Spec => []ReservationHolds`: between `get_buffer` and `send_buffer` the place stays and the room suffices, whatever readers and flushers do |
| `OldestIsFound` | `Spec => []OldestFound`: the different tests of emptiness and ways to the front agree |
| `AvailableHonest` | `Spec => []AvailableIsHonest` |
| `NeverAborts` | without flushers, `Spec => []NoAbort` |
| `WriterSleepsForCause` | no writer sleeps while there is the room it waits for, nor through `quit` |
| `ReaderSleepsForCause` | the one reader does not sleep while a block is there, nor through `quit` |
| `RingImplementsFifo` | `Spec => ImplementsFifo`: seen through the walk of `data_queue_query`, every step appends one whole block, takes the oldest, or changes nothing |

`RingLayout` and `ReservationHolds` are not inductive alone: a reservation
survives only because nobody else moves `wp`, which is `WriteLockInv`: a writer
that waits or fills owns `write_lock`. `IInv` is the conjunction of the type
invariant, `RingLayout`, `WriteLockInv` and `ReservationHolds`. The argument has
two levels. Lemmas about the ring say what consuming a block
(`ConsumeKeepsLayout`), sending one (`SendKeepsLayout`) and rewinding to offset 0
(`RewindKeepsLayout`) do to the tiling and to the room, without tasks. Lemmas
about the tasks (`OthersKeepReservations`, `WriterKeepsReservations`) say when a
step leaves reservations alone. One lemma per kind of action joins the two, and
`TypeOKSplit` keeps the two halves of the type invariant apart.

The refinement maps the ring to the sequence of blocks that `data_queue_query`
walks over (`Contents`), a recursive function over offsets. `Path(n, vs)` says what
the walk sees without recursion: positions counted on from `rp`, without the jump
at `fill_end`, at which `n` live blocks lie end to end up to `rp + filled`.
`ContentsListed` shows, by induction over the number of blocks left (`NatInd`, from
the well-foundedness of the naturals), that the walk reads exactly the blocks on
the way. The rest is about paths: consuming takes the first block off
(`PathConsumes`), sending puts one at the end (`PathSends`), rewinding leaves the
way alone, as `fill_end` takes over from `wp` (`PathRewinds`), every other step
touches no head on it (`PathStays`, `ReserveKeepsHeads`). `PathTotal` adds the
sizes up: together they are `filled`, which keeps the FIFO within its bound.

The two theorems about sleepers are the safety half of the waits: a task that waits
clears its bit after it has woken and looks again only then, so a bit set in between
could be lost. `WritersAwake` and `ReadersAwake` say that whoever could go on is awake,
or has its bit set before it sleeps. What a writer looks for depends on `rp`, `wp`
and `fill_end`, which `get_buffer` itself changes before it waits: `ReserveWaits`
shows that after the rewind there is still no room. Writers take turns by
`write_lock`, so only one clears `CONSUME`; readers have no such lock.

and of the queue of messages, for every number of slots, messages, senders, receivers
and destroyers:

| Theorem | Statement |
|---|---|
| `MsgTypeCorrect` | `TypeOK` |
| `MsgQueueFreedUnderNoWaiter` | `MsgQueueNoWaiterFreed`: destroyed only when no task is left in `pthread_cond_wait`, woken or not |
| `ImplementsFifoQueue` | the slots refine `BlockFifo` |
| `MsgQueueWakesUp` | while the receiver sleeps over a message a sender is about to signal, and nobody else sleeps; while a sender sleeps the receiver is awake, with a message to take or a signal to give |
| `QueuesImplementFifo` | `BothImplementFifo`, for both queues of the run |
| `QueuesRunCorrect` | the invariants of the run `queues` |

What makes `MsgQueueNoWaiterFreed` inductive is `UserInv`: `user` is the number of the
tasks in `pthread_cond_wait`, woken or not, so that 0 means nobody. `PlaceInv` says
which place belongs to which call, `DataInv` that the slots from `cur` on hold
messages. `MsgQueueWakesUp` counts: each sender that sleeps goes with a message whose
receipt will signal (`RoomInv`); while the receiver sleeps no sender does, and each
message goes with a signal still to come (`AwakeInv`), so that with no more senders
than slots a full queue has a signal on its way, and it can only reach the receiver.

### Server

`SessionManager_proofs` proves, for every set of connections and identifiers
(`SessionAssumption`: the threads and the absent values are distinct from them):

| Theorem | Statement |
|---|---|
| `TypeCorrect` | `Spec => []TypeOK`; no map is asked for a null key |
| `NoOrphans` | `Spec => []GoneForgotten` |
| `SoleOwnersReachable` | `Spec => []SoleOwnerReachable` |
| `DeliveryCorrect` | `Spec => []DeliveredToRegistrant` |

`GoneForgotten` speaks of handlers that have ended; to be kept it needs to say
who removes an entry before that. `EntriesHeld` does: an entry of
`deviceSessionMap` always has a `Holder`, which is the session still between the
two puts of `bindDevice`, then the binding in `sessionDeviceMap`, then the thread
(handler or cleaner) that took the binding out and has not yet removed the entry.
Taking the binding out passes the entry on (`UnbindStep`), so that when the
handler is done only the cleaner can still hold it. `ThreadInv` says that what a
thread looked up earlier is still about the session it works on, `HandlerInv`
what the maps know of a session at each place of its handler. There is one lemma
per action, with one step per conjunct.

`BridgeKeepsOrder`, in the same module, proves `OrderKept`: what one device or page
sends arrives everywhere in order and once, over any number of messages and drops.
What the broker and the handlers still hold rises in number (`Rising`), and for
each message that has arrived nothing its sender sent before it is still on its way
(`Past`).

### The player

`AvRender_proofs`, for queues of any length, blocks of any number of frames, any set
of calls and any number of them:

| Theorem | Statement |
|---|---|
| `TypeCorrect` | `TypeOK`, the bounds of the queues included |
| `ResetFreesUnused` | `FreedUnlessRemade`: a reset frees a thread's resources only when no thread uses them, unless a reset has seen the render thread made again |
| `FlushLeavesNothing` | `FlushUnlessRemade`: under the same condition nothing that was in the pipeline as the flush began is left |
| `FirstStreamsFreeUnused` | where no stream is added over a stream, the condition always holds, and so does `FreedUnused` |

`FreedUnused` fails for the calls the product makes (`player_freed`), in one way: a
decoder that was told to end makes a render thread after the reset has sent CLOSE to
the one before it. `AvRemade` records that event in `remade`, a history variable that
changes nothing else, and the theorems say that it is the only way: whatever the
calls, as long as it has not happened nothing used is freed. `FirstStreamsFreeUnused`
then says what brings it about. The types hold afterwards too, so they are proved by
an invariant of their own.

Both properties rest on one account of the messages and the bits that answer them.
A CLOSE or a FLUSH is the last message of its queue (`Quiet`); it is on its way,
being carried out or answered exactly while the call waits for its bit (`Closes`,
`Flushes`); no bit is set that no call waits for, which is what a forgotten clear
would break (`Calling`). `Threads` is the life of the two threads; `Resets` says
why the second round of a reset suffices: after the first the decoder has gone and
can make no render thread any more.

### The peer connection

`EspWebrtc_proofs`, for every configuration and set of calls, messages and events:

| Theorem | Statement |
|---|---|
| `TypeCorrect` | `TypeOK` |
| `ByeIsAlone` | `ByeAlone`: a BYE is handled on the connection only while no other task is between opening and closing it |
| `PcTaskIsAlone` | a new `pc_task` is made only when the one before has ended |

`PauseInv` says what the flag `pause` and the bits "paused" and "resume" mean for
the place of `pc_task`: who has asked for the pause, who is waking, and that
`pc_task` sleeps with nobody having woken it otherwise. `LifeInv` ties `running`,
"exit" and the steps of `pc_close` to the life of `pc_task`. `OneCaller` is what
`Free` gives: the application's call and the signaling's message exclude one
another.

`Webrtc_proofs` has the seven parts beside it:

| Theorem | States | The invariant says |
|---|---|---|
| `MediaReturnsFrames` | `FramesReturned` | a frame is out only while its sender runs on a started capture, and a sender that runs is waited for |
| `WhipAnswerOfOneResponse` | `AnswerOfOneResponse` | the buffer holds the last pieces that came of the response on the wire, without a gap, or nothing |
| `RtcAliveWhileUsed` | `AliveWhileUsed` | the renewing task and the WebSocket's handler live only between a start and the end of the stop |
| `VideoNothingStale` | `NothingStale` | eras: what is in the pipeline came after the latest flush that returned; a running flush empties the decoder first, then what it gave to the renderer (`DecoderSince`, `RendererSince`) |
| `AudioPlaysInOrder` | `PlaysInOrder` | the frames made and not yet written are, numbered without a gap, those of the renderer's queue and the one in the decoder's hand |
| `ResampleLeavesConverted` | `LeavesConverted` | whatever differs from the output's format is repaired by a step still to come (`Repairs`) |
| `LcdKeepsLastDrawn` | `LastDrawnKept` | the selected buffer is filled, the other one is what was drawn last, or a clear has drawn the selected one black; the owners are counted |
| `DtlsKeys` | `KeysAsNegotiated` | what the configuration is set up for is the role that chooses the keys |
| `DtlsSharedAlive` | `SharedAlive` | libsrtp is up while `init_count` is positive, and an open session counts; it has the certificate that is shared |
| `WebrtcRunCorrect` | | all of them for the run |

### The doorbell

`Doorbell_proofs`, for any numbers of offers, timers, inputs and candidates:

| Theorem | Statement |
|---|---|
| `TypeCorrect` | `TypeOK`; the candidates stay in their array |
| `WithdrawnIsNotCopied` | `WithdrawnNotCopied`: an offer rejected, closed or timed out is not what `answer` copies when it reads `pending_sdp` again after 200 ms |
| `NewestIsCopied` | `NewestCopied`: what it copies was stored last, or is memory already free |

`PendingInv`: what is pending is the newest offer and was not withdrawn; an offer
that is still to be stored was not withdrawn, freed or pending before; without the
signaling nothing is pending. The second part is what makes the first one inductive: the
message tasks run in any order, and any of them may store the newest. `PendingFrame` is
what all steps have in common that store no offer, those between a free and the
store of NULL among them, and `PendingKept` that they keep the invariant.

What is given to the peer is not covered: an offer turned down or replaced after
the copy is given all the same (section 5).

### Modem, clients and upgrade

`Modem_proofs` and, for the two streams, `Streams_proofs`:

| Theorem | States | The invariant says |
|---|---|---|
| `AtOkIsOwn` | `OkIsOwn` | what is owed, on the wire and in the bits answers the command of the task that holds `command_mutex_`, if it was sent when nothing else was on its way (`Own`) |
| `NetworkReadyIsFresh` | `ReadyIsFresh` | READY is set by a report of this call only |
| `TcpConfirmedOnce`, `QsocketAckedOnce` | `ConfirmedOnce`, `AckedOnce` | SEND_COMPLETE stands for a confirmation not yet counted |
| `UdpHandedInOrder` | `HandedInOrder` | packets come in order; what is stored, copied or handed came before what the receive task has in hand (`MessageInv`), and a stored packet is announced once by the `has_packet` of the one before it and once by its own (`StoredInv`) |
| `MqttClientsConnectFresh` | `ConnectIsFresh` | in each of the three classes CONNECTED, where `Connect` waits, was set since the call |
| `HttpBodyWithoutGap` | `BodyWithoutGap` | what was read and what is in `body_` are in order, and with the bytes whose line came without its data (`without`) they are the body up to `body_offset_`; the lines that bring bytes are in order and ahead of it |
| `WsMessagesWhole` | `MessagesWhole` | what is in `receive_buffer_` and on its way is a sequence of frames, perhaps cut off at its end, that continues the message begun (`Way`) |
| `HttpBodyInOrder` | `BodyInOrder` | what the reader has, what is kept for it and what is still to come are one answer: the parser is at a place of it, with as many bytes of the body before that place as were handed on (`HcSound`) |
| `GroupOutlives` | `GroupOutlivesTask` | the only task that may run is that of the latest connection, and the bit says it has ended |
| `OtaBootsWhole` | `BootsWhole` | the bytes counted are the packets written, and the size compared does not change after the comparison, with any number of tasks started in the two seconds before a restart (`Turns`, `Compared`, `Booted`) |
| `ModemRunCorrect` | | all of them for the run |

`WsMessagesWhole` needs an induction, as `OnTcpData` handles all the frames its buffer
holds: `Frames` is a recursive function of their number, which `LoopExists` shows to
be well defined by the well-foundedness of the naturals, and `AllNat` carries what one
frame preserves to all of them. The TCP segments cut the frames anywhere; `Way` says
that the labels put on the bytes (which message, which byte, FIN or not) stay the
same however they are cut.

`HttpBodyInOrder` has the same shape and more cases. `AnswersLabelled` labels the places
between the items of any answer (`Labelled`): which line comes there, how many bytes of
the body are before it, how many of the chunk are left. `Agrees` says which places a state
of the parser may be at. One call of `Parse` then goes from one place to another
(`LineSound`, `BodySound`, `DataSound`), and `Processed` carries that over the calls that
`ProcessReceivedData` makes. Two things the proof brought out. `ParseChunkData` skips the
CRLF after a chunk only when it is in the buffer, so that the parser may look for a size
where the CRLF stands, and takes it for the size 0, the fault that `http_chunks` shows:
from there on the theorem claims only that no byte is made up (`PastBody`). And a
connection kept before its answer was whole gives the rest of it to the next request;
`early` records it until a new connection is made, and `BodyInOrder` speaks of the other
requests.

Two proofs did not go through at first because the model was wrong. `PacketLost` of
`Ota` let a line be lost while its callback ran, which the receive task's mutex
excludes; in `UdpSocket` the start of `udp_socket_sendto` and the lookup of the
connection had been one step, and are two (`get`). Both were put right from the code.

### Only model-checked

- Liveness: `RingWriterServed`, `MsgQueueDrains`, `EndingCallReturns`, `ByeReturnsAgain`,
  `RingEnds`, `CommandReturns`. Liveness under fairness is beyond the proof system used.
  The safety half of the first two, that no wake-up is lost, is proved.
- What the six runs of section 5 find is a counterexample, and needs no proof.

## 5. Behaviour of the code worth knowing

### Findings

Six runs each show a disagreement with the line quoted in `PROJECT.json`
(section 3). Three more were found by the models and have no run:

- `esp_webrtc.c:840`: a CONNECTED between `stop_stream` and `pc_close` starts a sender
  behind a closed peer (`esp_webrtc.h:64-65` says otherwise).
- `av_render.c:801`: RESUME then CLOSE to a paused thread: CLOSE stays unread and the
  reset never returns. `EndingCallReturns` is stated without pauses for this reason.
- esp-ml307's `README.md:414` has the network state told on recovery;
  `at_modem.cc:206` with `ml307_at_modem.cc:40` does not tell it.

### Queues and player

- `data_queue.c:148`: `consume_all` takes a block as large as the whole buffer for a
  corrupt one and aborts; `get_buffer` hands such blocks out. `data_queue.h:109`
  promises that a read buffer stays valid until `read_unlock`; a flush by another task
  breaks it, and the `read_unlock` after it leaves `user` raised.
- `msg_q.c:282`: with two waiters `msg_q_destroy` wakes one and spins for ever. The
  product has one receiver per queue.
- `msg_q.c:132`, `:175`: a send or receive signals after it has released the mutex, and
  `user` does not count it, so `msg_q_destroy` may free the condition before the signal
  (137, 177). `MsgQueueNoWaiterFreed` says nothing of such a task. `av_render.c` keeps
  clear of it: it waits for the exit bits of the threads before it destroys their queues
  (2083-2099), under the `api_lock` its senders hold.
- `msg_q.c:137`: senders and receivers share one condition, and `pthread_cond_signal`
  wakes any of them. With more senders than slots the signal of a send may wake another
  sender, which finds the queue full and sleeps again: then all sleep. In the product
  sends take turns under `api_lock`.
- `data_queue.c:366`: `data_queue_peek_unlock` lowers `user` and tells nobody, so a
  `data_queue_wakeup` that waits for a peeking reader may sleep for ever, if nothing else
  releases `USER_FREE`; nothing in the product calls `data_queue_wakeup`. Two readers of
  one queue may lose a wake-up, as they clear the same bit.
- `av_render.c`: a flush before the first frame waits for no bits, which FreeRTOS
  asserts against (1862); with a video render thread `wait_bits` is assigned, not or-ed
  (1860); a flush while a block of several frames is paused in the middle never ends
  (1833); a thread that left by `quit_when_eos` is not waited for (880); `paused`
  survives the end of a stream (404); `add_audio_data` puts its block after it has
  released `api_lock` (1578).
- Audio: with a threshold the last blocks before the end of the stream may never be
  rendered; a second add leaks the old resampler; `i2s_render_write` shadows `ret` and
  hides a failed write.
- Video: `if (1 || skip == false)` (666) never skips; the renderer, paused, peeks, so
  its frame is shown twice after the resume; a picture larger than the queue gives back
  a buffer that was not taken; a failure to get the output format returns 0 and no decoder.
- Display: on a chip with two draws in flight, a refused or failing draw leaves the
  next write waiting for ever; a failed draw swaps the buffers;
  `video_render_get_frame_buffer` tests another function pointer than it calls. Clearing
  draws the buffer that is handed out next, or is the decoder's already, which then
  fills it while it is shown (`lcd_render.c:247-262`; `LastDrawnKept` makes an exception
  of that black picture). The panel may read the picture before the last until
  `draw_finished`, and `lcd_render_get_frame_buffer` (164) hands it out without waiting.
  Closing frees the context that the panel's callback is given. Without frame buffers
  the memory drawn from is the decoder's and not modelled.

### Call and signaling

- Disable from the console while a BYE is handled destroys the event group the BYE
  waits on (`esp_webrtc.c:533`, excluded by `Free`).
- Without automatic capture the sink that `stop_stream` disables is not enabled again on
  reconnection; a sender thread that cannot be made leaves the capture started.
- `mqtt_signaling.cpp`: candidates after the tenth go to the peer at once (537); a bye
  leaves the pending offer, so that an ended call can be answered (573); messages take
  tasks of their own, so that any two may overtake one another (790); an ice_response
  before `mqtt_signal_start` has set its handle is dropped (823); "answer" with nothing
  pending stops the timer of a ring; an offer between the SDP and the candidates of an
  answer mixes the two; an ota message without md5 reads NULL (621).
- `mqtt_signaling.cpp`, `pending_sdp`: free and NULL (180-182, 346-348), free and the next
  offer (498-499), the test, the copy and the third reading of an answer (130-133) are
  steps of tasks without a lock. An offer turned down or replaced after it was copied
  is given to the peer all the same; freed memory may be copied; two tasks that find the
  same offer free it twice, which ends in a panic (`HeapPanics`); `strdup` of NULL too
  (`AnswerPanics`). `WithdrawnNotCopied` and `NewestCopied` say what is left. The frees
  of the candidates race in the same way; `cands` is cleared in one step. One message task
  at a time is in the middle of its handler, and an `mqtt_sig_t` made anew is taken to
  have another address than the freed one.
- `webrtc_mqtt.c`: a remote ACCEPT_CALL without ICE leaves RINGING without a timer; a
  timer deleted inside a publish keeps the AT engine's mutex; an incoming offer has no
  timeout although `remark.md:86-87` gives one of 15 s; console and key may both ring.
- `esp_webrtc_stop` closes the connection before the signaling; a join that meets the
  recovery of the network leaves the device unsubscribed.
- WHIP: no status is looked at, a 404's body becomes the answer; the bytes received are
  never compared with `info.size`, so that a body cut short by the connection is handed
  on (`https_client.c:100-108`), as is one whose beginning came while no buffer could be
  had; `info.size` outlives a redirect with a body, and when the next buffer cannot be
  had its first piece is copied to NULL (`CopyToNull`); `server_num >
  MAX_SERVER_SUPPORT` is off by one; a POST answered over a lost connection is repeated
  and makes a second resource.
- AppRTC: stop frees the WebSocket client before it waits for the renewing task, which
  may use it; after a bye the side becomes the initiator but `ice_role` stays.
- `dtls_srtp.c`: `check_srtp` counts the first session twice and later ones not at all:
  with two sessions at once, closing one may shut libsrtp down under the other.
  `dtls_srtp_gen_cert` frees a certificate that open sessions share, and leaks its own
  session. A failing second `srtp_create` keeps the first context, and
  `dtls_srtp_handshake` still returns 0. A session opened as client checks the peer's
  certificate against its own and refuses every peer; only a change of role by reset
  switches that off.

### Modem, clients and upgrade

- ML307: `Connect` of TCP returns TRUE when neither bit came in time; `MQTTSTATE` changes
  `connected_` silently; one INITIALIZED bit serves all callers of the HTTP client, and a
  gap in a body closes it inside the callback.
- `ml307_udp_socket.cc:104-105` stores `last_packet` and `has_packet` without a lock,
  `recv_any` (142-145) reads and clears them: a packet may be lost, handed twice, or
  torn in the copy; `HandedInOrder` says what is left. The one event bit leaves a second
  connection's packet waiting. A connection that is evicted destroys `last_packet`
  before its callback is unregistered; the model lets it go only between two messages.
- `ml307_http.cc:31-36`: of a content line with fewer than six arguments nothing is kept,
  but its bytes are added to `body_offset_` (50), so that the test at 51 does not notice
  the gap; the comments there know the case (FIXME). `BodyWithoutGap` excepts these
  bytes and says that no others are missing. A header line without the headers (21-26)
  counts as an answer all the same.
- A send that timed out may be confirmed when the next one waits (`ml307_tcp.cc:193`,
  `ec801e_tcp.cc:147`): `ConfirmedOnce` and `AckedOnce` count confirmations and cannot tell
  whose they are. `OkIsOwn` speaks of commands sent when nothing was owed, and
  `CommandReturns` of waits outside a URC callback; a callback that sends a command
  itself (`ml307_mqtt.cc:17`) hangs the receive task.
- EC801E: a failed QIOPEN calls `disconnect_callback_` without a connection; a failed
  SSL send sets ERROR while `Send` waits for SEND_FAILED; MQTT's `Disconnect` leaves
  `connected_` TRUE until the modem reports.
- ESP-IDF: TCP's `Disconnect` calls its callback twice; a lost connection's receive task
  may close the next one's socket; the destructor after a drop deletes the group while
  the task still sets its bit; SSL refuses to connect after a loss.
- `http_client.cc:264`: a callback that waits for room in the buffer holds the mutex
  `ReadAll` needs. No run covers `ReadAll`, which only the example in esp-ml307's README calls.
- `web_socket.cc`: an answer that comes before `Connect` waits is lost; the opcode of
  a continuation is taken for the message's; a second `Connect` is impossible.
- `otaupgrade.cpp:636-641`: the flag is clear for the two seconds before `esp_restart`. A
  second upgrade that starts there erases the partition the first one has set to boot
  (432, 602), and the restart may come in the middle of it. `Ota` models it; `BootsWhole`
  is about the moment the partition is set.
- `otaupgrade.cpp:651`: `s_ota_in_progress` is tested and set in two steps by message
  tasks; where both find it clear the model stops ("clash"); `esp_ota_abort` is never called;
  `OTA_README` says 5 minutes, a comment 2, the code 20; an image of unknown length is
  left to `esp_ota_end` alone.

### Server and page

- `WebSocketSessionManager.java:67`: a page that reconnects under the same identifier
  (or a second page with the default `web_client_001`) loses its binding when the old
  session is closed. `SoleOwnerReachable` says exactly when a page is safe from it.
- Two threads may send on one WebSocket session at once
  (`WebSocketSessionManager.java:95`), which the container refuses.
- The devices' messages carry no target, so each goes to `web_client_001` and the branch
  that broadcasts (line 341) never runs for them; the call table is written and not
  read; an offer without "from" makes `terminateCallSession` throw, and the bye that
  ran into it is not forwarded.
- Page: a bye during `getUserMedia` leaves connection and microphone open; two calls in
  a row leak the first; `handleTimeout` takes a timeout for an incoming call; it reads
  `message.sdp` where the device sends `data`.
- `mem_trace` (an adapter): `realloc` takes its lock twice; stopping
  frees the mutex in use; module ids wrap at 256.

## 6. Not modelled

- Board, codec and Wi-Fi start-up, settings, statistics: hardware I/O in a fixed order,
  no interaction of their own.
- The adapters of media_lib_sal: tables of function pointers over FreeRTOS, lwIP and
  mbedTLS; what the modules need of mutexes, event groups and threads is modelled where
  it is used.
- webrtc_utils: one call into the system library. The closed peer library: external,
  as the calls made to it and the states it reports.
- The browser page: the device's peer; its messages are inputs.
- Data: pixels and samples, JSON, headers and text of commands, persistence of
  messages in files. Clocks: a timeout is a choice once the wait has begun, A/V
  synchronisation decides at random whether a picture is late.
- Hazards without a property, each above: `msg_q.c:137` (a task that is still to
  signal), `:282`, `av_render.c:1578`, `esp_webrtc.c:533`, `mqtt_signaling.cpp:537`,
  `:573`, `otaupgrade.cpp:636`, `:651`, `http_client.cc:264`. They are known wrong, or
  excluded by the way the product calls the code; a property would only repeat the
  observation.

## 7. Plan

All parts of the plan are modelled and checked, and all safety properties are proved.
For the two queues the wake-ups behind the liveness properties are proved too, as safety
properties (no sleeper while there is work). What would come next is the same for the
other waits: the command in the AT engine, the ring of the doorbell, the bits of the player.
