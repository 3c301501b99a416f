# A TLA+ model of discord-native-voice

discord-native-voice adds native RTP transport, video sending and receiving and
DAVE encryption to discord.py's voice client. Python (`discord/ext/native_voice/`)
holds the protocol logic, Rust (`src/`) the sockets, the threads that read and
dispatch packets, the video send pipeline and the codecs' packet formats. This
directory models the parts in which threads and coroutines meet: what a packet, a
frame, a NACK, a listener, a source or a sink can go through when the threads
interleave, packets are lost or late, and objects are closed while they are in use.

## 1. Inventory

Four kinds of thread run the code: the asyncio **event loop** (API calls, voice
gateway events), the **player** thread (`MediaPlayer`), and per UDP transport a
**reader** and a **dispatcher** thread (Rust), the latter calling Python
listeners. There are also a **ping** thread per connection, a **NACK retry**
thread while listening, the thread of a `SilenceFillSink` and the **writer**
thread of an FFmpeg source. Almost no Python state is protected by a lock.

| Component | State | Operations | Hard part | What makes it correct |
|---|---|---|---|---|
| RTP sequence arithmetic (`rtp.py`) | none | `_sequence_delta`, `_unwrap_sequence` | wrap-around | numbers within half the space unwrap exactly |
| Reorder buffer (`rtp.py`) | expected number, held packets, time of the gap | `push` | loss, reordering, duplicates, limit and delay | ordered, complete, bounded, no long stall |
| Video send pipeline (`video_send.rs`) | streams with counters and RTX cache, transport-wide counter, two mutexes | configure, retain, clear, send frame, answer NACK | three threads, numbers drawn under one lock and sent under another | consecutive numbers, a retransmission is what was asked for, cache is the recent window |
| Keyframes (`client.py`) | cached keyframes, requests, replay flag | PLI, cache, replay | requests during a replay, stop and start between check and store | what is cached can be decoded, every request is answered |
| NACK bookkeeping (`client.py`) | SSRC → dictionary of pending numbers, last number | track, add, send, retry, expire, reset | dispatcher and retry thread share the dictionaries without a lock | bounded list and retries; a gap is filled or given up |
| RTCP reports (`client.py`) | per SSRC report state | receive, report | fields that saturate or wrap | the sender reads the losses that happened |
| UDP transport (`net.rs`) | closed, running, listeners, thread handles, channel sender, ping slot, counters | add/remove listener, start/stop ping, close; reader; dispatcher | joins, GIL, channel shutdown, start and close racing | close returns and leaves no thread; counters exact; removed listeners fall silent |
| UDP ping (`udp.rs`) | number, ping that is out, counters | round, reply, stop | lost wake-up, late/early/duplicate replies | no ping counted twice, stop returns |
| Media receive (`client.py`, `stream_client.py`) | callback, sink, after, listeners on the socket, receive state | listen, set_sink, stop_listening, delivery, reconnect | stop on two threads at once, listener ids of an old socket | listeners match what is listened to, nothing twice, little after stop |
| DAVE pending frames (`client.py`, `dave.py`) | deque of frames, 128 frames and 10 s at most | stash, retry, reset | keys that come late, a reset during a pass | no frame lost or doubled, the oldest give way |
| Stream client (`stream_client.py`) | reconnect flag, preview task and provider | available, unavailable, delete, preview loop | outages inside an await | one preview loop, it goes on; the wish to reconnect lasts |
| Outgoing video (`client.py`) | codec, active streams, announced state | start_video, stop_video, on_media_sink_wants | awaits in the middle of updates | pipeline and announcement match the client's state |
| Media player (`player.py`) | source, generation, start future | run, set_source, pause, resume, stop | source swapped under a running loop | the new source is played; a stopped player ends and turns its transport off |
| Sinks and recordings (`media.py`) | queues, children, tracks, timelines, temporary files | write, cleanup | threads, limits, exceptions in a walk, clocks | nothing lost uncounted, misrouted, misplaced or left behind |
| Sources (`media.py`) | children, read positions, buffers, process and pipes | read, read_video, cleanup | ends at different times, chunk boundaries, blocked pipes | in step, whole frames, honest ends, cleaned once, nothing left running |
| Transcoding (`transcoding.py`), codecs (`src/video`), encryption (`crypto.rs`), capture (`capture/`), PCM helpers | — | — | — | not modelled, see section 5 |

How they interact: the player reads a source and sends its frames through the
send pipeline; the dispatcher hands RTP batches to the receive path (decode → NACK
bookkeeping → reorder buffer → depacketizer → DAVE → sink) and RTCP packets to the
feedback handler, which answers NACKs from the send pipeline's cache and notes
requests for keyframes, which the player answers. The event loop starts and stops
the transport as the server's wants change; `stop_listening` and the reconnect of a
stream client tear the receive path down.

## 2. Modules

Names of actions and variables follow the code. Every module lists its bounds as
CONSTANTS; a definition that starts with "A mutation of" is not part of a
specification: it is a plausible mistake that the properties must notice.

| Module | Models |
|---|---|
| `RtpSequence` | `_sequence_delta`, `_unwrap_sequence`, with the modulus as a constant |
| `OrderedDelivery` | abstract: packets are taken in any order and come out in ascending order |
| `ReorderBuffer` | `_VideoReceiveReorderBuffer.push`, on a wire that loses, repeats and reorders, with a clock |
| `VideoSendPipeline` | `VideoSendPipeline` (Rust), its two mutexes step by step, and the statistics its callers record |
| `KeyframeReplay` | `_cache_video_frame`, the PLI handler, `_send_requested_video_keyframes`, against stop and start of video |
| `VideoNack` | `_track_video_receive_sequence` and the methods it calls, on the dispatcher and on the retry thread |
| `ReceiverReport` | the receive state of an SSRC, `_rtcp_receiver_report_block`, and how a report is read |
| `UdpTransport` | `UDPTransportInner`: API calls, reader and dispatcher, thread handles, channel and GIL |
| `UdpPing` | `UDPPing`: ping thread, `handle_packet`, `stop`, with the condition variable's wait in steps |
| `MediaReceive` | `listen`, `set_sink`, `_stop_listening`, packet delivery, listeners across reconnects |
| `DavePending` | `_stash_dave_video_frame`, the retry pass, and the reset when listening stops |
| `StreamSession` | `StreamClient`: preview task and provider, outages, reconnects, deletion |
| `VideoTransport` | `start_video`, `stop_video`, `on_media_sink_wants`, `_apply_selected_video_stream` as coroutines |
| `MediaPlayer` | `MediaPlayer`, over `VideoTransport`: the playback thread, `play`, `pause`, `resume`, `stop`, `set_source` |
| `QueueSinks` | `QueueSink`, `AsyncQueueSink` |
| `SilenceFill` | `SilenceFillSink`: writer, silence thread, cleanup |
| `SinkTree` | construction and cleanup of trees of sinks |
| `SinkRouting` | `wants_media`/`write` of chains of wrappers; `PerUserSink` |
| `RecordingTimeline` | `MixedWaveSink`, the IVF timestamps of `EncodedVideoSink`, FEC in `_OpusDecoderCache` |
| `MuxRecording` | `FFmpegMuxSink` |
| `MediaSources` | composite, multi, volume, simulcast and FFmpeg simulcast sources as a tree |
| `FrameReader` | `_AnnexBFrameReader`, `_IVFFrameReader` |
| `FFmpegSource` | `FFmpegVideoSource`: constructor, process, pipes, writer thread, reading, cleanup |
| `RtpSequenceProofs`, `ReorderBufferProofs` | theorems about the module of that name |
| `UdpTransportProofs` | theorems about `UdpTransport` and `UdpPing` |
| `VideoSendProofs` | theorems about `VideoSendPipeline` and `KeyframeReplay` |
| `VideoFeedbackProofs` | theorems about `VideoNack` and `ReceiverReport` |
| `ClientProofs` | theorems about `MediaReceive`, `DavePending` and `StreamSession` |
| `MediaPlayerProofs` | theorems about `MediaPlayer` with `VideoTransport`, and about `FFmpegSource` |
| `SinkProofs` | theorems about `SinkRouting`, `SinkTree`, `QueueSinks`, `SilenceFill`, `RecordingTimeline` and `MuxRecording` |
| `MC*` | instances for TLC |

**Composition.** `MediaPlayer` extends `VideoTransport`: the player thread waits for
the coroutines' futures and schedules them, so both are explored together. The other
MC modules hold components that share no state with one another, or only an event
that each of them has as an action of its own (the end of listening, the outage of
a stream). Their product would add states and no behaviour; a variable `part` selects
the component that moves in a behaviour, and the others stay in their initial
state. Each property speaks of one part.

**Granularity.** In Rust, a step ends where a lock is released or an atomic is
accessed. In Python the interpreter may switch threads between any two byte
codes, so a method is as many steps as it has accesses to shared attributes that
another thread can see change; accesses that commute with everything else are
merged. Python code on the same event loop runs to its next await. Two places
are coarser than the interpreter: `_stash_dave_video_frame` is one step (its trim
and append touch one deque, and a reset in between is as if it came before), and
reading or sending one frame in `MediaPlayer` is one step.

**Abstractions.** A packet is its number (and its content a unique body, where a
retransmission is compared with the original); a frame is its stream, session and
position. Retry intervals and timeouts are one bit: passed or not. Decoding a batch
is one step in `MediaReceive`. A source is its kind and the number of its frames.
The network is outside the code: it may deliver anything that was sent, any
number of times, in any order, except that the reorder buffer and the receiver
reports are fed only numbers within half the number space of the one they expect, as
RTP assumes. FFmpeg is outside too: it may crash, hang and ignore `terminate`.

### Correspondence in short

* `ReorderBuffer.Push` is `push` with `_pop_ready`: `TooOld`, `KeepWaiting` are
  its two conditions, `HandOver` is the pop and what follows it. `base`,
  `delivered`, `accepted`, `starved_since` are history.
* `VideoSendPipeline`: `Enter` takes the send lock, `Prepare` the state lock (a
  frame or RTX round is prepared packet by packet under it), `SendNext` sends,
  `Return` releases, `Record` writes the statistics outside both locks.
* `KeyframeReplay`: `step` is where the player is between looking at the requests,
  clearing them, replaying and caching; `decoded` is the receiver.
* `VideoNack`: `dicts` are the dictionaries as objects, `table` the entry of the
  SSRC; a thread's `pending` is the dictionary it holds a reference to, which may
  no longer be in the table.
* `UdpTransport`: `upc`, `rpc`, `dpc` are where the calls, readers and
  dispatchers are; an incarnation is one successful swap of `reader_running`.
  `GilFree` says that no thread is inside a call that holds the GIL throughout.
* `UdpPing`: `pc` walks through `wait_for_stop` and `run_ping_thread`.
* `MediaReceive`: `StopRemoves` … `StopCallsAfter` are the statements of
  `_stop_listening`, on either thread; `handle_socket_packets`, `Decode`,
  `PassOn`, `Write`/`WriteRaises` the dispatcher's path. `registered` holds the
  listeners of every socket with the ids they got there; the ids the client keeps
  may be those of an old socket. `overlap`, `doubled`, `stale` are history.
* `DavePending`: `held` is the deque, `kept` the list the pass collects before it
  replaces the deque, `packets_out` what it decrypted; `Stash` takes frames from
  the front while they are too old, and one more if the deque is still full.
* `VideoTransport`: a task is a coroutine and the await it is suspended at; `told`
  is what the server was told last, `last_state` what the client takes it to be.
* `MediaPlayer`: `at` is where the thread is in `_do_run`; its copies of source and
  generation are separate reads.
* `SinkTree`, `MediaSources`: nodes with children. A sink refused at its first
  destination is closed by `__del__`; one refused at a later destination stays open,
  as the parent of those it had accepted, whose `_parent` keeps it alive. `failed` and
  `refused`, `late` and `cleanups` are history.
* `SinkRouting`: a write to a `PerUserSink` is `BeginUserWrite` (the `_closed` check),
  `KeyOfUser` or `KeyOfSsrc`, `PopChild` and `SetChild` (the two statements of a
  promotion), `FindChild` or `MissChild`, and `MakeChild`; its cleanup is
  `BeginUserCleanup`, `CollectChildren`, `CleanupChild` for each and `CleanupTables`.
  The dispatcher and the event loop may interleave between any two of them.
* `MuxRecording`: `bad_options` and `undeleted` record that the options could not be
  split and what could not be unlinked.
* `FFmpegSource`: two pipes of limited size, so that the writer, FFmpeg and the
  reader can each be blocked on another.

## 3. Runs

A property is either a single statement or, where a module has several about the same
state, a conjunction of its named parts, each with its own comment; the table gives the
parts.

| Run | Properties | Shows |
|---|---|---|
| `reorder_buffer` | `InOrder`, `BufferBounded`, `NothingReadyHeld`, `NothingLost`, `StallBounded`, `ImplementsOrderedDelivery` | order, completeness, limit, bounded stall, and the refinement of `OrderedDelivery`, across a wrap-around (`TypeOK` is proved) |
| `video_send` | `SendBookkeeping` (`TypeOK`, `CacheIsRecentWindow`, `RtxTruthful`, `StatsSequenceLatest`), `TransportConsecutive`, `ReplaySound` (`CacheDecodable`, `ReplayCatchesUp`), `RequestsAnswered` | transport-wide numbers leave consecutively, the cache is the window of the latest packets, a retransmission is what was asked for; cached keyframes can be decoded, a replay brings a receiver up to date, requests are answered |
| `video_feedback` | `NackBookkeeping` (`TypeOK`, `OutstandingBounded`, `RetriesBounded`, `ArrivedIsSettled`), `PendingSettles`, `ReportTruthful` (`LossTruthful`, `FractionTruthful`) | pending NACKs and retries are bounded; a packet that has arrived is not asked for again because of an old reference; every pending packet is settled; the losses and the fraction (rounded down) a sender reads are those that happened |
| `udp_transport` | `TransportConsistent` (`TypeOK`, `PendingIsExact`, `StaleCallsBounded`), `CloseStopsThreads` | the queue counter is exact; a removed listener is called at most once more; after close no thread is left, however calls raced, but a dispatcher one of whose listeners closed |
| `udp_transport_live` | `CloseTerminates` | close returns, also on the dispatcher |
| `udp_ping` | `AnsweredOrTimedOut`, `OnlyRecentAnswered`, `StopReturns` | a ping is answered or timed out, not both; only recent pings are answered; stop returns (`PingTypeOK` is proved) |
| `media_receive` | `LatePacketsBounded`, `ListeningConsistent` (`TypeOK`, `ActiveSinkIsOpen`, `NothingLeft`, `NothingMissing`, `DeliveredOnce`), `HeldFramesSound` (`EveryFrameOnce`, `SessionsApart`, `OldestGiveWay`), `SessionGoesOn` (`OnePreviewLoop`, `PreviewsGoOn`, `ReconnectNotForgotten`) | late packets are bounded, no cleaned-up sink is active, no listener is left that nothing needs, also after two stops at once, none is missing, nothing is delivered twice; frames that wait for keys are neither lost nor doubled; one preview loop runs and goes on, and a reconnect is not forgotten |
| `media_receive_reconnect` (violated) | `SinksSurviveReconnect` | after a reconnect the new socket has no media listener although the client counts as listening |
| `media_player` | `TransportAgrees` (`ActiveIsConfigured`, `NotedIsTold`), `PlaysCurrentSource`, `PlayerSurvives`, `EndsCleanly` (`SilenceAfterAudio`, `StoppedAtEnd`), `PlayerStops` | the streams configured are those in use, the server knows what the client takes it to know, the source set last is played, one source plays without failing, a stopped player ends, after silence and with its transport off |
| `media_player_stop` (violated) | `StopIsTold` | replacing a video source by an audio source stops the video and then announces it again |
| `media_sinks` | `QueuesAccount` (`UnfinishedExact`, `LossesCounted`, `AsyncDropsExact`, `AsyncConserves`), `SilenceIsTame` (`SilenceBounded`, `OneStaleFrame`, `ClosedAfterThread`), `TreesAreCleaned` (`Forest`, `CleanupReachesAll`), `PacketsAreRouted` (`LeafGetsWanted`, `ClaimsAreKept`, `OneUserPerChild`, `OneChildPerUser`, `ChildrenAreCleaned`), `PlacedInTime` (`MixedAligned`, `IvfOrdered`, `RecoveredInPlace`), `RecordingSound` (`AudioOnTime`, `AudioInFile`, `VideoStartsDecodable`, `DestinationWhole`, `NothingLeftBehind`) | queues, silence, trees, routing, timelines and muxing, each alone: nothing is lost uncounted, misrouted, misplaced or left behind |
| `media_sources` | `LanesInStep` (`MixedInStep`, `EncodingIsKnown`, `NothingLeftUnread`, `NoLateReads`, `LayersInStep`), `CleanedByEachParent`, `VideoEnds`, `FramesFaithful` (`BytesKept`, `CutAtDelimiters`, `FramesWhole`), `FFmpegSound` (`NothingLeftRunning`, `EndIsHonest`, `ErrorIsReal`), `CleanupReturns` | composed sources, frame readers and an FFmpeg source, each alone: in step, whole, honest about ends and errors, cleaned up once by each source that holds them, nothing left running |

The violated runs state what the repository's own text says; PROJECT.json quotes it.

**Statements that do not hold and have no run of their own.** They stand in the
modules as definitions next to the property that is checked, for whoever changes the
code; TLC refutes each when it is put into the cfg of its module.
`StatsTransportLatest` (`VideoSendPipeline`): `rtp_send_stats` names the packet
before the last one. `MissingIsAskedFor` (`VideoNack`): the retry thread's
`pop(media_ssrc)` races with the dispatcher's insertion. `OldPacketStateDropped`,
`AfterIsCalled`, `NoListenerIsLeft` (`MediaReceive`): a batch in flight refills the
receive state that was just reset; a `listen` that begins while the dispatcher is still
stopping the one before can lose its `after` callback, or leave a listener on the socket
that nobody owns. `CleanupClosesChildren`, `RefusalsUndone` (`SinkTree`): an exception
in one child's cleanup leaves those behind it open; a constructor that refuses its
second destination keeps the first as its child, and both stay open.
`ChildrenAllCleaned` (`SinkRouting`): a cleanup that falls into a write leaves a child
open. `EachCleanedOnce`, `EveryVideoEnds` (`MediaSources`): `_unique_sources` looks at
the children of one source only, so a source that two sources hold is cleaned up twice;
a plain `SimulcastVideoSource` waits for layers nobody reads. `FramesAreAccessUnits`
(`FrameReader`): a chunk that ends in a delimiter can make a frame of a single zero,
and a short stream with a byte in front of its first delimiter is one frame.

**Exceptions in properties.** Some properties except a race or a failure that the code
has; each names it, and a history variable, in parentheses, records that it happened.
What the code does then is in the model all the same, and is not claimed to be right.

* `PlaysCurrentSource`: a `set_source` between the player's two reads (`torn`).
* `RequestsAnswered`: a PLI between copying and clearing the requests (`overtaken`).
* `ReplayCatchesUp`: a keyframe cached across a stop; losses and stops during the replay.
* `HeldFramesSound`: a retry pass or batch under way when listening stops (`raced`).
* `SessionGoesOn`: an outage in the last await of `connect` (`surprised`); a connection
  that discord.py re-established by itself (`dropped`).
* `NothingLeft`, `NothingMissing`, `DeliveredOnce`: a `listen`, a `set_sink` or a start or
  stop of video that overlaps a stop on the dispatcher (`overlap`); two stops at once are
  covered, and may call `after` twice (`doubled`). `NothingMissing` also: a socket made
  while media was received or video sent (`stale`), on which the client keeps the ids
  of the old socket's listeners and registers none; `media_receive_reconnect` shows it.
* `TransportAgrees`: a message that could not be sent (`failures`).
* `PlayerSurvives`: a source that is replaced, one with layers, a lost connection, a
  failed message.
* `SilenceAfterAudio`: a source that is replaced, a lost connection, a failure, a stop in
  the middle of a round. `StoppedAtEnd`: a source that is replaced, new wants of the
  server, a failed message; `media_player_stop` shows what the first can lead to.
* `CloseStopsThreads`, `StaleCallsBounded`: a start of the UDP reader that overlaps or follows close
  (`late_start`: `start_reader` does not look at `closed`), and a dispatcher that closed
  (`detached`).
* `CleanupReachesAll`: a leaf whose cleanup raised (`failed`).
* `ChildrenAreCleaned`: a write under way when the children are collected (`found_at`),
  which bounds what stays open by the child it makes and, in the midst of a promotion,
  the promoted one; a child whose cleanup raises.
* `NothingLeftBehind`: a write that overlaps the cleanup of a recording (`overlapped`),
  options that cannot be split (`bad_options`), files that cannot be unlinked
  (`undeleted`).
* `CleanedByEachParent`: a cleanup that raised (`raised`) may leave sources open.
  `MixedInStep`, `NoLateReads`: a source that is shared, which is read twice a round.
* `CutAtDelimiters`: a chunk that ends in a delimiter or right behind it (`split`) may cut
  off one zero; a stream with something dropped in front of its first delimiter.

That a sink can get a packet after `stop_listening` has returned is bounded by
`LatePacketsBounded`.

**Bounds.** The modulus of sequence numbers is 12 (4 in the send pipeline, 8 and 16
in recordings), and indices straddle the wrap. Limits are 2, so that full, overfull
and empty differ. Two API threads and two incarnations of the transport's threads
suffice for every pair of racing calls; two batches let one be dispatched while
another is queued. Two targets, two sockets and batches of two packets let a sink be
replaced, a socket be replaced and a batch be cut off in the middle. Four pings
let a reply be older than the previous ping. The player has one change of source and
one disturbance (a pause, a lost connection, a failed message or new wants) with four
coroutines, so that a stop, a start and a re-selection overlap. A stream client has two
outages, two sources and three preview tasks, so that one is started, replaced and
left over from before an outage. Replays have two
streams, two sessions and three frames, one more than the cache holds; DAVE three
frames for two places. The theorems of section 4
hold for every value of these bounds. A loss field of two bits saturates in both
directions within four packets. Sinks have two writers and two places; trees four sinks; chains three
wrappers, over every leaf; two users on two SSRCs. Of a speaker as many packets are
lost in a row as there are numbers (`MaxLost`), so that the number after the gap is that
before it. Source trees are thirteen shapes,
with nesting, sharing within one source and between two, and layers, of leaves of up to two frames; Annex B inputs
are all of up to three NAL units with short and long start codes, cut into chunks
anywhere; pipes hold one chunk of three. Deadlock is not checked where the bounds or
a finished shutdown end the behaviour; the liveness properties state what must not
block.

**Fairness.** Only for threads that are running: the reader, the dispatcher and
each call in progress (`udp_transport_live`), the ping thread and a stop in
progress (`udp_ping`), the dispatcher's handling of a packet, the retry thread and
the clock (`video_feedback`), the player thread and a `set_source` that has begun
(`media_player`), the player's round (`video_send`), a player that reads its source
again (`media_sources`), the writer thread, a cleanup in progress and the return of
a read that has data (`media_sources`). Timed waits end. The operating system
schedules threads and none of these loops waits for an outside event in between.
Nothing is assumed of the network, of replies, of FFmpeg, of messages to the server
or of the application's calls: a stopped player ends although its coroutines may
never finish, because its waits for them have timeouts.

## 4. Proofs

All for every value of the constants that satisfies the named assumptions: any
number of threads, packets, frames, targets and calls, any modulus and limit. None of
the properties is inductive as the runs check it. Each proof has an invariant that
says what is true between two steps, a lemma that it holds initially, one per action
that the action preserves it, and one that it implies the property; TLC checked each
invariant on an instance before it was proved.

* **Sequence numbers.** `RtpSequenceProofs!UnwrapCorrect`: for an even modulus,
  unwrapping the wire form of n next to a reference less than half the space away
  returns n. By the uniqueness of a multiple of the modulus in an interval; the lemmas
  isolate the arithmetic of `%`, and later modules use them.
* **Reorder buffer.** `TypeCorrect`, `DeliversInOrder`, `StaysBounded`,
  `HoldsNothingReady`, `LosesNothing`, `StallsBriefly`, `RefinesOrderedDelivery`. The
  invariant `IndInv` adds that each packet is held under its own extended number
  (`KeyedByNumber`, where `UnwrapCorrect` is used), that everything delivered precedes
  the expected number, and that the time of the gap is the one the history records. A
  push is split into dropped, handed over, waiting, and flushed. The refinement
  needs only that what is appended is ascending, beyond what came before, and taken.
* **UDP ping.** `PingTypeCorrect`, `PingAccount`, `OnlyRecentTaken`. The strengthening
  `Sending` says which pings can already have gone out at each point of the thread, so
  that the ping recorded as sent is neither answered nor timed out; `Recent` says that the ping that
  is out has the last number, or the one before while the next is being sent.
* **UDP transport.** `TransportIsConsistent`, `CloseLeavesNoThread`. The invariant
  says, at every place between two critical sections, who still has to do what: which
  call must yet stop a thread that runs (`Closing`, `ReaderHandles`,
  `DispatcherHandles`), what a `start_reader` finds in the slots (`Slots`, with
  the GIL's `OneStarter`), and in which channels and readers a counted batch may be
  (`Counted`). Each step changes the set of counted batches and the counter
  alike; `Cardinality` is used through the library's theorems.
* **Video send pipeline.** `NumbersAreConsecutive`, `CacheFollowsStream`,
  `RtxRepeatsTheOriginal`, `SendsAreBooked`. One half of the invariant is about what
  the state lock protects (each cache is a window that ends at the stream's number, and
  agrees with what was numbered), the other about what `send_lock` protects: what its
  holder has numbered is one line from the packet sent last to the number given out
  last, cut only by `clear` and by a failed call. `SendsAreBooked` assumes `OneCaller`,
  one thread that sends frames and one that answers NACKs, as in the code (a player, a
  dispatcher): the statistics are written outside the lock, and two senders would
  overwrite each other's. The other three do not need it.
* **Keyframe replay.** `ReplayWorks`. The invariant follows a list of cached frames
  through a stop and a start of video at any step of the player: what is on its way
  into the cache (`Storing`), being sent (`Replaying`), and what a replay that a stop
  overtook still adds (`Overtaken`).
* **NACKs.** `NacksStayInBounds`. That a packet is asked for at most
  `VIDEO_NACK_MAX_RETRIES` times and once is not inductive: one has to know what each
  thread may yet count (`MayCount`), also one that looked at a dictionary which has
  left the table since, and that room for it is left in the entry (`Room`).
* **Receiver reports.** `ReportsAreTrue`. The report counts modulo the number
  space, the truth in extended numbers; `Counting` relates the two by the cycles that
  passed before the first packet, which nobody knows. In `FractionTruthful`
  the fraction is rounded down, as the code does: that it is the nearest one would
  be false, but only for intervals longer than those of the run.
* **Receiving media.** `LateIsBounded`, `ListeningIsConsistent`. `ReceiveInv` adds
  what is true in the middle of a method: which attributes a step of `listen` or
  `_stop_listening` leaves set (`Attributes`, `KnownIds`), that what a stop has cleared
  stays cleared although the other thread interferes (`StaysCleared`), what the
  dispatcher still holds of the batch it passes on (`LateIsHeld`). Every socket's
  listeners are followed, whether or not the client's ids are of that socket
  (`Needed`, `Present`). That two stops at once leave nothing behind needs to
  know which of them has still to remove, clear and call what (`StopsAll`, `AfterStored`,
  `CallsCounted`): both may call `after`, and one of them must. A `listen` or `set_sink`
  that overlaps a stop on the dispatcher is excepted (`overlap`), a socket that
  replaced another in use is excepted from what may be missing (`stale`).
* **DAVE frames.** `FramesAreHeld`. A frame is in one of three lists, so `DaveInv`
  says where the lists stand to one another: what a pass has put back is older than what
  it has yet to try, was young enough when the pass began, and fits with it into the
  limit; a frame without a fate is in one of them; it came in the session that listens
  now or was carried across a stop. That nothing recent is given up for something
  older follows, because a pass that has put a frame back cannot find a later one too old.
* **Stream sessions.** `SessionIsSound`. Besides the property the invariant
  needs that a cancelled task was started and is not the one the client knows, that
  previews are enabled only with a provider, and that `connect` begins without a
  connection.

* **Player and transport.** `PlayerTypeCorrect`, `ClientAndServerAgree`,
  `NewSourceIsPlayed`, `OneSourcePlays`, `PlayerEnds`, for any number of coroutines,
  failures and changes of the source. The invariant is one for all, and its parts say
  which source the thread holds while it has the generation it has
  (`CurrentSource`: it reads the source first and the generation afterwards, and
  `set_source` writes them in the same order, so that a change between the two reads
  goes unnoticed and is excepted as `torn`),
  what the coroutines can be when nothing has interfered (`Undisturbed`), that silence
  is owed from the first audio frame until the loop is left (`SilenceOwed`), and that
  without a change of source the player schedules one `start_video` and, when it ends,
  one `stop_video` (`StopLast`).
* **FFmpeg source.** `FFmpegIsSound`. Each chunk of the input is in one place
  (`FramesAccounted`), a read that finds nothing has found FFmpeg ended, and
  an error is noted for the writer's failure or because of a cleanup (`ErrorNoted`); who
  may still touch a pipe is settled at every step of the cleanup (`CleanedUp`).
* **Routing.** `PacketsReachTheirSinks`. A chain of wrappers is described from its
  leaf up by a recursive function. That a wrapper passes on what its leaf wants is
  shown at the least position where it would fail (`LeastElement`, with
  `StepByStep` for the function's values), since an induction theorem cannot be
  instantiated. For `PerUserSink`, the table from keys to children is one to one
  (`OneToOne`), but for the child between the two statements of a promotion; every step
  of a write says what it holds (`Writing`), and what a cleanup can miss is the child
  being promoted and the one that the write makes (`Collectable`, `CleanedUp`).
* **Trees of sinks.** `CleanupReachesTheTree`. Constructors only put sinks above
  sinks, so sinks have ranks that fall from parent to child; everything else is shown
  from the leaves up along them (`FromTheLeaves`). The depth to which the walk is
  defined suffices (`WalkUnfolds`), a walk that skips closed sinks still reaches what is
  open unless something above it is closed (`SkippingReaches`), and the sinks
  below one sink are contiguous in the walk from any other (`WalkIsContiguous`): so
  children are closed in order, up to one that holds a leaf which raised
  (`ClosedInOrder`).
* **Queue sinks.** `QueuesAreSound`. A packet that has been removed from a full
  queue and not yet been counted belongs to one writer (`LossesOwed`); a packet for an
  asyncio queue is scheduled, queued, consumed or lost, in one of them and
  once (`InOnePlace`, `NoneDisappears`).
* **Silence.** `SilenceIsBounded`. A batch holds at most one packet for each track
  (`OnePerTrack`, `Holding`), what a track has had is counted (`Counted`), and once a
  stale packet has been written the batch holds no other of its track (`StaleOnce`).
* **Timelines.** `RecordingIsPlaced`, under two hypotheses: no more packets are lost
  in a row than there are numbers, and a pause is shorter than half the timestamps. In
  the code these are 2^16 packets, 22 minutes of 20 ms each, and 2^31 samples.
  TLC refutes `RecoveredInPlace` where either fails by one: with one more packet lost,
  and pauses that bring the timestamps round too, the gap reads as one of a single packet;
  with pauses of just half the timestamps, two of them around a lost packet go unnoticed.
  In both FEC restores a packet that is not the missing one. The proof is arithmetic of
  `%`: wrapped differences are those of the true positions (`MixInv`, `IvfInv`, `FecInv`).
* **Muxed recordings.** `RecordingIsSound`. The invariant says from when on the audio
  is anchored (`AudioAnchored`), that a stream that has begun began with a keyframe
  (`StreamStarted`), and what a cleanup owes at each of its steps (`CleanupOwes`).

Only model-checked, and why:

* liveness (`PendingSettles`, `CloseTerminates`, `StopReturns`, `RequestsAnswered`,
  `PlayerStops`, `VideoEnds`, `CleanupReturns`): fairness and ENABLED are beyond the
  prover;
* `MediaSources` and `FrameReader`, which recurse over trees and byte strings with
  RECURSIVE operators, and with them `LanesInStep`, `CleanedByEachParent`, `FramesFaithful`.

## 5. Not modelled

* Transcoding, and the argument lists of the FFmpeg sources and sinks in `media.py`
  (about 1500 lines of it): pure functions of options and strings.
* Ciphers and DAVE's cryptography (libraries); the nonce is a counter under a lock.
* Codec bit streams in Rust, device capture, PCM and volume arithmetic.
* Jitter, the delay since the last sender report and the pruning of old reports:
  functions of clock values.
* Logging and debug statistics, the gateway and discord.py's connection state
  machine, except for what replaces the socket and for outages.
* In `FFmpegVideoSource`, the `_pipe_writer` to which a desktop source falls back when
  the native handle of its pipe is not found (`media.py:1725`, Windows only), whose
  blocked write cleanup would wait for when it closes stdin before it terminates FFmpeg
  (`media.py:2603`). In `FFmpegMuxSink`, `keep_temp` and a destination that is a buffer.
* `send_video_rtx_packet`, which nothing calls, and `Drop` of the transport, which
  repeats `close`.

Seen while reading, and without a property: the transit time behind the jitter is not
reduced modulo 2^32 (`client.py:2152`); two threads that prune the server's reports can
collect the same key (`client.py:1739`); a failed `Popen` leaves the desktop grabber open
(`media.py:1710`); an FFmpeg that crashes is reported as the end of the video
(`media.py:2499`, the exception in `EndIsHonest`); a `stop_video` whose message fails
clears nothing (`client.py:1621`); a `set_source` on a player that is over starts a
transport that nobody stops (`player.py:411`, the exception in `StoppedAtEnd`); a reply
that arrives before its ping is recorded as sent is consumed and the ping counted as
timed out (`udp.rs:271`, which `AnsweredOrTimedOut` allows); `QueueSink()` and
`AsyncQueueSink()` without a destination raise `TypeError`, since `MISSING` is neither
`None` nor a queue (`media.py:4469`, `4617`).

## 6. Plan

1. The decode path (`_decode_video_packets`, RTX unwrapping) between `VideoNack` and
   `ReorderBuffer`, composed with a lossy network and the send pipeline's answers.
2. `MediaSources` and `FrameReader` with recursive functions in place of their RECURSIVE
   operators, as `SinkTree` and `SinkRouting` are written, and then proofs of
   `CleanedByEachParent` along the ranks of a tree and of `BytesKept` along the chunks.
