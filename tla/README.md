# kilrogg: specifications, model checking and proofs

Paths are relative to the repository. kilrogg streams a Windows desktop from one
machine (the sender) to another (the receiver) over one TCP connection. It has no
data structures to speak of; what makes it hard is that seven threads, two timers
and a hardware encoder with events of its own pass single frames and single-bit
requests to each other, that frames depend on the frames before them, and that
each of them may be dropped on purpose.

## 1. The system

| Component | State | Operations | Talks to |
|---|---|---|---|
| Capture, `sender/dxgi_capture.cpp` | duplication, mode (4 atomics and a flag), cursor versions, texture pool | acquire, adopt a mode, poll the cursor, give up the duplication | pushes textures into the mailbox; its mode flag ends the connection |
| Accept loop and handshake, `sender/main.cpp` | one client at a time, the codec settled on | accept, read hello and mode, build an encoder, greet, tear down | listen socket, capture's mode, gate |
| Mailbox and gate, `common/mailbox.h`, `gate.h` | one slot; open or shut | push, pop, clear, stop; set, wait | capture thread to run loop; gate parks capture between clients |
| Run loop, `run_h264` in `sender/main.cpp` | pending keyframe, its throttle, last frame, control and log intervals | one pass: requests, control, cursor, frame, submission | calls every other component of the sender |
| Frame pacer, `sender/frame_pacer.h` | next slot, last submission, held frame, duplicate budget | wait_for, on_frame, take_slot | asks the encoder's depth |
| Encoder, `sender/mf_encoder.cpp` | credits, pending frame, three atomics, sink | encode, pipeline_depth, request_keyframe, set_bitrate, set_sink, event thread | run loop above, MFT below, sink into the send queue |
| Send queue, `sender/packet_sender.cpp` | queue, byte count, budget, flags, statistics | push, drain, retune, take requests and statistics, destructor | producers: encoder, run loop, control thread; consumer: socket |
| Control receiver, `sender/control_receiver.cpp` | request flag, closed flag | read a message, take the request | back-channel to run loop; pongs into the send queue |
| Rate control, `rate_control.*`, `rate_memory.h` | target, hold and probe counters; per-peer memory | update, command, remember, recall | driven every 200 ms by the run loop |
| Receiver session, `receiver/main.cpp` | connection, backoff, last request time | connect, retry, receive thread, present loop | socket, decoder, presenter, back-channel |
| Decoder and presenter, `receiver/` | MFT; window, textures, cursor | decode and flush; fit, copy, draw, pump | receive thread and present loop |
| Clock synchronisation, `receiver/clock_sync.h` | best round trip | on_pong | the statistics overlay only |
| LZ4 path, both `main.cpp` | previous image, rectangles | diff, send, apply | mailbox with a merge function |

The behaviours that are hard, and hard to test:

* **Keyframe recovery.** The GOP is unlimited (`README.md:77`): an IDR exists only if
  somebody asks. A request passes through six one-bit stations (queue flag or
  receiver flag, `keyframe_pending`, the throttle, the encoder's force flag, the next
  frame submitted) while overflows, failed outputs and frames dropped before the
  encoder happen around it. Correct: no torn picture without a request, no request lost.
* **The send queue** is a latency bound written as a byte count: whole backlogs are
  thrown away from under a thread that is in a blocking send. Correct: count exact,
  order kept, nothing stranded, no lost wake-up, destruction always ends.
* **Lock-free depth.** `pipeline_depth()` reads three counters the event thread moves.
  Correct: may read high, never low, and reading high costs a bounded number of frames.
* **Teardown.** Sink, control thread, encoder, queue and socket go in an order that
  keeps each one alive until its last caller is gone.
* **Rate control** is a loop through three other components: it reads the queue, moves the
  encoder, and what it reads next depends on both. Correct: bounded, no cut without a backlog,
  no probe into trouble, an overload is answered, a clear link is used.
* **Pacing** under stalls: slots neither bunch nor run away, duplicates are bounded.
* **Mode changes.** The capture thread stores a mode as four atomics and a flag, one by one; the
  loop loads them one by one to set up a connection; frames of the old mode are in the mailbox meanwhile,
  and `CopyResource` between textures that do not match does nothing and says nothing. Correct: a
  connection on the wrong mode ends, no frame of another size reaches the receiver's textures.
* **Finding each other again.** Both ends drop the connection on purpose, each may be dropped by
  the other, by the network or by a restart into another codec, and a still screen gives only one full frame
  per duplication. Correct: the receiver never gives up once it has worked, ends up showing the
  display as it is, and a user who closes the window is heard wherever the process is. A format the
  video processor does not take has no encoder (`mf_encoder.cpp:610`); what that does to later connections is in 3.1.
* **The cursor** is published in two critical sections, polled in two, and drawn by a thread that gets one
  token for any number of changes. Correct: the last shape and position are shown, also when nothing
  else moves; a shape never comes with an older position.
* **The LZ4 path** sends rectangles of change. One that falls out of a merge, a skipped frame or a
  reconnection stays wrong until its pixels change again. Correct: what is on its way adds up to the screen.

## 2. Modules

Each component has a module; each proof has one of its own.

* **`SendQueue`** - the contract of the send queue as the rest of the sender may rely on
  it: a FIFO of marks (keyframe, delta frame, delta frame whose reference was given up)
  that may lose its whole backlog and then asks for a keyframe. No bytes, no threads.
* **`EncoderPipe`** - the contract of the encoder: a FIFO with one place in front of it, where
  the newest frame waits for the MFT's next request; any call may lose its frame. No locks, no counters.
* **`PacerPromise`** - the contract of mailbox and pacer without the time: the latest frame is kept
  until it is taken, a frame in hand until it has a slot, a slot without one costs a budget only frames restore.
* **`PacketSender`** - the queue in full: `push` from its producers (`Push` =
  `Enqueue`, `FlushAndKeep` or `FlushAndDrop`, one critical section each), `run()` cut at
  its lock boundaries (`Park`, `StopSeen`, `Pop`, `SendDone`, `Count`, `SendFailed`,
  `ClearAndExit`), the owner's calls and the destructor cut at shutdown and join. The
  deque is the set of its packets stamped in push order.
* **`QueuePromise`** (over `PacketSender`) - the refinement mapping to `SendQueue`: the backlog is the video packets queued,
  by rank, each marked by what it refers to; `KeepsPromise` says that this behaves as the contract.
  `MCPacketSender` gives sizes and budgets.
* **`VideoStream`** - one connection's video end to end, composed over `PacerPromise`,
  `EncoderPipe` and `SendQueue`: run loop, pacer, encoder and its events, queue, socket, receive thread, back-channel. It
  uses the contracts, not `FramePacer`, `Encoder` and `PacketSender`, because those are shown to keep them
  (section 4). As `pipeline_depth()` may read high, a duplicate may go out with nothing to shake loose.
* **`FramePacer`** - `frame_pacer.h` and its driver over integer time that may pass
  between any two steps.
* **`Encoder`** - run loop against event thread: both mutexes, `pipeline_depth()` as three
  reads, failing calls, `set_sink(nullptr)`, both destructors; `KeepsPipe` says that the two together
  are an `EncoderPipe`.
* **`RateControl`** - `update`, `command`, the memory of one client and the control interval
  that calls them, in closed loop: an interval on the wire (`Wire`) is followed by one look at
  it (`Control`: `Update`, the budget, `Command` and the encoder's answer, atomic as in the
  loop). Link and content change, the client goes and comes back, the encoder may refuse.
* **`Link`** - the TCP connection as both programs see it: listen queue, the receiver's end, the
  sender's client, messages in flight. Each operator is one call of one end; strangers who never
  say hello, broken links and a dying sender are here too.
* **`SenderSession`** (over `Link`) - the sender from client to client. Capture thread: gate, duplication made, lost
  and given up, `adopt_mode` store by store (`Publish`), pool, copy, push. Accepting
  thread: `AcceptClient`, `ReadMode` field by field, `BuildEncoder` with the formats that cannot be converted (`FormatTaken`), the fallback to H.264 and the
  second attempt at HEVC, `Greet`, `ClearMailbox`, `OpenGate`, the loop's ends, `Leave`, `CloseClient`; and `run_lz4` blocked in
  `pop`.
* **`ReceiverSession`** (over `Link`) - the receiver's process: dial, hello, deadline, retry, window
  and textures, decoder, messages of the window, exit.
* **`Session`** - both, with their properties; `MCSession` gives four display modes.
* **`CursorSource`** - DXGI's reports, the two published halves, the two polls, the packets.
* **`ReceivePath`** (over `CursorSource`) - the receiver's two threads on one connection after another:
  receive thread (`Read`, `SetCursorShape`, `SetCursorPos`, `Decode`, `CopyVideoFrame`, `Push`, `Stop`), present
  loop (`TopQuits` to `DrawCursor`) and its teardown (`Shutdown`, `CloseSocket`).
* **`Lz4Path`** - the lossless path from screen to texture over both merging mailboxes.
* **`PacketSenderProofs`, `VideoStreamProofs`, `FramePacerProofs`, `EncoderProofs`,
  `RateControlProofs`, `SessionProofs`, `ReceivePathProofs`, `Lz4PathProofs`** - theorems.

Correspondence: an action is one critical section or one unlocked step that another
thread can see. Variables keep the code's names without the trailing underscore; those
listed as *history* are never read by an action's guard and record what the properties
compare with. Definitions named *faulty* in their comment are plausible wrong versions of
the one that follows; no specification uses them, and the properties are known to tell
them apart.

Abstractions. A packet is its kind and size (`PacketSender`) or its mark (`VideoStream`), a
frame is the number of its capture (`Encoder`) or nothing at all (`VideoStream`). In
`VideoStream` the two time limits (500 ms between keyframes, 250 ms between requests) are
flags raised by the event and lowered by an action at any later moment; the pacer's slot
and grace may be over or not at any pass, so all timings are covered. `packet.bytes`,
textures, colour conversion and log lines are not modelled. The MFT is external: it asks
for input while it has room for `Room` frames and gives the oldest back when it holds more than
`Delay`. The decoder may conceal or fail on a frame without its reference, and by a fault
fail on any. `dead()` before the lock in `send_*` is folded into the test under the lock,
which follows it. `VideoStream` ends with its connection: the next starts from `Init`, and what happens
between two is `Session`. In `Session` a frame is what its texture was cut to and whether the copy was real; pacing,
requests and rates are left to their modules, a frame taken is a frame sent; the receiver's two threads are one
step (`ReceivePath` has them apart), and how long a retry waits is open. In `ReceivePath` and `CursorSource` a
position is the moment it dates from, a shape the moment it appeared and the position it was seen with; a
version is whether it differs from the one the loop saw last, which is all the loop asks of it. In `Lz4Path` the screen is a set of regions and the
pixels of a region the number of times it changed; the mode is fixed. In
`RateControl` rates are integers of any unit and an interval is exactly 200 ms, so four of them
are `kCutCooldownSecs`; the queue is its byte count at the end of the interval, tested for
overflow once per interval (`PacketSender` has every push), and a flush empties it; content
runs at quarters of the frame rate, a multiplier is in twelfths; a burst is a reading of up to three
quarters of the budget, never twice in a row, which is what `kDeepIntervalsBeforeCut` presumes.

## 3. Runs

| Run | Specification | What it shows | States |
|---|---|---|---|
| `packet_sender` | `FairSpec` | all invariants of the queue, its refinement of `SendQueue`, the destructor's return | 372 152 |
| `video_stream` | `BusySpec` | no silent gap, no lost request, under overflows, lost outputs, decoder faults; while the screen changes, requests are answered and pictures recover | 206 944 |
| `static_screen` | `QuietSpec` | violated, see 3.1 | |
| `swallowed_failure` | `Spec` | violated, see 3.1 | |
| `frame_pacer` | `Spec` | no burst, duplicates bounded | 493 536 |
| `encoder` | `FairSpec` | depth never short, newest wins and comes out, sink safe, teardown ends; to the run loop it is an `EncoderPipe` | 94 415 |
| `rate_control` | `FairSpec` | encoder and queue follow the rate, cuts and probes have cause, overload answered, clear link used | 141 127 |
| `refused_rate` | `Spec` | violated, see 3.1 | |
| `session` | `FairSpec` | no connection kept on a mode that has gone, pictures fit, copies are real, drops have a cause, nobody gives up, a refused format stays refused, the two find each other again, a close is heard | 312 683 |
| `format_disagrees` | `FairSpec` | violated, see 3.1 | |
| `cursor_path` | `FairSpec` | shape and position in step, no repaint lost, the cursor catches up | 488 240 |
| `lz4` | `FairSpec` | nothing forgotten, the picture catches up | 289 099 |

Bounds. `packet_sender`: four packets suffice for a packet in flight, two queued of
different kinds and a newcomer that flushes; sizes 4, 2, 1 against budgets 3 and 6 let a
keyframe exceed the smaller budget alone and fit the larger with another, and let control
packets fill the queue. `video_stream`: one trouble, one packet queued, one in the socket, one request on the back-channel, an MFT with room
for one: liveness is checked on the same graph. Its safety invariants are theorems for all
bounds, and were also run with two troubles (a second one hits the recovery from the first), two packets queued and
an MFT that keeps one frame back (3 837 960 states). `frame_pacer`: interval 3, poll 4, grace 5 keep the code's order (slot below
poll below grace; at 175 Hz 5.7, 16 and 30 ms) over a clock of 20, more than six slots.
`encoder`: three frames, two duplicates, one failing call, an MFT holding one of two.
`rate_control`: the unit is 2.5 Mbit/s, which makes the default ceiling 16, its probe 1 and the
queue's least budget 8; links of 1 (less than the floor), 10 (less than the ceiling) and 60 (more
than can be commanded); content still, slow and full; one change of link, content or
connection, at any moment of a run that has no other bound. The properties also hold for links 1, 3,
7, 12 to 15, every content, 965 999 states.

`session`: four modes, of which one differs from the first in size and rate and two in their pixel format alone, so that a
change may touch every field or just one; the video processor takes one of these two formats and not the other ("float"), which the display may have at
the start and leave, or take on later; one change and one disturbance (a stranger, a broken link, a sender that dies
and is started again with either codec, a failing device), each at any moment; a listen queue of one,
which a stranger fills; one message in flight, so that the loop also meets a full link. The receiver decodes HEVC and
nothing else, which no real one does, but lets the fallback to H.264 meet a receiver that cannot follow; the sender was told `--codec hevc`,
so the second attempt at HEVC (`Upgraded`) is in the theorems and not in the run. Its five invariants and `RefusalSticks` are
theorems for any number of each. `format_disagrees` has one still display and a description whose format the video processor does take. `cursor_path`: one change of the cursor after its first appearance, which may move it,
reshape it or both; one failure (a shape, a texture, the link), one packet in flight, a decoder that may give
two pictures for one packet. `lz4`: two regions, which is what it takes to forget one and not the other, two changes of each, two
failures.

`CHECK_DEADLOCK FALSE` in every configuration: a connection ends (queue closed, sender destroyed,
`dead`), the receiver's process exits, and the bounds on packets, frames, changes and the clock stop the models.

Fairness. `PacketSender`: both threads keep running, but a blocking send is not assumed
to return until the socket is shut down: a peer may take one byte every few seconds. `Encoder`: the
run loop ticks (`pop_for` times out in 16 ms), the event thread serves events, and after
the drain its event arrives (`Woken`); captures and disconnections are not
assumed. `VideoStream`: threads, timers and the MFT go on; the link moves or the connection
fails (`SO_SNDTIMEO`, five seconds); `SF` on `SlotIsDue /\ Submit` says that a slot that is due again and again is
taken in the end and conversion does not fail for ever; `SF` on a successful `NeedInput` that
`ProcessInput` does not refuse every frame. Only `BusySpec` assumes that the screen changes. `RateControl`: the loop runs and
the client comes back; `ClearLinkUsed` has its own premise, that bursts end. `LastFrameComesOut`
allows for a spent budget, since the MFT's speed is not bounded by the model. `Session`: both threads
of the sender and the receiver's process go on, keepalive or a send timeout tells a sender that its client has gone, and
a sender that died is started again; the user, the screen and Windows owe nothing. `SessionSettles` therefore
exempts a receiver that has ended, a sender started with `lz4`, `Refusing`: capture is parked with a format in its fields that cannot be
converted (the one state in which `RefusalSticks` says the sender stays), and `missed`: the one full frame a still screen gives was
taken through a gate that was still open for the last client, or had no texture to go to. The last is a hazard of the code that no property covers. `ReceivePath`: every thread goes on; `SF` on
the run loop's polls, because room on the wire is a bound of the model, and on `pump` returning, which a
window that is resized for ever would prevent. `Lz4Path`: the threads go on, the screen need not change;
`PictureCatchesUp` exempts a sender that waits in `pop` for a client that has gone (`Unnoticed`), and pixels whose
rectangles a failed readback took along (`forgotten`): both are what the code does.

### 3.1 Where code and comments differ

* `static_screen` / `StillGetsItsKeyframe`: "a receiver that cannot decode still gets its
  keyframe, just not instantly" (`sender/main.cpp:233`). On a still screen with an empty encoder
  nothing is submitted (`main.cpp:668`), so nothing carries the keyframe until the screen changes.
* `swallowed_failure` / `FailureIsAsked`: a failed decode "should ask the sender for a
  keyframe" (`mf_decoder.h:31`). Within 250 ms of the last request (`receiver/main.cpp:332`) it does
  not, also when that request has already been answered and the failure is a new one.
* `refused_rate` / `RefusalKeepsBudget`: "An encoder that refuses the change leaves the rate where
  it is, so the queue keeps the budget that matches it" (`sender/main.cpp:598`). The budget has been changed
  by then (`main.cpp:584`), and stays changed: the queue overflows too early or lets lag build
  until the client reconnects.

* `format_disagrees` / `SessionSettles`: the texture's format "is what the copies actually have to match, and
  acquire() corrects this from it if the two ever disagree" (`dxgi_capture.cpp:157-159`), and after a change "this connection is
  dropped a frame or two in and the receiver reconnects against the right numbers" (`sender/main.cpp:377-380`). If
  the duplication's description does name another format, one the video processor takes, the correction does not last: the gate shuts between connections,
  the next duplication seeds the description's format again (`dxgi_capture.cpp:160`), `acquire` corrects it again, both raise
  the flag, and every connection is dropped a frame or two in, for ever, on a display that never changes.

Two more have no run of their own. A format that cannot be converted: the log line says "turning HDR off for this display will stream it"
(`mf_encoder.cpp:615`). It will, once the sender has been started again. Without an encoder the connection is dropped before the gate opens
(`sender/main.cpp:438-441`, `508`), so the capture thread stays parked (`main.cpp:325-331`) and holds no duplication; the only writers of the
published mode are `reinit_duplication` and `acquire` on that thread, so the next connection reads the same format, asks for the same encoder and is
dropped the same way, whatever the display is by then. `RefusalSticks` states this and is proved for every set of modes. It needs a machine on which DXGI does not
convert the desktop, which `DuplicateOutput1` is there to prevent (`dxgi_capture.cpp:126-147`).

The other is small: with a frame in hand whose slot came due after `take_slot` looked, `wait_for`
(`frame_pacer.h:87`) answers 16 ms, where its comment (`frame_pacer.h:82-85`) says "however long is left of its slot".
The frame goes out late and is not lost.

### 3.2 A band without an answer

`OverloadAnswered` demands that the link carries less than the target as well as less than what is
sent. With the first condition dropped it fails, for links wide enough to show it (13 of 16
units, content at half the frame rate): the encoder may be commanded up to 8% more than the target
asks for (`kCommandHysteresis`), `update` takes `measured >= target` for everything having
gone out (`rate_control.cpp:68-71`), and a link in between is overrun slowly, flushed, and
overrun again without a cut. Content that changes ends it.

## 4. Proofs

TLAPS checks the following for every value of the constants, under the assumptions
`SizeAssumption`, `BoundsAssumption`, `PacerAssumption`, `EncoderAssumption`, `RateAssumption`, `LinkAssumption`,
`SessionAssumption`, `CursorAssumption`, `PathAssumption` and `Lz4Assumption` (naturals, positive sizes, rates and interval, a finite set of budgets
that is not empty, modes that are records of sizes and formats, HEVC preferred only where `--codec` asked for it), which TLC evaluates in the runs.

The proofs are compositional: `VideoStream` is written with three contracts; `StreamWithinPromises` says that it
moves their variables only as they allow, and `PacerPromiseIsKept`, `PipeIsKept` and `PromiseIsKept` that `FramePacer`,
`Encoder` and `PacketSender` implement them. So `NoGapIsSilent` and `NoRequestIsLost` rest on
the threads, locks and clocks of those modules only through the contracts.

* **`PacketSenderProofs`**, in three layers. `NoLostWakeup`, `NothingStranded`, `NothingVanishes`, `InOrder`: none is
  inductive. `IInv` adds `ThreadState` (what the place of the drain thread says of the flags
  and its packet; in particular `dead` is only set on the way out) and `StampsUsedUp` (stamps
  are at most `pushed`). That the queue has a front at all is `LeastStamp`, by well-foundedness
  of strict inclusion on finite sets. `BytesAccounted`, `BacklogBounded`, `StatsExact`: `Ledger`, inductive relative to
  `IInv`, is these three and that what was sent and dropped is finite; the bound on the backlog is carried packet by
  packet (`Within`: the queue up to a packet, which only shrinks). That a sum over a set changes by the size of what joins or leaves it is
  not provable by induction here; it is proved by taking a smallest set for which it fails. `KeepsPromise`: an operation on the set of
  stamped packets does to the sequence of marks (the queue by rank) what the contract does: a push appends, since its
  stamp is the largest, a pop takes the head, a flush empties. A mark refers to the packet's predecessor, and a flush leaves no video
  packet behind whose predecessor it took, so no mark in the queue ever changes.
* **`VideoStreamProofs`**: `TypeOK`, `NoSilentGap`, `RequestNeverLost`, inductive together. The work is in
  `MarkAppended` and `MarkTaken`: moving a mark between the stages of the pipe does not change what
  the encoded stream will do to the picture; the rest is one case per action. `StreamWithinPromises` looks at each step
  through the variables of one contract at a time.
* **`FramePacerProofs`**: `NoBurst`, `SlotIsNear`, `FlushIsBounded`, and the contract. `NoBurst` speaks of submissions, which may be late;
  what is inductive is `Schedule`, that the next slot is at least its turn after the anchor,
  and `Budget`, duplicates sent plus left. A frame may arrive between the one taken and the slot asked for: taking it is a pass
  of the contract of its own, and the slot one that takes no frame.
* **`EncoderProofs`**: `CountersExact`, `NoFrameWaitsOnCredit`, `NewestWins`, `SenderOutlivesSink`, the action
  property `DepthNeverShort`, and `KeepsPipe`. `IInv` adds `HandingOver` (during a hand-over the frame is in both
  places), `Lifetimes`, and `DepthBound`: while the depth is read `queued` only falls and
  `emitted` only rises, so each partial sum stays above its present value. In the refinement the contract's pipe is the MFT's frames with
  the one the event thread is delivering in front, and a frame being handed over no longer waits; `StillFull` adds what that needs
  besides `IInv`: an MFT whose output is on its way to the sink still holds what it keeps back.
* **`RateControlProofs`**: `StaysInRange`, `CommandTracks`, and the action properties
  `BurstAloneNeverCuts` and `NoProbeIntoTrouble`. `IInv` adds `CalmCounts` (the controller's own count is
  at most the history's), and `DeepHasCause` and `SampleHasCause`, what a deep reading stands
  for after and before it is looked at: a backlog, or a burst that no second can follow.
* **`SessionProofs`**: `StaleModeEnds`, `CopyMatches`, `FrameFits`, `NeverGivesUp`, the action property `RefusalSticks` and, if the description tells the truth,
  `EachDropIsAChange`. `IInv` has a part for each. `ReadSoFar`: a field the loop has read and that is different now means a
  flag up or on its way, which `StoreOrder` (the flag last) keeps true at every store. `Stored` and `PoolRight`: outside
  `adopt_mode` the fields are the mode last adopted and the pool, if there is one, was made for them. `Linked` and `Announced`: the client served is
  the receiver's present connection, and everything in flight on it has the size of its hello. `Coded`: a codec is
  announced only if the receiver can decode it. `RefusalSticks` needs of it only the types: `Refusing` names the places the accepting thread can be
  in on the way to being refused, and is kept by every action but the sender's end. `Called` counts what could still cause a drop - a flag up, a
  flag coming, a display not looked at - against changes that have caused none yet.
* **`ReceivePathProofs`**: `PacketCoherent`, `NoLostRepaint`. For the first, `IInv` dates every copy on the way from DXGI
  to the wire: a shape that has been published, polled or queued has a position at least as new ahead of it.
* **`Lz4PathProofs`**: `NothingForgotten`. `IInv` has a part per stage (`HandRight`, `MailboxRight`, `LastRight`, `WireRight`): the
  pixels a frame carries beyond its own rectangles are those of the screen too, which is why a connection may begin with all
  rectangles of whatever frame is at hand.

Every invariant, action property and refinement that a passing run checks is stated by one of these theorems, and
`StaysInRange` and `SlotIsNear` besides, which no run needs any more. Model-checked only: liveness (`DestructorReturns`, `KeyframeAnswered`, `PictureRecovers`,
`LastFrameComesOut`, `TeardownEnds`, `OverloadAnswered`, `ClearLinkUsed`, `SessionSettles`, `CloseHonoured`, `CursorCatchesUp`,
`PictureCatchesUp`), since the prover has no fairness, and what the violated runs show. The contracts promise safety
only: that a slot comes, a frame leaves the encoder and a packet the queue is assumed of `VideoStream` as fairness, and checked by TLC
of `Encoder` (`LastFrameComesOut`); of the queue it depends on the link.

## 5. Not modelled

* Relaxed atomics: the loads of `pipeline_depth()` and the flags are taken in program order.
* GPU and Media Foundation work (conversion, type negotiation, shaders), display
  enumeration, the dummy source, arguments, logs, scripts: no state that outlives a
  call, or pure I/O. Header validation in `protocol.h`, cursor shape conversion, LZ4 and the
  clamping of rectangles are pure functions the repository's tests cover.
* Clock synchronisation and the statistics overlay: nothing the program does depends on them.
* A pool of which only some textures could be made (`dxgi_capture.cpp:422`): those before the failure stay, `pool_[0]`
  is there, the rest is never made, and when its turn comes a null texture is pushed for the loop to dereference. In the
  model the pool is made whole or not at all (the dummy source, `sender/main.cpp:356`, tests for this).
* `run_lz4` after a mode change (`sender/main.cpp:139`): it goes on with the size it read first. In `Session` too its frames are all of that
  size (`Lz4Frame`), where the code's carry the present one.
* The memory of rates among several clients: `RateControl` has one; eviction, which may forget
  the client just refreshed (`rate_memory.h:69`), needs nine.
* The control channel's framing, the overlay's back buffer, the limit of 4096 rectangles in a message, `--no-adapt`.
* Small paths that are folded into a neighbour, or left out:
  * The event thread's exit on a `GetEvent` that fails while the encoder lives (`mf_encoder.cpp:801`): nothing comes out after it, and only a new
    connection helps. `LastFrameComesOut` and the stream's liveness assume an MFT whose event queue works.
  * `MF_E_TRANSFORM_STREAM_CHANGE` (`mf_encoder.cpp:839-846`) loses no frame; `Encoder` treats it as an output that fails, which does.
  * `notify_one` after the unlock (`packet_sender.cpp:106`) is part of the push: in between, the drain thread can only wake up by itself.
  * A frame of another size or format that the loop skips (`sender/main.cpp:659`) is in `SenderSession` only; `FramePacer` and `VideoStream` see one mode.
  * Frames that carry only a cursor (`dxgi_capture.cpp:390-394`) and other failures of `AcquireNextFrame` (`362-367`) are an acquire with nothing new.
  * A control message that cannot be sent (`receiver/main.cpp:164-169`) is the connection's failure, which the receive thread then sees.
  * `present()` without a render target (`presenter.cpp:587`), and so a resize that leaves none, draws nothing.
  * A keyframe request the encoder's `ICodecAPI` rejects (`mf_encoder.cpp:731-736`): it is taken to be accepted.
* Strangers are connections that say nothing; one that says something wrong is turned away the same way.

## 6. Plan

Written, in this order: send queue and contract; stream; pacer; encoder; rate control; session with
mode changes; cursor and receive path; LZ4 path; the proofs of each; the contracts of encoder and pacer and
the proofs that all three are kept. What would add most next:

1. `force` in `EncoderPipe`, so that the rejected `ICodecAPI` call of `request_keyframe` is a step of `Encoder` too.
2. The contract of capture and mailbox towards the run loop (`SenderSession` has the frames of the wrong mode that
   `VideoStream` leaves out), and of one connection of `Session` towards `VideoStream`.
3. A pool made in part, with the null texture followed through the encoder; `RateMemory` among several clients.
4. `ClockSync`: `on_pong` against a reference over bounded probes.
