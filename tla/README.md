# Verification of the LiveKit C++ SDK

TLA+ models of what decides whether a client of a room works: how it connects and leaves,
negotiates what it publishes, answers what the server offers, keeps the connection alive,
finds the media of the other participants, exchanges data messages, encrypts frames, and
runs its microphone, camera and shared screen. The code is in `src/` of the repository;
paths below are relative to `src/rtc/src/` unless they start with `include/` or
`signaling/`. PROJECT.json has, for every definition of a model, the lines it stands for,
and the list of hazards the properties are for.

## The system

A `Session` owns an `RTCEngineImpl`, which owns the connection. Tracks, sources and the
audio device module are made by a `Service` and outlive sessions. These threads run in it:

- the *user's* threads, in the methods of `Session`, `Service`, tracks and devices;
- the *WebSocket* thread, where reports of the socket and messages of the server arrive;
- the *signaling* thread of WebRTC, to which `Transport` posts what it asks of a peer
  connection, on which the peer connection calls back, and to which sources post what
  they ask of a capturer;
- the *events queue*, to which `AsyncListener` posts calls of listeners, and which runs
  the tasks of `MediaTimer`;
- the *worker* thread, on which the audio device module lives;
- one thread per receiver that decrypts, and the threads of capture sessions and timers.

State is shared between them in atomics (`std::atomic`, `std::atomic_exchange` of shared
pointers) and in objects with a lock of their own (`Bricks::SafeObj`). Almost no
operation holds a lock, or acts on an atomic once, from beginning to end: that is where
the interleavings come from.

| Component | State | Operations | Talks to |
|---|---|---|---|
| Engine (`RTCEngineImpl`) | `_pcManager`, `_joined`, `_reconnectAttempts` | connect, disconnect, cleanup, one handler per message | all others |
| Signaling client (`SignalClientWs`) | `_transportState` | connect, disconnect, reports of the end point | engine, through the events queue |
| Signaling messages (`ProtoMarshaller`) | none | structures to messages of the protocol and back | signaling client |
| Transport manager (`TransportManagerImpl`) | debounce id, count of data channels, postponed negotiation, state | negotiate, add/remove track, offers of the server, close | two `Transport`s, engine |
| `Transport`, SDP observers | the peer connection, null once closed | post to the signaling thread | transport manager |
| Keep-alive (`PingPongKitImpl`, `MediaTimerImpl`) | `_started`, ids of single shots, listener | start, stop, tick, shot, pong | engine |
| Remote participants (`RemoteParticipants`, `RemoteParticipantImpl`, `NonBindedRtpReceivers`) | participants with infos and track objects, receivers not bound yet | setInfo, updateInfo, addMedia, removeMedia, reset | engine |
| Local participant and tracks | devices, tracks, mute, sids | add/remove device, mute, set sid | transport manager, server |
| Data channels (`DataChannelsStorage`) | channels by label, a listener | add, remove, send, receive | transport manager, user |
| Key handlers, cryptors (`DefaultKeyProvider`, `E2EKeyHandler`, `AesCgmCryptor`) | key ring per participant, state of a cryptor | set, share, ratchet keys; encrypt and decrypt frames | tracks |
| Audio device module (`AdmProxy`, `AdmProxyState`, `Service`) | mute, volume and range as the application, the mirror and the device have them | set mute, volume, device; start, stop, close | WebRTC |
| Cameras (`AsyncVideoSource`, `AsyncCameraSourceImpl`, capturers) | viewers, options, state, capturer | add/remove sink, enable, set options, device, close | tracks, capture session |
| Screens (`AsyncSharingSourceImpl`, three capturers) | what is shared, the capturer, its timer or stream | the same, and select, set frame rate | tracks, system |
| Statistics (`Stats`, `StatsReport`, extensions) | who keeps a report | deliver, copy, get, ask | user |

What makes these correct, and is hard:

- *Negotiation.* No change of the tracks may be lost between the debounce timer, the wait
  for the data channels and the signaling thread. An offer of the server must be answered
  or the session must end.
- *Keep-alive.* One chain of ticks whatever start and stop do; a silent server must be
  noticed, a live one must not be taken for silent; stop must really stop.
- *Remote participants.* A message and a receiver that arrive on two threads in any order
  must meet, once, and both must go when either is withdrawn or the session ends.
- *Engine.* Three threads may end the same session; a lost connection must end it; what
  the transport state says must be what the socket is in, and what the user is told must
  be what the transports are in.
- *Local tracks.* What a transport manager sends must follow the devices although it may be
  made while devices come and go; the server's mute must end up as the user's.
- *Data messages.* Nothing doubled, overtaken or delivered to the wrong session.
- *Keys and frames.* A shared key must be everybody's; only failures may invalidate a key;
  a frame must be found in what it was packed into.
- *Microphone, camera, screen.* Calls of several threads, tasks on queues and answers of
  the system cross; at rest the device must be in the state that was asked for, nothing may
  go on capturing that nobody wants, and what the application is shown must be true.

## The modules

| Module | Models | Checked with |
|---|---|---|
| `Negotiation` | publisher side of `TransportManagerImpl` and `Transport` | `MCNegotiation` |
| `Subscription` | its subscriber side: offers, answers, candidates, tracks, state, close | `MCConnection` |
| `Session` | engine and `SignalClientWs`: connect, leave, cleanup | `MCConnection`, `MCSession` |
| `KeepAlive` | `PingPongKitImpl` on `MediaTimerImpl` | `MCSession`, `MCKeepAlive` |
| `RemoteParticipants` | participants, track objects, waiting receivers, cleanups | `MCRemoteParticipants` |
| `LocalTracks` | devices, their senders and mutes against managers and messages of the server | `MCClient` |
| `Exchange` | abstract: what the data messages of a room promise | `MCClient` |
| `DataMessages` | `DataChannelsStorage` on both ends of a message; implements `Exchange` | `MCClient` |
| `Statistics` | a report, its entries and what their getters return | `MCClient` |
| `FrameFormat` | the layout of encrypted frames (`AesCgmCryptor`) | `MCClient` |
| `FrameKeys` | key provider, key rings, failures, the window of ratchets | `MCMedia`, `MCFrameKeys` |
| `AudioModule` | `AdmProxy`, its mirror, transport and the `Service` above it | `MCMedia` |
| `CameraSource` | `AsyncVideoSource`, `AsyncCameraSourceImpl`, the capturer of macOS | `MCMedia` |
| `ScreenSource` | `AsyncSharingSourceImpl`, its timer and three capturers | `MCMedia`, `MCScreen` |
| `NegotiationProofs`, `SubscriptionProofs`, `SessionProofs`, `RemoteParticipantsProofs`, `LocalTracksProofs`, `DataMessagesProofs`, `FrameKeysProofs` | theorems about the module of the name; `SessionProofs` also about `KeepAlive`, `DataMessagesProofs` about `Statistics`, `FrameKeysProofs` about `FrameFormat` | |
| `MediaProofs` | theorems about `CameraSource`, `AudioModule` and `ScreenSource` | |

All follow one scheme. An action is what a thread does between two points where another
thread could get in between: one access of an atomic, one section under a lock, one posted
task. Where a thread is in the middle of an operation is a value (`at[t]`, `ws`, `doing`,
`step`, `todo`). Queues of threads are sequences. Variables that are history, not state of
the program, say so where they are declared. A definition named `Mut...` is a plausible
mistake in the definition that follows it; the specifications do not use it, it serves to
see that a property would notice.

`MCConnection`, `MCSession`, `MCClient` and `MCMedia` each explore several modules that
share no state in one run: a variable `part` says which one moves, the others rest in an
initial state. Their states are the sum of the parts' states, and a property of one part
is checked as if it ran alone.

### Negotiation

`sig` holds the tasks posted to the signaling thread, `events` the calls posted to the
events queue. The delayed tasks of the debounce timer are `shots`, their id in the
timer's set is `armed`; `dcCount` and `pending` are the atomics behind
`createPublisherOffer`, whose read of the count (`Check`) and the action on it
(`Postpone`, `Offer`) are different steps. `senders`, `lines`, `data` and `local` are what
the peer connection (external) holds, `unanswered` what the server (external) has to
answer. Strings of SDP are reduced to the number of their m-sections, which is what a
peer connection compares. `close()` is three steps, as its effects are. `updateState()` is
`ResetGate` when the primary transport is closed and `LoseConnection` when it is
disconnected for a while: both cancel the debounce, but after the second the session goes on.
`cut` is history: such a cancel hit an armed debounce and nobody has negotiated since.

### Subscription

`inbox`, `sig` and `posted` carry an offer of the server through the WebSocket thread, four
tasks of the signaling thread and the events queue; `applied` and `local` are the
descriptions the peer connection has. `conn` is the state of each transport, `state` what
the manager has exchanged, `told` what the user has heard; reading a state and exchanging
it are two steps (`reading`) on the two threads that do so. `closing` follows the thread
that closes the manager through both transports, release by release. Of the ways in which
a step can fail, three are only logged: an offer that does not parse (`OnOffer`), an answer
that cannot be written as text (`SetLocalDescription`), a request the socket does not take
(`OnSubscriberAnswer`). They leave the number of the offer in `dropped`, which is history.

### Session

`transport` is the state in `SignalClientWs`, `socket` that of the external end point.
Telling the listener of a change (`Announce`) is a step after the change. `manager` is
`_pcManager`, as a number, and `held[t]` the one thread `t` has taken out of it and is
closing. The end point reports its close from the WebSocket thread, or from within
`close()` if `ClosesAtOnce`: its library is not in the repository, so both are modelled.
`Patient` restricts the user to connecting in the state Disconnected.

### KeepAlive

Time is discrete and passes when no task is due on the events queue. `ticks` and `shots`
are the delays of the tasks queued there. `ticking` says that the events thread is inside
`nextTick`, which posts the next tick when the callback returns. `PingPongKitImpl` and the
timer share `started`; the id of the single shot is `armed`. Pings and pongs are counted
in `unanswered`.

### RemoteParticipants

`present`, `listed` and `bound` are the participants, the tracks in their infos and how
many track objects there are for each; `waiting` is `_nonBindedReceivers`. setInfo,
updateInfo and reset hold the lock of the participants from begin to end: `lock` names
the holder, `job` what it still has to do, participant by participant, because the
storage of receivers has a lock of its own and can change in between. Two things about
that storage are as in the code: `reset()` empties it before it has the lock
(`ClearStorage`, `ResetRoom`), and `removeMedia` looks for the id of the receiver while
`addMedia` files it under the sid (`KeysOf`; the tracks for which they differ are
`Foreign`). `dropped` is history: tracks whose receiver went with an info or a reset.

### LocalTracks

`devices` is what the local participant has, `named` the senders that carry the id of their
device, `extra` a second sender of a device, under another id. The WebSocket thread makes a
manager (`ws.step = "install"`) between reading the devices and installing it, which is
where `crossed` comes from. `requests`, `replies` and `copy` are the server's side of
AddTrack and mute; the reconciliation in onTrackPublished reads a mute and tells it in two
steps. Three things may fail with no more than a callback or a line in the log: the peer
connection refuses a sender (`RunAdd`) or does not give one up (`RunRemove`), and the socket
does not take a request (`Send`). What that leaves behind is history: `refused`, `stuck`, and
`misinformed` for devices whose last request was lost or told a mute that had changed since.

### DataMessages and Exchange

`Exchange` promises, on each channel: what arrives was sent, once, in the order of sending;
it may be lost. `DataMessages` has a sender and a receiver whose sessions come and go
independently. `local` and `remote` are the storages, by label; a channel belongs to a
session and stays when the session is gone, since nobody clears the storages. `hand` is the
message of a user's thread that has its channel and not sent yet; `up` and `down` are the
ways to and from the server (external). `listening` is set by the Connecting of a session
and reset as the last thing the end of one does.

### Statistics

`owners` are those who keep the report of WebRTC, and each getter of each class is an entry
of `Getters`, with the attribute it really returns where that is another one.

### FrameFormat and FrameKeys

`FrameFormat` builds frames byte by byte, out of the few bytes that make a difference: 0 and
1 for start codes, 1 for a slice of H264, 38 for one of H265. Sealing may yield any
bytes. The header in the clear is looked for anew by the receiver, in other bytes than the
sender had (`HeaderSize`), and taken as an `uint8_t` (`HeaderLimit`). `WriteRbsp` counts zeros as
it goes; `Escape` says by their number which bytes it puts a 3 before, and where every byte
goes (`PlaceOf`), so that proofs need no induction over the frame.

`FrameKeys` writes a key as a password ratcheted so many times. `half` is a setSharedKey
that has reached the participants' handlers and not yet the shared one;
`work[p]` the frame being decrypted and the material read for it; the application may set
another key meanwhile. `parted` are participants that were given another key
than the rest.

### AudioModule

`muted`, `level` and `range` are the service's, `mirror` is `AdmProxyState`, `hw` the device
of WebRTC (external): the same settings in three places, carried by tasks of the `worker`
and notifications on the signaling queue (`news`). A call that waits for the worker holds
the lock of `_impl`, which every task of the worker takes: `holder`.

### CameraSource and ScreenSource

In both, calls of the application change the source under its lock and post to the
signaling queue afterwards; the queue's task is `step`, or `todo`, of which the steps that
another thread may see are apart. `CameraSource` has several viewers on threads of their own
and a capture session that answers later; the state shown is `source`. `ScreenSource` has
one application thread, and three kinds of capturers with their timer (`ticking`, `beats`,
`capturing`) or stream (`stream`, `replies`). A delayed task of the timer carries its own
interval and is not cancelled.

### How they fit together

Each module has the part of its neighbours it depends on: `Negotiation` and `KeepAlive`
end with the session (`gone`), `Subscription` with either way of closing its manager,
`RemoteParticipants` has the cleanups of the engine with the order that matters there
(storage, room, manager), `LocalTracks` has the installing and taking out of managers,
`DataMessages` the order in which `disconnect()` resets the listeners, and `Session` has
those cleanups as `disconnect()` alone. The manager's failures are calls on the events queue
in all of them. `FrameFormat` assumes that both sides have the key that `FrameKeys` is about.

## What is checked

`tlc -config X.cfg MCxxx` in this directory runs one of them; each takes between some
seconds and two minutes.

`negotiation_safety` (`MCNegotiation`, `NegotiationSafety.cfg`): two tracks, the delay, all
failures. No change is lost unless the loss of the connection cancels the debounce
(`NoLostUpdate`), an armed debounce has its task
(`ArmedHasShot`), no offer leaves without data channels (`OfferNeedsChannels`).

`negotiation_live` (`NegotiationLive.cfg`): a change after the channels exist is offered, and
so is an offer postponed before (`ChangesAreOffered`), with the same exception.

`participants_safety` (`MCRemoteParticipants`, `RemoteParticipantsSafety.cfg`): receivers and
infos meet (`NobodyWaitsInVain`), once (`OneObjectPerTrack`), none is lost
(`NoReceiverIsLost`), none outlives its media (`RemovedMediaIsGone`).

`participants_live` (`RemoteParticipantsLive.cfg`): a listed track whose media has come gets
its object (`ListedMediaIsBound`).

`session_safety` (`MCConnection`, `ConnectionSafety.cfg`), two parts:
- `Session`: a manager is taken out once and none is left for the next connection
  (`DisconnectIsClean`), transport state and socket agree (`TransportAgrees`);
- `Subscription`: an offer of the server is on its way to an answer, or the session is ending,
  or a failure of it was only logged (`OfferIsAnswered`); at rest the user was told the state of the
  primary transport, and for
  good when the manager is closed (`StateIsTold`).

Deadlock is checked: `Session` never stops, and `Subscription` may stop only when its manager
is gone and the queues are empty (`Over`).

`session_live` (`MCSession`, `SessionLive.cfg`), two parts:
- `Session` with late reports of the end point: a lost session ends (`LostSessionEnds`);
- `KeepAlive`: one chain of ticks that brings pings (`PingsAreRegular`), a timeout that
  keeps its deadline (`ArmedDeadline`), no task left after `stop()`, also when it overtakes
  `start()` (`StopDrains`).

`client_safety` (`MCClient`, `ClientSafety.cfg`), four parts:
- `LocalTracks`: the manager's senders follow the devices (`ManagerFollowsDevices`), the
  server's copy of a mute is the user's in the end (`ServerKnowsMute`);
- `DataMessages`: it implements `Exchange` (`ImplementsExchange`, a refinement); no gap in the
  reliable messages of a session (`NoGap`), a connected session has its listeners
  (`HeardUnlessCrossed`), nothing of an old session comes after something of a new one
  (`OldSessionIsSilent`);
- `Statistics`: getters and types tell what WebRTC has, as long as anything is asked
  (`StatisticsAreTrue`);
- `FrameFormat`: a frame that is passed on is the one that was sent, and the ways in which one
  is lost are three (`FramesSurvive`).

`media_safety` (`MCMedia`, `MediaSafety.cfg`), four parts:
- `FrameKeys`: the shared key is everybody's (`SharedKeyHolds`), a key is invalid exactly after
  so many failures (`ValidUntilTolerance`), decrypting never puts a key in a ring that nobody
  chose (`NoKeyIsInvented`);
- `AudioModule`: at rest service, application and device agree (`AgreedAtRest`), the device
  never calls a transport that is gone (`CallbackIsAlive`);
- `CameraSource`: at rest the camera runs for those who watch and for nobody else, with
  their options and shown as live (`CameraFollowsWish`), and a source that has ended stays so
  (`EndedIsFinal`);
- `ScreenSource`: at rest the source chosen last is captured for those who watch, and nothing
  else is (`ScreenFollowsWish`).

Four more runs find the code at odds with its own comments or interface; "findings" in
PROJECT.json quotes the lines.

| Run | Finds |
|---|---|
| `negotiation_stranded` (`NegotiationStranded.cfg`) | an offer postponed between the read of the count and the write of the flag is left behind |
| `keepalive_silence` (`MCKeepAlive`, `KeepAliveSilence.cfg`) | a silent server is never reported |
| `frame_keys_ratchet` (`MCFrameKeys`, `FrameKeysRatchet.cfg`) | the window of ratchets swaps salt and material, so that no ratchet of a sender is followed |
| `screen_rate` (`MCScreen`, `ScreenRate.cfg`) | after the frame rate of a screen is lowered, a tick under way goes on at the old rate |

### Exceptions

Where the code does not keep what it seems to promise, and no text of the repository clearly
speaks against it, the property names the exception. Each of them was found by TLC, which
refutes the property without it:

- `NoLostUpdate`, `ChangesAreOffered`: a primary transport that is disconnected for a while
  cancels the armed debounce (`TransportManagerImpl.cpp:421`), and the change that armed it
  waits for the next one to ask for a negotiation (`cut`).
- `OfferIsAnswered`: an offer that does not parse (`RTCEngineImpl.cpp:675`), an answer that cannot
  be written (`TransportManagerImpl.cpp:482`) or not be sent (`RTCEngineImpl.cpp:890`) is
  logged and nothing more: the session goes on, the server waits (`dropped`).
- `FramesSurvive`: a frame of H264 or H265 whose sealed part had to be escaped is lost,
  because what `ParseRbsp` returns is dropped (`webrtc/media/e2e/AesCgmCryptor.cpp:404,409`)
  (`WasEscaped`); so is one with its first slice beyond 255 bytes, as the size is an
  `uint8_t` (`Wrapped`), and one whose sealed bytes seem to begin a slice (`NewSlice`).
- `StatisticsAreTrue`: `responsesReceived` of a candidate pair returns the requests received;
  the type of a candidate is told as unknown, since `StatsData::type` compares the id of the
  entry; an attribute points into a report that it does not keep. What the model does not
  have: `StatsReportData::map` takes microseconds for nanoseconds, and
  `StatsAttribute::operator !=` is true of two different objects whatever they hold.
- `ManagerFollowsDevices`: a device added while a manager is being installed may be sent
  twice (`crossed`); one that the server has unpublished is not (`rejected`), nor one whose
  sender the peer connection refused (`refused`); one whose sender could not be taken away
  still is (`stuck`).
- `ServerKnowsMute`: the last request about a device may be lost, with a `TODO: log error`
  (`RTCEngineImpl.cpp:525`), or be a reconciliation with a mute the user has changed since
  (`misinformed`).
- `NoGap`, `HeardUnlessCrossed`, `OldSessionIsSilent`: a packet whose bytes parse as a response
  of the server is dropped (`misread`); sessions that overlap (`overlapped`) may leave the
  newer one without listeners.
- `StateIsTold`: a state that the signaling thread exchanges after the manager was taken out
  may be told last (`late`).
- `AgreedAtRest`: a mute posted when another thread has already changed it (`late`), settings of
  a device that is no longer the one selected (`adrift`), a recording that did not start again
  after a change of the device (`broken`).
- `CameraFollowsWish`: tasks posted in another order than their calls were made leave the
  camera off (`crossed`), options that come while it starts are not used (`missed`), and a
  start that fails is not retried (`failing`). `EndedIsFinal`: a start after new options
  brings an ended source back (step `tell`).
- `ScreenFollowsWish`: a frame or an answer of ScreenCaptureKit after a stop brings the capturer
  up again, so that the next start is refused (`slipped`). A source that cannot be selected
  is not captured (`unstarted`). Also in the model: a second request with a capturer already
  there tells of a failed creation; a switch between screens of one type adds a chain of
  ticks; a fatal error destroys the capturer from within its own callback.

A pong handled before its timeout is armed leaves it armed, and the task of a cancelled shot
may take the id of the next one (`KeepAlive`); the runs show both, no property forbids them.

### Bounds

- *Negotiation*: one or two tracks, each published and withdrawn once. Two tracks are
  enough for two changes in flight on every thread. Nothing else is bounded. The runs have
  a delay; the theorems cover both values of `Delayed`.
- *RemoteParticipants*: two participants with a track each, `MaxSessions` 2 so that an old
  session meets a new one, `MaxCalls` 2 in the events queue: an add and a remove, or media
  and the loss of the connection. The live run has one participant and one session.
  `Foreign` is empty: receivers are named like their tracks.
- *Session*: `MaxSessions` 2 for the same reason, `MaxCalls` 3, `ReconnectAttempts` 1 so
  that the limit is met. The end point reports at once and the user is impatient in
  `session_safety`, later and patient in `session_live`.
- *Subscription*: one track of another participant, `MaxEvents` 3 offers of the server and
  changes of state in all: an offer and its successor with a change between them, or a
  connection, its loss and its failure.
- *KeepAlive*: interval 2, timeout 3: the timeout is longer than the interval, as LiveKit
  servers configure it, so shots of several pings overlap. `Horizon` (7 and 9) covers
  three intervals and more.
- *LocalTracks*: two devices, `MaxManagers` 2, `MaxCalls` 3: one device is published, removed
  and muted while another one is, across a reconnection.
- *DataMessages*: one session of the sender, two of the receiver, two messages: what an old
  session, and an earlier message, can do to a new one. Proved for any number.
- *Statistics*: every class of entry and every getter; times 0 and 1500 microseconds.
- *FrameFormat*: frames up to six bytes, so that two start codes overlap, with a header of 4
  bytes for 12 when there is no slice, and a limit of 7 for 256, so that it is met. Two IVs,
  one that must be escaped.
- *FrameKeys*: two participants, one password and the empty one, rings of two, one ratchet, two
  calls of the application (three in `frame_keys_ratchet`), a tolerance of two.
- *AudioModule*: two threads, two microphones with ranges 2 and 4, so that a volume is
  converted between them; two changes and one start, any of which may cross.
- *CameraSource*: two viewers, two sets of options, five calls.
- *ScreenSource*: two screens and a window, two rates, three calls; at most two tasks wait on
  the queue of the timer.

`CHECK_DEADLOCK FALSE` is set where a part comes to rest: all tracks withdrawn, the keep-alive
stopped, the calls or messages used up. Two modules also stop where the code may hang:
`AudioModule` if a user who waits for the worker holds the lock an earlier task wants
(`webrtc/media/audio/adm/AdmProxy.cpp:996`), and `CameraSource` and `ScreenSource` if a reset
waits for an observer that is in an error which wants the lock of the capturer
(`webrtc/media/video/camera/AsyncCameraSourceImpl.cpp:82` and the same in the sharing
source). Both depend on a submodule that is not in the repository, so they are listed as
hazards, not as findings.

### Fairness

Only three modules have liveness properties. Weak fairness for what a thread has begun and
for the events queue: threads of the operating system and task queues of WebRTC go on.
`RemoteParticipants` has strong fairness for the steps that take the lock of the participants:
the lock is free between any two messages, and a mutex does not starve a thread that keeps
waiting. `Session` also assumes that a closing socket closes. The fairness of `KeepAlive`
(`PingFairness` in `MCSession`) is that of its thread steps and of time; it binds only where
that part moves. Nothing is assumed of the server, the network, the peer connection or the
user: messages may stop, media may never come, the user need not disconnect.

### Assumptions about what is outside

- The server names a participant once in a message and a track under one participant; it
  sends Join or Reconnect once per socket, and its next offer when the last one is answered.
  It delivers the messages of a data channel in order, or not at all.
- The peer connection handles tasks in order, takes an answer only for its pending offer
  and only with as many m-sections.
- The events queue runs its tasks in order, and delayed tasks when they are due.
- The lock of `SafeObj` is exclusive and may be taken again by its owner; a
  `Bricks::Listener` that is reset waits for a call that is under way on another thread, and
  may be reset from within one on its own.
- A device has one mute and one volume, which stay with it. A capture session and a stream
  of ScreenCaptureKit answer once to each start and stop, or break.
- Only the key, IV and header that sealed a frame open it.
- The trailer of the server's frames does not look like the end of an encrypted frame, the size
  of an IV and the index of a key (`SifIsApart`): `decryptFrame` looks for it first, and would
  cut it off an encrypted frame and hand the rest on. Nothing in the repository says what
  the trailer consists of.
- `Patient`, in `session_live`: without it, and with late reports, TLC finds a `connect()`
  made while the old socket closes whose refused successor marks a living session as
  Disconnected, so that its loss is not noticed. With `ClosesAtOnce` it finds a manager made
  just after the cleanup that closed its socket. Nothing in the repository says how the end
  point or the user behaves here.

## What is proved

TLAPS checks the theorems for every value of the constants: any number of tracks,
participants, sessions, messages, attempts, any interval, whatever fails. The constants need
no more than their types and what a constructor fixes (`...Assumption` in each module).

- `NegotiationProofs`: `TypeCorrect`, `ChangesAreNotLost`, `ArmedDebounceFires`,
  `OffersCarryData`. A change is not lost because somebody always is on the way to an
  offer, `NegotiationUnderWay`; the invariant says who, and that nothing but a lost connection
  (`cut`) takes him away. That no offer leaves before the
  channels rests on `ChannelInv`: their creation comes first in the queue and the count
  follows it.
- `SubscriptionProofs`: `UserIsTold`, `OffersAreAnswered`. `ClosingInv` says which transports are
  open at each step of closing, `StateInv` that the manager has the state of the primary
  transport or has read it. What the user knows follows from the last call of a kind in the
  queue (`ToldInv`): it carries what the manager has, and if none is left the user has that;
  after the end every other state in the queue is before the "disconnected" (`OverInv`). A round
  of an offer is in one place (`RoundInv`): in `inbox`, at one of three tasks, in `posted`, or
  idle with all answered, failed, given up with a line in the log (`dropped`) or gone. Before the
  first offer is applied candidates are
  behind one (`CandidateInv`).
- `SessionProofs`: `TypeCorrect`, `ClosedByOne`, `RetryIsClean`, `ClosedCleanly`,
  `StateFollowsSocket`. A new manager differs from all others (`MadeBefore`), and the WebSocket
  thread finds none from the exchange to the retry (`NoneWhileLeaving`); `AttemptLeft` bounds
  the attempts. `StateFollowsSocket` needs `ClosesAtOnce \/ Patient`: without either it does
  not hold (see the assumptions above). `AgreeInv` says who has opened the socket, and who has
  yet to say that it closed.
- `RemoteParticipantsProofs`: `TypeCorrect`, `ReceiversMeetInfos`, `ReceiversAreKept`,
  `ObjectsAreUnique`, `RemovedMediaIsForgotten`. `NobodyWaitsInVain` is inductive with the types
  and with `JobNames`, what the holder of the lock works on. That no receiver is lost rests on
  the order of the calls about one track, which alternate and end with what the peer
  connection has (`CallsInv`); the last two need in addition what the queue hears next of a
  track that is bound or waits (`ServedInv`), and `Foreign = {}`, as `removeMedia` does not find
  a waiting receiver whose id is not that of its track.
- `LocalTracksProofs`: `DevicesAreFollowed`, `MutesAreKnown`. One task or call in flight answers
  for each difference between devices and senders (`UserInv`, `WithdrawInv`), and a device that
  was not added across an installation is posted once (`OnceInv`). Of a device at most two
  publications are under way at any time, and at most one once the server has it (`ItemsOf`);
  where the server's copy of a mute differs, a mute change, its echo or the reconciliation is
  still on its way and will set it right (`MuteOf`), unless the device is `misinformed`. A
  `refused` device is not among those that must be on their way (`Published`), and a `stuck` one
  not among those with a task to withdraw them (`WithdrawInv`).
- `FrameKeysProofs`: `TypeCorrect`, `SharedKeyIsShared`, `OnlyFailuresInvalidate`,
  `RingsHoldChosenKeys`. In the midst of setSharedKey the participants have what the shared
  handler is going to have (`Meant`); a frame is tried only with a handler that has a key
  (`KeyedWhileWorking`), and what it may write back is a key the application chose (`OwnInv`).
- `FrameKeysProofs`, of `FrameFormat`: `FramesAreKept`, under `SifIsApart`. What is behind the header
  of a frame ends with its trailer even if it was escaped (`SealedFacts`), so that it is not
  taken for a frame of the server. If nothing was escaped the parts are where they were put
  (`PartsAreFound`), and the header is found again unless a slice was added or its size wrapped
  (`HeaderIsFound`, by `FirstSliceFacts`: there is a first slice). `FrameInv` says of what parts a
  frame is at each step.
- `DataMessagesProofs`: `DataTypeCorrect`, `ConnectedIsHeard`, `DataImplementsExchange`,
  `SessionsDoNotMix`, `NothingIsSkipped`. A session has its listeners because the thread that
  ends the one before either is done or counts it as overlapping (`HeardInv`). The refinement
  rests on `OrderInv`: on each channel what has arrived comes before what is on its way down,
  that before what goes up, and that before what a thread has in its hand. That sessions do
  not mix rests on when a session ended and whose channels can still carry (`SessionsInv`).
- `DataMessagesProofs`, of `Statistics`: `StatisticsStayTrue` goes through the classes and
  extensions (`TypesAreTold`, `ExtensionsAreFound`); the report is
  there since the statistics own it (`StatsInv`).
- `SessionProofs`, of `KeepAlive`: `PingTypeCorrect`, `PingsRegular`, `TimeoutIsKept`. The
  invariant `PingInv` adds that the delays in the queue are ordered, where a tick can be while
  the timer is started, and that a timeout is armed with no time between ping and arming.
- `MediaProofs`, of `CameraSource`: `CameraIsFollowed`, `EndIsKept`. `CapturerInv` says what the
  capture session may still have to tell in each state of the capturer. A camera nobody wants,
  or that will not run without another call, has a reset on its way (`ReleaseInv`); one that is
  wanted and missing has a request on its way, behind every reset, as long as no calls cross
  (`RequestInv`).
- `MediaProofs`, of `AudioModule`: `AudioAgrees`, `CallbackStaysAlive`. The last notification of
  each kind in the queue says what the mirror has (`NewsInv`), the last mute among the tasks is
  the one of the service (`MuteInv`), and the mirror has the volume of the device but for the
  cap of its range (`MirrorInv`). The service shows that volume or will hear of it: a new range
  is always followed by a volume or a start, and a volume the mirror does not have is on its
  way (`VolumeInv`). It needs that a volume made a level comes back as it was (`VolumeFacts`),
  which holds as the range divides `Whole`.
- `MediaProofs`, of `ScreenSource`: `ScreenIsFollowed`. The steps of a task follow each other in
  order and find the capturer they are for (`PlanInv`), and a capturer that is gone leaves
  nothing behind but its own end (`NoneInv`). One nobody wants has somebody on the way to take
  it away, one that is wanted and missing is made after every reset (`WantInv`). Outside of a
  task the phase of a capturer agrees with its timer (`TimedInv`), what the system captures
  with the phase once its tasks are done (`RunInv`), and the source with the one chosen
  (`ChosenInv`); a capturer that came up or went down untold (`slipped`) is out of these.

Every invariance theorem follows the same argument: an invariant that holds initially, one
lemma or step per action that keeps it, and its conjunct that is the property.

Only model-checked: the liveness properties and anything with ENABLED, which this prover does
not do, and the type invariants that put those of several modules together for a run
(`ConnectionTypeOK`, `LifeTypeOK`, `ClientTypeOK`, `MediaTypeOK`); what theorems need of the types is in
their invariants. `RateIsKept` of `ScreenSource`, like the other three findings, does not hold.

## Not modelled

The definitions stand for about a ninth of the lines of the implementation. Most of the rest
has no control that a model checker could explore:

- *Video buffers and codecs* (`webrtc/media/video`): conversions between pixel formats,
  wrappers of encoders and decoders. The pool of buffers keeps a count:
  `VideoFrameBufferPoolSource` subtracts without looking when it is made smaller, which drops
  all free buffers and is harmless.
- *Platform code* (`mac`, `win`): calls of operating system libraries, window and device
  lists, the DirectShow graph of the camera of Windows.
- *Audio processing and sources*: filters, resampling, level meters, WAV files.
- *Remote tracks, public interface, helpers*: forwarding, declarations, formatting.
- *The messages of the signaling* (`signaling/`): `ProtoMarshaller` copies some hundred fields and
  thirty enumerations case by case, and a model would be the same list once more; it does not
  copy the text of a chat message (`ProtoMarshaller.cpp:1727`) and `TrackInfo.stereo` (`:891`).
  The dispatch is a table whose rows the compiler checks, one method per message.
- *Demo and build scripts.*
- *The cipher* and how an IV is made; the derivation of keys but for its arguments.
- *What the user is told* (`SessionListener`) besides the state of the connection; requests
  for subscriptions, tokens, moves between rooms.
- *Destructors*: of the engine, of a timer, of a transport while its tasks are queued.
- ICE, SDP patching, speakers (the microphone's code with other names), the choice of a
  format for a camera, the capturer of Windows.
- `bricks`, `websockets_api`, `protocol`, `psrpc`, `rnnoise` are submodules without files
  here. The repository has no tests.

Some behaviours came up while modelling and have no property, because nothing in the
repository says what they should be: updateInfo removes every participant that a message does
not name (`RemoteParticipants.cpp:119`); an Update between reset() and the closing of the
socket fills the room again (`RTCEngineImpl.cpp:231`); disconnect() before the answer of the
server does nothing (`:192`); the event of an old connection may close a new session
(`:944`); the reconnect asked for by a Leave in place of a Join is refused (`:732`); a key
index is cut to the size of the ring (`webrtc/media/e2e/E2EKeyHandler.cpp:121`); a failure of
the transport that is not primary is noticed only when it becomes primary; a listener that is
taken away after close() stays, since its setter finds the implementation disposed of.

## Plan

What a continuation would take up, in this order:

1. `Notifications`: join, leave and participants as told to the user; an abstract
   specification (a session is told of as joined, then left) that `Session` should refine.
2. An abstract publisher (every change is offered, offers are answered in order) that
   `Negotiation` implements under the condition that excludes its finding.
3. The capturer of Windows as a second `CameraSource`, requests of subscriptions.
