---------------------------- MODULE AudioModule ----------------------------
(***************************************************************************)
(* The microphone as the service, AdmProxy and the audio device module of  *)
(* WebRTC see it.  Threads of the application set mute, volume and device; *)
(* the worker thread runs what they post and what WebRTC calls; the        *)
(* signaling queue brings the service the news of AdmProxyState.  A call   *)
(* that waits for the worker holds the lock of _impl, which every task of  *)
(* the worker takes too.  The speaker has the same code with other names.  *)
(*                                                                         *)
(* External: the audio device module, one mute and one volume per device.  *)
(***************************************************************************)
EXTENDS Integers, Sequences

CONSTANTS
  Threads,     \* threads of the application
  Mics,        \* recording devices
  MaxOf,       \* MaxOf[d]: the volume of a device goes from 0 to this
  FirstMic,    \* the device there is at first
  Whole,       \* parts a normalized volume is counted in
  DefaultMax,  \* the range of _defaultRecording
  DefaultLevel,\* its normalized volume, in parts
  Wished,      \* the levels the application may ask for
  MaxChanges,  \* bound: calls of the application
  MaxStarts,   \* bound: recordings started
  Unset

VARIABLES
  muted, level, range,  \* _recordingMuted; _recordingVolume: its level and its maximum
  doing,     \* doing[t]: what a thread of the application is in the middle of
  holder,    \* the thread that holds the lock of _impl while it waits, or Unset
  worker,    \* tasks of the worker thread
  news,      \* notifications on the signaling queue
  telling,   \* what Service::onStarted is in the middle of
  mic,       \* the device selected
  recording, \* the device records
  hw,        \* hw[d]: mute and volume of a device
  mirror,    \* AdmProxyState
  heard,     \* what the listener of the service was last told of recording
  hooked,    \* the device has the transport as its callback
  transport, \* AdmProxyTransport: with a target, idle, closed or gone
  adrift,    \* history: settings the device may lack: never set, refused, or of another device
  late,      \* history: the mute posted last is not the one the service had by then
  broken,    \* history: a device was changed and recording did not start again
  changes, starts

serviceVars == <<muted, level, range, heard>>
deviceVars == <<mic, recording, hw, mirror, broken>>
callbackVars == <<hooked, transport>>
audioVars == <<serviceVars, doing, holder, worker, news, telling, deviceVars, callbackVars,
               adrift, late, changes, starts>>

ASSUME AudioModuleAssumption ==
  /\ Whole \in Nat \ {0} /\ DefaultLevel \in 0..Whole /\ MaxChanges \in Nat /\ MaxStarts \in Nat
  /\ DefaultMax \in 1..Whole /\ FirstMic \in Mics /\ Unset \notin Threads \cup Mics
  /\ MaxOf \in [Mics -> 1..Whole] /\ \A d \in Mics : Whole % MaxOf[d] = 0
  /\ Whole % DefaultMax = 0 /\ Wished \subseteq 0..Whole

Levels == 0..Whole
Settings == {"mute", "volume"}
Free == [step |-> "idle"]
Quiet == [step |-> "idle"]

----------------------------------------------------------------------------
(* VolumeControl: a level of Whole parts, rounded to a volume of a range.  *)

Volume(l, max) == (2 * l * max + Whole) \div (2 * Whole)
MutLevel(v, max) == v * (Whole \div max)
Level(v, max) == (IF v > max THEN max ELSE v) * (Whole \div max)

----------------------------------------------------------------------------
(* AdmProxyState: each change is a notification, forcePost.                *)

SetMute(s, m) ==
  IF s.mirror.mute = m THEN s
  ELSE [mirror |-> [s.mirror EXCEPT !.mute = m],
        news |-> Append(s.news, [op |-> "mute", mute |-> m])]

SetMinMaxVolume(s, max) ==
  IF s.mirror.max = max THEN s
  ELSE [mirror |-> [s.mirror EXCEPT !.max = max], news |-> Append(s.news, [op |-> "range", max |-> max])]

SetVolume(s, v) ==
  IF s.mirror.volume = v THEN s
  ELSE [mirror |-> [s.mirror EXCEPT !.volume = v],
        news |-> Append(s.news, [op |-> "volume", volume |-> v])]

SetStarted(s, b) ==
  IF s.mirror.started = b THEN s
  ELSE [mirror |-> [s.mirror EXCEPT !.started = b],
        news |-> Append(s.news, [op |-> IF b THEN "started" ELSE "stopped"])]

Update(s, d) == SetVolume(SetMinMaxVolume(SetMute(s, hw[d].mute), MaxOf[d]), hw[d].volume)

SetCurrentDevice(s, d) ==
  IF s.mirror.mic = d THEN s
  ELSE Update([s EXCEPT !.mirror.mic = d], d)

State == [mirror |-> mirror, news |-> news]
Becomes(s) == mirror' = s.mirror /\ news' = s.news

----------------------------------------------------------------------------
(* Service::Impl, on threads of the application.                           *)

Change == changes < MaxChanges /\ changes' = changes + 1
Closed == transport \in {"closed", "gone"}

\* The value changes first and is posted to the worker after that.
SetRecordingMute(t) ==
  /\ doing[t] = Free /\ ~Closed /\ Change
  /\ muted' = ~muted
  /\ doing' = [doing EXCEPT ![t] = [step |-> "post", op |-> "mute", value |-> ~muted]]
  /\ UNCHANGED <<level, range, heard, holder, worker, news, telling, deviceVars, callbackVars,
                 adrift, late, starts>>

SetRecordingAudioVolume(t, l) ==
  /\ doing[t] = Free /\ ~Closed /\ Change /\ l # level
  /\ level' = l
  /\ doing' = [doing EXCEPT ![t] = [step |-> "post", op |-> "volume", value |-> Volume(l, range)]]
  /\ UNCHANGED <<muted, range, heard, holder, worker, news, telling, deviceVars, callbackVars,
                 adrift, late, starts>>

\* A mute posted when the service has another one is late; a volume is told back.
Late(op, value) == IF op = "mute" THEN value # muted ELSE late

PostAdmTask(t) ==
  /\ doing[t].step = "post" /\ doing' = [doing EXCEPT ![t] = Free]
  /\ worker' = Append(worker, [op |-> doing[t].op, value |-> doing[t].value])
  /\ late' = Late(doing[t].op, doing[t].value)
  /\ UNCHANGED <<serviceVars, holder, news, telling, deviceVars, callbackVars, adrift, changes, starts>>

\* threadInvokeR: the lock of _impl is held until the worker has made the call.
SetAudioRecordingDevice(t, d) ==
  /\ doing[t] = Free /\ holder = Unset /\ ~Closed /\ Change
  /\ holder' = t /\ doing' = [doing EXCEPT ![t] = [step |-> "wait"]]
  /\ worker' = Append(worker, [op |-> "select", value |-> d])
  /\ UNCHANGED <<serviceVars, news, telling, deviceVars, callbackVars, adrift, late, starts>>

\* AdmProxy::close: no listeners, no target, and the rest is left to the worker.
Close(t) ==
  /\ doing[t] = Free /\ holder = Unset /\ ~Closed
  /\ transport' = "closed"
  /\ worker' = Append(worker, [op |-> "release"])
  /\ UNCHANGED <<serviceVars, doing, holder, news, telling, deviceVars, hooked, adrift, late,
                 changes, starts>>

----------------------------------------------------------------------------
(* The worker thread.  A task needs the lock, unless its caller holds it.  *)

Task(op) ==
  /\ worker # <<>> /\ Head(worker).op = op /\ worker' = Tail(worker)
  /\ op \in Settings => holder = Unset

Value == Head(worker).value

\* After close() there is no module to call, and the call fails.
RefuseSetting ==
  /\ \E op \in Settings : Task(op) /\ adrift' = adrift \cup {op}
  /\ UNCHANGED <<serviceVars, doing, holder, news, telling, deviceVars, callbackVars, late,
                 changes, starts>>

SetMicrophoneMute ==
  /\ Task("mute") /\ ~Closed
  /\ hw' = [hw EXCEPT ![mic].mute = Value] /\ Becomes(SetMute(State, Value))
  /\ adrift' = adrift \ {"mute"}
  /\ UNCHANGED <<serviceVars, doing, holder, telling, mic, recording, broken, callbackVars, late,
                 changes, starts>>

MutSetMicrophoneVolume ==
  /\ Task("volume") /\ ~Closed
  /\ hw' = [hw EXCEPT ![mic].volume = IF Value > MaxOf[mic] THEN MaxOf[mic] ELSE Value]
  /\ UNCHANGED <<mirror, news>>
  /\ adrift' = adrift \ {"volume"}
  /\ UNCHANGED <<serviceVars, doing, holder, telling, mic, recording, broken, callbackVars, late,
                 changes, starts>>

SetMicrophoneVolume ==
  /\ Task("volume") /\ ~Closed
  /\ hw' = [hw EXCEPT ![mic].volume = IF Value > MaxOf[mic] THEN MaxOf[mic] ELSE Value]
  /\ Becomes(SetVolume(State, Value))
  /\ adrift' = IF mirror.volume = Value THEN adrift ELSE adrift \ {"volume"}
  /\ UNCHANGED <<serviceVars, doing, holder, telling, mic, recording, broken, callbackVars, late,
                 changes, starts>>

WorkerIsFree == holder = Unset /\ ~Closed

\* WebRTC sends: InitRecording takes over what the device has, StartRecording follows.
StartRecording ==
  /\ WorkerIsFree /\ hooked /\ ~recording /\ starts < MaxStarts /\ starts' = starts + 1
  /\ recording' = TRUE
  /\ Becomes(SetStarted(Update(State, mic), TRUE))
  /\ broken' = FALSE
  /\ UNCHANGED <<serviceVars, doing, holder, worker, telling, mic, hw, callbackVars, adrift, late,
                 changes>>

StopRecording ==
  /\ WorkerIsFree /\ recording
  /\ recording' = FALSE /\ Becomes(SetStarted(State, FALSE))
  /\ UNCHANGED <<serviceVars, doing, holder, worker, telling, mic, hw, broken, callbackVars, adrift,
                 late, changes, starts>>

\* At its end WebRTC takes its callback back.
RegisterAudioCallback ==
  /\ WorkerIsFree /\ hooked /\ ~recording
  /\ hooked' = FALSE /\ transport' = "idle"
  /\ UNCHANGED <<serviceVars, doing, holder, worker, news, telling, deviceVars, adrift, late,
                 changes, starts>>

Return == doing' = [doing EXCEPT ![holder] = Free] /\ holder' = Unset

\* changeRecordingDevice: AdmScopedBlocker stops a recording and starts it again, or
\* fails to; the state of the module is not told of either.
Select(again) ==
  /\ Task("select") /\ Return
  /\ mic' = Value /\ recording' = (recording /\ again)
  /\ broken' = (broken \/ (recording /\ ~again))
  /\ Becomes(SetCurrentDevice(State, Value))
  /\ adrift' = IF Value = mic THEN adrift ELSE Settings
  /\ UNCHANGED <<serviceVars, telling, hw, callbackVars, late, changes, starts>>

RefuseSelect ==
  /\ Task("select") /\ Return
  /\ UNCHANGED <<serviceVars, news, telling, deviceVars, callbackVars, adrift, late, changes, starts>>

MutRelease ==
  /\ Task("release")
  /\ transport' = "gone"
  /\ UNCHANGED <<serviceVars, doing, holder, news, telling, deviceVars, hooked, adrift, late,
                 changes, starts>>

\* The task close() has posted: the callback goes before the transport does.
Release ==
  /\ Task("release")
  /\ hooked' = FALSE /\ transport' = "gone" /\ recording' = FALSE
  /\ UNCHANGED <<serviceVars, doing, holder, news, telling, mic, hw, mirror, broken, adrift, late,
                 changes, starts>>

----------------------------------------------------------------------------
(* The signaling queue: Service::Impl as AdmProxyListener.                 *)

News(op) ==
  /\ telling = Quiet /\ ~Closed /\ news # <<>> /\ Head(news).op = op /\ news' = Tail(news)

Drop ==
  /\ Closed /\ news # <<>> /\ news' = Tail(news)
  /\ UNCHANGED <<serviceVars, doing, holder, worker, telling, deviceVars, callbackVars, adrift, late,
                 changes, starts>>

OnVolumeChanged ==
  /\ News("volume") /\ level' = Level(Head(news).volume, range)
  /\ UNCHANGED <<muted, range, heard, doing, holder, worker, telling, deviceVars, callbackVars,
                 adrift, late, changes, starts>>

OnMinMaxVolumeChanged ==
  /\ News("range") /\ range' = Head(news).max
  /\ UNCHANGED <<muted, level, heard, doing, holder, worker, telling, deviceVars, callbackVars,
                 adrift, late, changes, starts>>

\* The application hears of a mute; what it has asked for stays.
OnMuteChanged ==
  /\ News("mute")
  /\ UNCHANGED <<serviceVars, doing, holder, worker, telling, deviceVars, callbackVars, adrift,
                 late, changes, starts>>

OnStopped ==
  /\ News("stopped") /\ heard' = "stopped"
  /\ UNCHANGED <<muted, level, range, doing, holder, worker, telling, deviceVars, callbackVars,
                 adrift, late, changes, starts>>

\* onStarted: the volume, then the mute, each read and then posted.
OnStarted ==
  /\ News("started")
  /\ telling' = [step |-> "volume", value |-> Volume(level, range)]
  /\ UNCHANGED <<serviceVars, doing, holder, worker, deviceVars, callbackVars, adrift, late,
                 changes, starts>>

UpdateRecordingVolume ==
  /\ telling.step = "volume" /\ telling' = [step |-> "mute", value |-> muted]
  /\ worker' = IF Closed THEN worker
               ELSE Append(worker, [op |-> "volume", value |-> telling.value])
  /\ UNCHANGED <<serviceVars, doing, holder, news, deviceVars, callbackVars, adrift, late, changes,
                 starts>>

UpdateRecordingMute ==
  /\ telling.step = "mute" /\ telling' = Quiet /\ heard' = "started"
  /\ worker' = IF Closed THEN worker
               ELSE Append(worker, [op |-> "mute", value |-> telling.value])
  /\ late' = Late("mute", telling.value)
  /\ UNCHANGED <<muted, level, range, doing, holder, news, deviceVars, callbackVars, adrift,
                 changes, starts>>

----------------------------------------------------------------------------
AudioInit ==
  /\ muted = FALSE /\ level = DefaultLevel /\ range = DefaultMax /\ heard = "stopped"
  /\ doing = [t \in Threads |-> Free] /\ holder = Unset
  /\ worker = <<>> /\ news = <<>> /\ telling = Quiet
  /\ mic = FirstMic /\ recording = FALSE /\ broken = FALSE
  /\ hw \in {[d \in Mics |-> [mute |-> m[d], volume |-> MaxOf[d]]] : m \in [Mics -> BOOLEAN]}
  /\ mirror = [mic |-> Unset, started |-> FALSE, mute |-> FALSE, max |-> 0, volume |-> 0]
  /\ hooked = TRUE /\ transport = "target"  \* WebRTC has registered its callback
  /\ adrift = Settings /\ late = FALSE /\ changes = 0 /\ starts = 0

User(t) ==
  \/ SetRecordingMute(t)
  \/ \E l \in Wished : SetRecordingAudioVolume(t, l)
  \/ PostAdmTask(t)
  \/ \E d \in Mics : SetAudioRecordingDevice(t, d)
  \/ Close(t)

Worker ==
  \/ RefuseSetting
  \/ SetMicrophoneMute
  \/ SetMicrophoneVolume
  \/ StartRecording
  \/ StopRecording
  \/ RegisterAudioCallback
  \/ \E again \in BOOLEAN : Select(again)
  \/ RefuseSelect
  \/ Release

Signaling ==
  \/ Drop
  \/ OnVolumeChanged
  \/ OnMinMaxVolumeChanged
  \/ OnMuteChanged
  \/ OnStopped
  \/ OnStarted
  \/ UpdateRecordingVolume
  \/ UpdateRecordingMute

AudioNext == (\E t \in Threads : User(t)) \/ Worker \/ Signaling

AudioSpec == AudioInit /\ [][AudioNext]_audioVars

----------------------------------------------------------------------------
TaskType == [op: {"mute"}, value: BOOLEAN] \cup [op: {"volume"}, value: Levels] \cup
            [op: {"select"}, value: Mics] \cup [op: {"release"}]
NewsType == [op: {"mute"}, mute: BOOLEAN] \cup [op: {"volume"}, volume: Levels] \cup
            [op: {"range"}, max: Levels] \cup [op: {"started", "stopped"}]

\* Every variable of the service, the module and the device keeps its type.
AudioTypeOK ==
  /\ muted \in BOOLEAN /\ level \in Levels /\ range \in 1..Whole /\ heard \in {"started", "stopped"}
  /\ \A t \in Threads :
       doing[t] \in {Free, [step |-> "wait"]} \cup [step: {"post"}, op: {"mute"}, value: BOOLEAN]
                    \cup [step: {"post"}, op: {"volume"}, value: Levels]
  /\ holder \in Threads \cup {Unset}
  /\ worker \in Seq(TaskType) /\ news \in Seq(NewsType)
  /\ telling \in {Quiet} \cup [step: {"volume"}, value: Levels] \cup [step: {"mute"}, value: BOOLEAN]
  /\ mic \in Mics /\ recording \in BOOLEAN /\ broken \in BOOLEAN
  /\ hw \in [Mics -> [mute: BOOLEAN, volume: Levels]]
  /\ mirror \in [mic: Mics \cup {Unset}, started: BOOLEAN, mute: BOOLEAN, max: Levels, volume: Levels]
  /\ hooked \in BOOLEAN /\ transport \in {"target", "idle", "closed", "gone"}
  /\ adrift \subseteq Settings /\ late \in BOOLEAN
  /\ changes \in 0..MaxChanges /\ starts \in 0..MaxStarts

AtEase ==
  /\ ~Closed /\ worker = <<>> /\ news = <<>> /\ telling = Quiet
  /\ \A t \in Threads : doing[t] = Free

\* setRecordingMute and onStarted: once everything posted is done, the device is muted as
\* the application has asked, unless the mute was posted when another thread had changed
\* it, or the device was refused it or is another one than the one it was set for.
MuteIsApplied == AtEase /\ ~late /\ "mute" \notin adrift => hw[mic].mute = muted

\* The echo of onVolumeChanged: whatever threads set the volume, and in whatever order their
\* tasks run, in the end the service shows the volume the device has.
VolumeIsTold ==
  AtEase /\ mirror.started /\ "volume" \notin adrift => Volume(level, range) = hw[mic].volume

\* AdmProxyState: in the end the application has heard of the last start or stop, unless
\* a change of the device has broken the recording off.
RecordingIsTold == AtEase /\ ~broken => (heard = "started" <=> recording)

\* Together: at rest the service, the application and the device agree.
AgreedAtRest == MuteIsApplied /\ VolumeIsTold /\ RecordingIsTold

\* AdmProxy::close: the device never has a transport that is gone as its callback.
CallbackIsAlive == hooked => transport # "gone"
=============================================================================
