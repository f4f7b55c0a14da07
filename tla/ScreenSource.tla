---------------------------- MODULE ScreenSource ----------------------------
(***************************************************************************)
(* A screen or a window as the source of a local video track.  The         *)
(* application says what it wants; the signaling queue makes, switches and *)
(* drops a capturer for it; frames are captured on a thread of their own:  *)
(*   "cg"     on every tick of a timer;                                    *)
(*   "webrtc" by a task that every tick posts to the queue of the timer;   *)
(*   "sck"    by a stream of ScreenCaptureKit, which answers later.        *)
(*                                                                         *)
(* The application is one thread: calls of several that cross, and what a  *)
(* source shows of its capturer's state, are the subject of CameraSource.  *)
(* External: the stream, the capturer of WebRTC and what either can grab.  *)
(***************************************************************************)
EXTENDS Naturals, Sequences

CONSTANTS
  Screens, Windows,  \* what can be shared
  FirstScreen,       \* what is shared first
  Rates,             \* frames per second
  MaxAsks,           \* bound: calls of the application
  MaxWork            \* bound: tasks that wait on the queue of the timer

ASSUME ScreenSourceAssumption ==
  /\ FirstScreen \in Screens /\ Screens \cap Windows = {} /\ "nothing" \notin Screens \cup Windows
  /\ Rates \subseteq Nat \ {0} /\ Rates # {} /\ MaxAsks \in Nat /\ MaxWork \in Nat

VARIABLES
  platform,
  sharing, allowed, watched,  \* _active, _enabled and whether there are _broadcasters
  device, fps,   \* _deviceInfo, _options
  asked,         \* tasks on the signaling queue
  todo,          \* what its task has still to do
  held,          \* what kind of source _capturer is for, or "none"
  phase,         \* its state
  selected,      \* its source
  rate,          \* its _fps
  ticking, listening, beats,  \* its timer: _started, _callback, and tasks by their interval
  running,       \* the capturer of WebRTC, or the current stream, captures
  tasks,          \* tasks on the queue of the timer
  stream,        \* the current stream
  replies,       \* what ScreenCaptureKit has still to tell
  capturing,     \* what the capturing thread is in the middle of
  slipped,       \* history: the capturer came up, or went down, when it was not told to
  unstarted,     \* history: what was last wanted could not be selected
  asks

wishVars == <<sharing, allowed, watched, device, fps>>
timerState == <<ticking, listening, beats, tasks>>
streamVars == <<stream, replies>>
historyVars == <<slipped, unstarted, asks>>
screenVars == <<platform, wishVars, asked, todo, held, phase, selected, rate, timerState, running,
                streamVars, capturing, historyVars>>

TypeOf(d) == IF d \in Windows THEN "window" ELSE "screen"

\* DesktopConfiguration::hasTheSameType, where nothing selected is of any type.
SameType(d, e) == (d \in Screens <=> e \in Screens) \/ (d \in Windows <=> e \in Windows)

\* DesktopConfiguration::createRawCapturer.
Kind ==
  IF held = "none" THEN "none"
  ELSE IF platform = "mac" THEN "sck"
  ELSE IF platform = "oldMac" /\ held = "screen" THEN "cg" ELSE "webrtc"

Timed == Kind \in {"cg", "webrtc"}

ScreenWanted == allowed /\ sharing /\ watched

----------------------------------------------------------------------------
(* The application.                                                        *)

AskFor(op) ==
  /\ asks < MaxAsks /\ asks' = asks + 1
  /\ asked' = Append(asked, op)
  /\ UNCHANGED <<platform, todo, held, phase, selected, rate, timerState, running, streamVars,
                 capturing, slipped, unstarted>>

Watch ==
  /\ sharing /\ ~watched /\ watched' = TRUE
  /\ AskFor([op |-> "request"])
  /\ UNCHANGED <<sharing, allowed, device, fps>>

Unwatch ==
  /\ watched /\ watched' = FALSE
  /\ AskFor([op |-> "reset"])
  /\ UNCHANGED <<sharing, allowed, device, fps>>

Allow ==
  /\ sharing /\ allowed' = ~allowed
  /\ AskFor([op |-> IF allowed THEN "reset" ELSE "request"])
  /\ UNCHANGED <<sharing, watched, device, fps>>

ShareOther(d) == sharing /\ AskFor([op |-> "device", device |-> d]) /\ UNCHANGED wishVars
SetRate(r) == sharing /\ AskFor([op |-> "rate", rate |-> r]) /\ UNCHANGED wishVars
CloseShare == sharing /\ AskFor([op |-> "close"]) /\ UNCHANGED wishVars

----------------------------------------------------------------------------
(* The state of a capturer and its timer.                                  *)

AcceptsPhase(s) ==
  CASE phase = s -> FALSE
    [] phase = "Stopped" -> s \in {"Starting", "Started"}
    [] phase = "Started" -> s \in {"Stopping", "Stopped"}
    [] OTHER -> TRUE

ChangePhase(s) == phase' = IF AcceptsPhase(s) THEN s ELSE phase

\* Whoever is told of a state holds the lock of the sink, and so does whoever closes.
MayTell == capturing.at # "closing"

NoBeats == [r \in Rates |-> 0]
Beat(r) == [beats EXCEPT ![r] = @ + 1]

\* The capturer is destroyed, its timer and its stream with it: tasks and answers that
\* are left find nobody, and the capturer of WebRTC is released on the queue.
DropCapturer ==
  /\ held' = "none" /\ phase' = "Stopped" /\ selected' = "nothing"
  /\ ticking' = FALSE /\ listening' = FALSE /\ beats' = NoBeats /\ replies' = <<>>
  /\ tasks' = IF Kind = "webrtc" /\ (running \/ tasks # <<>>) THEN <<"end">> ELSE tasks
  /\ running' = (running /\ Kind # "sck")

----------------------------------------------------------------------------
(* The signaling queue. A task holds the lock of the capturer but for      *)
(* the steps that look whether one is wanted, or there.                    *)

Takes(op) == todo = <<>> /\ asked # <<>> /\ Head(asked).op = op /\ asked' = Tail(asked)
Does(op) == todo # <<>> /\ Head(todo) = op /\ UNCHANGED asked
Goes(steps) == todo' = steps \o Tail(todo)
Locked == todo # <<>> /\ Head(todo) \notin {"reset", "request", "end"}

RunTask(op) ==
  /\ Takes(op) /\ todo' = <<op>>
  /\ UNCHANGED <<platform, wishVars, held, phase, selected, rate, timerState, running, streamVars,
                 capturing, historyVars>>

\* onDeviceInfoChanged: a capturer of that type is switched, another is made anew.
RunOther ==
  /\ Takes("device")
  /\ LET d == Head(asked).device
     IN  IF sharing /\ d # device
         THEN /\ device' = d
              /\ todo' = IF held # "none" /\ SameType(d, selected) THEN <<"stop", "switch">>
                                                                  ELSE <<"reset", "request">>
         ELSE UNCHANGED <<device, todo>>
  /\ UNCHANGED <<platform, sharing, allowed, watched, fps, held, phase, selected, rate, timerState,
                 running, streamVars, capturing, historyVars>>

\* setTargetFramerate: a timer that runs is stopped and started with the new interval.
RunRate ==
  /\ Takes("rate")
  /\ LET r == Head(asked).rate
         new == sharing /\ r # fps
     IN  /\ fps' = IF new THEN r ELSE fps
         /\ rate' = IF new /\ Timed THEN r ELSE rate
         /\ ticking' = (ticking /\ ~(new /\ r # rate))
         /\ todo' = IF ticking /\ new /\ r # rate THEN <<"retime">> ELSE <<>>
  /\ UNCHANGED <<platform, sharing, allowed, watched, device, held, phase, selected, listening, beats,
                 tasks, running, streamVars, capturing, historyVars>>

Retime ==
  /\ Does("retime") /\ Goes(<<>>)
  /\ ticking' = TRUE /\ beats' = Beat(rate)
  /\ UNCHANGED <<platform, wishVars, held, phase, selected, rate, listening, tasks, running, streamVars,
                 capturing, historyVars>>

RunClosing ==
  /\ Takes("close")
  /\ sharing' = FALSE /\ todo' = IF sharing THEN <<"reset", "end">> ELSE <<>>
  /\ UNCHANGED <<platform, allowed, watched, device, fps, held, phase, selected, rate, timerState,
                 running, streamVars, capturing, historyVars>>

ShareEnds ==
  /\ Does("end") /\ Goes(<<>>) /\ watched' = FALSE
  /\ UNCHANGED <<platform, sharing, allowed, device, fps, held, phase, selected, rate, timerState,
                 running, streamVars, capturing, historyVars>>

\* resetCapturer; requestCapturer, which asks for one that there is, is told of a failure.
Decide ==
  /\ \/ Does("reset") /\ Goes(IF held # "none" THEN <<"stop", "drop">> ELSE <<>>)
     \/ Does("request") /\ Goes(IF ScreenWanted /\ held = "none" THEN <<"create">> ELSE <<>>)
  /\ UNCHANGED <<platform, wishVars, held, phase, selected, rate, timerState, running, streamVars,
                 capturing, historyVars>>

CreateCapturer ==
  /\ Does("create") /\ Goes(<<"start">>)
  /\ held' = TypeOf(device) /\ rate' = fps
  /\ slipped' = FALSE /\ unstarted' = FALSE
  /\ UNCHANGED <<platform, wishVars, phase, selected, timerState, running, streamVars, capturing,
                 asks>>

\* stopCapturer: a timer that is stopped, or a stream on its way down, is left alone.
IsStarted == IF Kind = "sck" THEN phase \in {"Starting", "Started"} ELSE ticking

StopCapturer ==
  /\ Does("stop")
  /\ Goes(IF ~IsStarted THEN <<>>
          ELSE CASE Kind = "cg" -> <<"stopBase">>
                 [] Kind = "webrtc" -> <<"stopping", "stopBase", "stopped">>
                 [] Kind = "sck" -> <<"stopping">>)
  /\ UNCHANGED <<platform, wishVars, held, phase, selected, rate, timerState, running, streamVars,
                 capturing, historyVars>>

\* A stream is asked to stop.
AskStop ==
  IF AcceptsPhase("Stopping")
  THEN /\ phase' = "Stopping" /\ replies' = Append(replies, [of |-> stream, what |-> "stopped"])
  ELSE UNCHANGED <<phase, replies>>

Stopping ==
  /\ Does("stopping") /\ MayTell /\ Goes(<<>>)
  /\ IF Kind = "sck"
     THEN AskStop /\ running' = (running /\ ~AcceptsPhase("Stopping")) /\ UNCHANGED tasks
     ELSE ChangePhase("Stopping") /\ tasks' = Append(tasks, "end") /\ UNCHANGED <<running, replies>>
  /\ UNCHANGED <<platform, wishVars, held, selected, rate, ticking, listening, beats, stream, capturing,
                 historyVars>>

StopBase ==
  /\ \/ Does("stopBase") /\ Goes(IF AcceptsPhase("Stopped") THEN <<"silence">> ELSE <<>>)
     \/ Does("stopped") /\ Goes(<<>>)
  /\ MayTell /\ ChangePhase("Stopped")
  /\ UNCHANGED <<platform, wishVars, held, selected, rate, timerState, running, streamVars, capturing,
                 historyVars>>

\* The callback is taken away when no call to it is under way.
Silence ==
  /\ Does("silence") /\ Goes(<<>>) /\ capturing.at # "tick"
  /\ listening' = FALSE /\ ticking' = FALSE
  /\ UNCHANGED <<platform, wishVars, held, phase, selected, rate, beats, tasks, running, streamVars,
                 capturing, historyVars>>

DropHeld ==
  /\ Does("drop") /\ Goes(<<>>) /\ capturing.at \notin {"tick", "closing"}
  /\ DropCapturer
  /\ capturing' = [at |-> "idle"]
  /\ UNCHANGED <<platform, wishVars, rate, stream, historyVars>>

\* selectSource: not while the timer runs. A stream is stopped and replaced, which ends it.
SelectDevice ==
  /\ selected' = device
  /\ IF Kind = "sck"
     THEN /\ AskStop /\ stream' = stream + 1 /\ running' = FALSE
     ELSE UNCHANGED <<phase, stream, replies, running>>

CannotSelect == (Timed /\ ticking) \/ TypeOf(device) # held

\* After its stop a capturer that can select the new source is started again.
Switch ==
  /\ Does("switch") /\ MayTell
  /\ ~CannotSelect /\ SelectDevice /\ Goes(<<"start">>)
  /\ UNCHANGED <<platform, wishVars, held, rate, timerState, capturing, historyVars>>

\* ScreenCaptureKit may know no such source any more.
SwitchFails ==
  /\ Does("switch") /\ (CannotSelect \/ Kind = "sck") /\ Goes(<<"reset", "request">>)
  /\ UNCHANGED <<platform, wishVars, held, phase, selected, rate, timerState, running, streamVars,
                 capturing, historyVars>>

\* startCapturer.
StartUnwanted ==
  /\ Does("start") /\ ~ScreenWanted /\ Goes(<<>>)
  /\ UNCHANGED <<platform, wishVars, held, phase, selected, rate, timerState, running, streamVars,
                 capturing, historyVars>>

MutStartSelected ==
  /\ Does("start") /\ ScreenWanted /\ Goes(<<"begin">>)
  /\ UNCHANGED <<platform, wishVars, held, phase, selected, rate, timerState, running, streamVars,
                 capturing, historyVars>>

StartSelected ==
  /\ Does("start") /\ MayTell /\ ScreenWanted /\ ~CannotSelect
  /\ SelectDevice /\ Goes(<<"begin">>)
  /\ UNCHANGED <<platform, wishVars, held, rate, timerState, capturing, historyVars>>

StartUnselected ==
  /\ Does("start") /\ ScreenWanted /\ (CannotSelect \/ Kind = "sck") /\ Goes(<<>>)
  /\ unstarted' = TRUE
  /\ UNCHANGED <<platform, wishVars, held, phase, selected, rate, timerState, running, streamVars,
                 capturing, slipped, asks>>

\* start(), refused if the capturer is up already.
Begin ==
  /\ Does("begin") /\ MayTell /\ Goes(<<>>)
  /\ ChangePhase("Starting")
  /\ CASE ~AcceptsPhase("Starting") -> UNCHANGED <<timerState, running, replies>>
       [] AcceptsPhase("Starting") /\ Timed ->
            /\ listening' = TRUE /\ ticking' = TRUE /\ beats' = Beat(rate)
            /\ tasks' = IF Kind = "webrtc" THEN Append(tasks, "begin") ELSE tasks
            /\ UNCHANGED <<running, replies>>
       [] OTHER ->
            /\ running' = TRUE /\ replies' = Append(replies, [of |-> stream, what |-> "started"])
            /\ UNCHANGED timerState
  /\ UNCHANGED <<platform, wishVars, held, selected, rate, stream, capturing, historyVars>>

----------------------------------------------------------------------------
(* The queue of the timer.                                                 *)

NotCapturing == [at |-> "idle"]

\* MediaTimerImpl::nextTick: a tick of a timer that is stopped is the last one.
Tick(r) ==
  /\ capturing = NotCapturing /\ beats[r] > 0 /\ Len(tasks) < MaxWork
  /\ beats' = [beats EXCEPT ![r] = @ - 1]
  /\ capturing' = IF ticking THEN [at |-> IF listening THEN "tick" ELSE "repost", rate |-> r] ELSE NotCapturing
  /\ UNCHANGED <<platform, wishVars, asked, todo, held, phase, selected, rate, ticking, listening, tasks,
                 running, streamVars, historyVars>>

\* The capturer is up, whatever it was.
ComesUp ==
  /\ ChangePhase("Started")
  /\ slipped' = (slipped \/ (AcceptsPhase("Started") /\ phase # "Starting"))

CaptureNextFrame ==
  /\ capturing.at = "tick" /\ capturing' = [capturing EXCEPT !.at = "repost"]
  /\ IF Kind = "cg" THEN ComesUp /\ UNCHANGED tasks
                    ELSE tasks' = Append(tasks, "capture") /\ UNCHANGED <<phase, slipped>>
  /\ UNCHANGED <<platform, wishVars, asked, todo, held, selected, rate, ticking, listening, beats,
                 running, streamVars, unstarted, asks>>

Repost ==
  /\ capturing.at = "repost" /\ capturing' = NotCapturing
  /\ beats' = IF ticking THEN Beat(capturing.rate) ELSE beats
  /\ UNCHANGED <<platform, wishVars, asked, todo, held, phase, selected, rate, ticking, listening, tasks,
                 running, streamVars, historyVars>>

Works(op) == capturing = NotCapturing /\ tasks # <<>> /\ Head(tasks) = op /\ tasks' = Tail(tasks)

\* The capturer of WebRTC is made and given its source, which may be gone.
BeginCapture ==
  /\ Works("begin") /\ running' = TRUE
  /\ capturing' \in {NotCapturing, [at |-> "error"]}
  /\ UNCHANGED <<platform, wishVars, asked, todo, held, phase, selected, rate, ticking, listening, beats,
                 streamVars, historyVars>>

\* captureFrame: a frame, none for now, or none any more.
CaptureFrame ==
  /\ Works("capture")
  /\ IF running THEN ComesUp /\ capturing' \in {NotCapturing, [at |-> "error"]}
                ELSE UNCHANGED <<phase, slipped, capturing>>
  /\ UNCHANGED <<platform, wishVars, asked, todo, held, selected, rate, ticking, listening, beats,
                 running, streamVars, unstarted, asks>>

EndCapture ==
  /\ Works("end") /\ running' = FALSE
  /\ UNCHANGED <<platform, wishVars, asked, todo, held, phase, selected, rate, ticking, listening, beats,
                 streamVars, capturing, historyVars>>

----------------------------------------------------------------------------
(* ScreenCaptureKit: the answers of one stream come in their order.        *)

Replies(i, what) ==
  /\ capturing = NotCapturing /\ i \in DOMAIN replies /\ replies[i].what = what
  /\ \A j \in 1..(i - 1) : replies[j].of # replies[i].of
  /\ replies' = SubSeq(replies, 1, i - 1) \o SubSeq(replies, i + 1, Len(replies))

StreamStarted(i) ==
  /\ Replies(i, "started") /\ ComesUp
  /\ UNCHANGED <<platform, wishVars, asked, todo, held, selected, rate, timerState, running, stream,
                 capturing, unstarted, asks>>

StreamNotStarted(i) ==
  /\ Replies(i, "started") /\ capturing' = [at |-> "error"]
  /\ running' = (running /\ replies[i].of # stream)
  /\ UNCHANGED <<platform, wishVars, asked, todo, held, phase, selected, rate, timerState, stream,
                 historyVars>>

\* A stop that fails, but for a stream that had stopped, changes no state.
StreamStopped(i) ==
  /\ Replies(i, "stopped")
  /\ \/ ChangePhase("Stopped") /\ slipped' = (slipped \/ (AcceptsPhase("Stopped") /\ running))
     \/ UNCHANGED <<phase, slipped>>
  /\ UNCHANGED <<platform, wishVars, asked, todo, held, selected, rate, timerState, running, stream,
                 capturing, unstarted, asks>>

\* processPermanentError: only of the current stream.
StreamBreaks ==
  /\ capturing = NotCapturing /\ Kind = "sck" /\ running
  /\ running' = FALSE /\ capturing' = [at |-> "error"]
  /\ UNCHANGED <<platform, wishVars, asked, todo, held, phase, selected, rate, timerState,
                 streamVars, historyVars>>

----------------------------------------------------------------------------
(* A fatal error ends the source from within a call of its capturer.       *)

FatalError ==
  /\ capturing.at = "error" /\ ChangePhase("Stopped")
  /\ sharing' = FALSE /\ capturing' = IF sharing THEN [at |-> "closing"] ELSE NotCapturing
  /\ UNCHANGED <<platform, allowed, watched, device, fps, asked, todo, held, selected, rate,
                 timerState, running, streamVars, historyVars>>

\* onClosed waits for a task that has the lock of the capturer.
CloseOnError ==
  /\ capturing.at = "closing" /\ ~Locked
  /\ capturing' = NotCapturing /\ watched' = FALSE
  /\ DropCapturer
  /\ UNCHANGED <<platform, sharing, allowed, device, fps, asked, todo, rate, stream, historyVars>>

----------------------------------------------------------------------------
ScreenInit ==
  /\ platform \in {"mac", "oldMac", "other"}
  /\ sharing = TRUE /\ allowed = TRUE /\ watched = FALSE
  /\ device = FirstScreen /\ fps \in Rates
  /\ asked = <<>> /\ todo = <<>>
  /\ held = "none" /\ phase = "Stopped" /\ selected = "nothing" /\ rate = fps
  /\ ticking = FALSE /\ listening = FALSE /\ beats = NoBeats
  /\ running = FALSE /\ tasks = <<>> /\ stream = 0 /\ replies = <<>>
  /\ capturing = NotCapturing /\ slipped = FALSE /\ unstarted = FALSE /\ asks = 0

Sharer ==
  \/ Watch
  \/ Unwatch
  \/ Allow
  \/ \E d \in Screens \cup Windows : ShareOther(d)
  \/ \E r \in Rates : SetRate(r)
  \/ CloseShare

Sharing ==
  \/ \E op \in {"request", "reset"} : RunTask(op)
  \/ RunOther
  \/ RunRate
  \/ Retime
  \/ RunClosing
  \/ ShareEnds
  \/ Decide
  \/ CreateCapturer
  \/ StopCapturer
  \/ Stopping
  \/ StopBase
  \/ Silence
  \/ DropHeld
  \/ Switch
  \/ SwitchFails
  \/ StartUnwanted
  \/ StartSelected
  \/ StartUnselected
  \/ Begin

Capturing ==
  \/ \E r \in Rates : Tick(r)
  \/ CaptureNextFrame
  \/ Repost
  \/ BeginCapture
  \/ CaptureFrame
  \/ EndCapture
  \/ \E i \in DOMAIN replies : StreamStarted(i) \/ StreamNotStarted(i) \/ StreamStopped(i)
  \/ StreamBreaks
  \/ FatalError
  \/ CloseOnError

ScreenNext == Sharer \/ Sharing \/ Capturing

ScreenSpec == ScreenInit /\ [][ScreenNext]_screenVars

----------------------------------------------------------------------------
AskType == [op: {"request", "reset", "close"}] \cup [op: {"device"}, device: Screens \cup Windows]
           \cup [op: {"rate"}, rate: Rates]
StepNames == {"request", "reset", "end", "retime", "create", "stop", "stopping", "stopBase", "stopped",
              "silence", "drop", "switch", "start", "begin"}

\* Every variable of the source and its capturer keeps its type.
ScreenTypeOK ==
  /\ platform \in {"mac", "oldMac", "other"}
  /\ {sharing, allowed, watched, ticking, listening, running, slipped, unstarted} \subseteq BOOLEAN
  /\ device \in Screens \cup Windows /\ {fps, rate} \subseteq Rates
  /\ asked \in Seq(AskType) /\ todo \in Seq(StepNames)
  /\ held \in {"none", "screen", "window"} /\ selected \in Screens \cup Windows \cup {"nothing"}
  /\ phase \in {"Stopped", "Starting", "Started", "Stopping"}
  /\ beats \in [Rates -> Nat] /\ tasks \in Seq({"begin", "capture", "end"})
  /\ stream \in Nat /\ replies \in Seq([of: Nat, what: {"started", "stopped"}])
  /\ capturing \in [at: {"idle", "error", "closing"}] \cup [at: {"tick", "repost"}, rate: Rates]
  /\ asks \in 0..MaxAsks

ShareSettled ==
  /\ asked = <<>> /\ todo = <<>> /\ replies = <<>>
  /\ capturing.at \notin {"error", "closing"}
  /\ \A i \in DOMAIN tasks : tasks[i] = "capture"

\* resetCapturer: however switches, errors, ticks and answers cross, in the end no screen is
\* captured, and no capturer kept, for a source that is closed, disabled or not watched.
ScreenIsReleased == ShareSettled /\ ~ScreenWanted => held = "none" /\ ~running /\ beats = NoBeats

\* In the end the screen that was chosen last is captured for whoever watches, unless it could
\* not be selected or a frame, or an answer, came too late for the capturer.
ScreenIsCaptured ==
  ShareSettled /\ ScreenWanted /\ ~slipped /\ ~unstarted =>
    /\ held = TypeOf(device) /\ selected = device /\ phase \in {"Starting", "Started"}
    /\ Timed => ticking /\ listening /\ (capturing = NotCapturing => beats # NoBeats)
    /\ Kind # "cg" => running

\* Together: what is captured is what is wanted.
ScreenFollowsWish == ScreenIsReleased /\ ScreenIsCaptured

\* DesktopCapturer.h calls what setTargetFramerate sets the "max expected frame rate for this
\* capturer": no tick goes on bringing more frames than that.
RateIsKept == ticking /\ capturing.at = "repost" => capturing.rate <= rate
=============================================================================
