---------------------------- MODULE CameraSource ----------------------------
(***************************************************************************)
(* A camera as the source of a local video track.  Viewers (the preview of *)
(* the application, the encoder of WebRTC) come and go on threads of their *)
(* own and post to the signaling queue what that asks of the capturer;     *)
(* the queue of the capture session tells what became of a start.          *)
(*                                                                         *)
(* The capturer is the one of macOS, whose starts and stops end later.     *)
(* External: the capture session; Bricks::Listener, which lets nobody take *)
(* an observer away while another thread is in a call to it.               *)
(***************************************************************************)
EXTENDS Naturals, Sequences, FiniteSets

CONSTANTS
  Viewers,     \* sinks, each with a thread of its own
  Choices,     \* video options
  FirstChoice, \* the default ones
  MaxUses      \* bound: calls on the source

VARIABLES
  active, enabled, source,  \* _active, _enabled and _state of the source
  viewers,    \* _broadcasters
  choice,     \* _options
  pending,    \* pending[v]: what a thread has still to post
  queue,      \* tasks on the signaling queue
  step,       \* what the task of the signaling queue is in the middle of
  capturer,   \* state of _capturer, or "none"
  using,      \* the options it was started with
  answers,    \* what the capture session has still to tell the capturer
  session,    \* what the thread of the capture session is in the middle of
  crossed,    \* history: a call was made while another thread had something to post
  failing,    \* history: the capturer was not made or did not start when it was last wanted
  missed,     \* history: options came while the capturer was on its way to start
  uses

sourceVars == <<active, enabled, source, viewers, choice>>
threadVars == <<pending, crossed, uses>>
capturerVars == <<capturer, using, answers>>
cameraVars == <<sourceVars, threadVars, queue, step, capturerVars, session, failing, missed>>

ASSUME CameraSourceAssumption == FirstChoice \in Choices /\ MaxUses \in Nat

FrameWanted == enabled /\ active /\ viewers # {}

----------------------------------------------------------------------------
(* Threads of the viewers and of the application.                          *)

Use == uses < MaxUses /\ uses' = uses + 1
MayCall(v) == pending[v] = "nothing" /\ active /\ Use
Crosses(v) == crossed \/ \E w \in Viewers \ {v} : pending[w] # "nothing"

\* The first viewer asks for the capturer, the last one has it taken away.
AddOrUpdateSink(v) ==
  /\ MayCall(v) /\ v \notin viewers
  /\ viewers' = viewers \cup {v}
  /\ pending' = [pending EXCEPT ![v] = IF viewers = {} THEN "request" ELSE "nothing"]
  /\ crossed' = Crosses(v)
  /\ UNCHANGED <<active, enabled, source, choice, queue, step, capturerVars, session, failing, missed>>

MutRemoveSink(v) ==
  /\ pending[v] = "nothing" /\ v \in viewers /\ Use
  /\ viewers' = viewers \ {v}
  /\ pending' = [pending EXCEPT ![v] = "reset"]
  /\ crossed' = Crosses(v)
  /\ UNCHANGED <<active, enabled, source, choice, queue, step, capturerVars, session, failing, missed>>

RemoveSink(v) ==
  /\ pending[v] = "nothing" /\ v \in viewers /\ Use
  /\ viewers' = viewers \ {v}
  /\ pending' = [pending EXCEPT ![v] = IF viewers' = {} THEN "reset" ELSE "nothing"]
  /\ crossed' = Crosses(v)
  /\ UNCHANGED <<active, enabled, source, choice, queue, step, capturerVars, session, failing, missed>>

\* updateAfterEnableChanges does for a source what the viewers do.
SetEnabled(v) ==
  /\ MayCall(v)
  /\ enabled' = ~enabled
  /\ pending' = [pending EXCEPT ![v] = IF enabled THEN "reset" ELSE "request"]
  /\ crossed' = Crosses(v)
  /\ UNCHANGED <<active, source, viewers, choice, queue, step, capturerVars, session, failing, missed>>

PostToImpl(v) ==
  /\ pending[v] # "nothing" /\ pending' = [pending EXCEPT ![v] = "nothing"]
  /\ queue' = Append(queue, [op |-> pending[v]])
  /\ UNCHANGED <<sourceVars, crossed, uses, step, capturerVars, session, failing, missed>>

\* These calls only post.
Ask(v, task) ==
  /\ MayCall(v) /\ queue' = Append(queue, task)
  /\ UNCHANGED <<sourceVars, pending, crossed, step, capturerVars, session, failing, missed>>

SetDeviceInfo(v) == Ask(v, [op |-> "device"])
SetOptions(v, c) == Ask(v, [op |-> "options", choice |-> c])
CloseSource(v) == Ask(v, [op |-> "close"])

----------------------------------------------------------------------------
(* The signaling queue: what the capturer is asked for.                    *)

NoTask == [at |-> "idle"]
Run(op) == step = NoTask /\ queue # <<>> /\ Head(queue).op = op /\ queue' = Tail(queue)

RunRequest ==
  /\ Run("request") /\ step' = [at |-> "check"]
  /\ UNCHANGED <<sourceVars, threadVars, capturerVars, session, failing, missed>>

\* requestCapturer: whether frames are wanted is asked now, and once more to start.
CheckWanted ==
  /\ step.at = "check" /\ step' = IF FrameWanted THEN [at |-> "create"] ELSE NoTask
  /\ UNCHANGED <<sourceVars, threadVars, queue, capturerVars, session, failing, missed>>

Create ==
  /\ step.at = "create" /\ step' = NoTask /\ capturer = "none"
  /\ IF FrameWanted
     THEN /\ capturer' = "Starting" /\ using' = choice
          /\ answers' = <<[op |-> "started"]>> /\ source' = "Initializing"
     ELSE /\ capturer' = "Stopped" /\ UNCHANGED <<using, answers, source>>
  /\ failing' = FALSE
  /\ UNCHANGED <<active, enabled, viewers, choice, threadVars, queue, session, missed>>

\* No such device.
CreateFails ==
  /\ step.at = "create" /\ step' = NoTask /\ capturer = "none"
  /\ failing' = TRUE
  /\ UNCHANGED <<sourceVars, threadVars, queue, capturerVars, session, missed>>

\* A request for the capturer there is.
CreateAgain ==
  /\ step.at = "create" /\ step' = NoTask /\ capturer # "none"
  /\ UNCHANGED <<sourceVars, threadVars, queue, capturerVars, session, failing, missed>>

\* The capture session tells the end of a stop later.
Stop == capturer' = "Stopping" /\ answers' = Append(answers, [op |-> "stopped"])

\* resetCapturer takes the lock of the capturer and stops it; what follows is next.
BeginReset(next) ==
  /\ step' = [at |-> "detach", next |-> next]
  /\ IF capturer = "Started" THEN Stop ELSE UNCHANGED <<capturer, answers>>

RunReset ==
  /\ Run("reset") /\ BeginReset("idle")
  /\ UNCHANGED <<sourceVars, threadVars, using, session, failing, missed>>

\* setDeviceInfo: another device is another capturer.
RunDevice ==
  /\ Run("device")
  /\ IF active THEN BeginReset("check") ELSE UNCHANGED <<step, capturer, answers>>
  /\ UNCHANGED <<sourceVars, threadVars, using, session, failing, missed>>

MutRunClose ==
  /\ Run("close")
  /\ IF active THEN BeginReset("idle") /\ source' = "Ended" /\ viewers' = {} /\ UNCHANGED active
               ELSE UNCHANGED <<step, capturer, answers, active, source, viewers>>
  /\ UNCHANGED <<enabled, choice, threadVars, using, session, failing, missed>>

\* AsyncMediaSourceImpl::close: inactive first, then onClosed, the state at the end.
RunClose ==
  /\ Run("close")
  /\ IF active THEN active' = FALSE /\ BeginReset("end") ELSE UNCHANGED <<active, step, capturer, answers>>
  /\ UNCHANGED <<enabled, source, viewers, choice, threadVars, using, session, failing, missed>>

\* The observer is taken away when no call to it is under way: no answer is heard after it.
Gone == capturer' = "none" /\ answers' = <<>>

Detach ==
  /\ step.at = "detach" /\ session = "idle"
  /\ Gone
  /\ step' = [at |-> step.next]
  /\ UNCHANGED <<sourceVars, threadVars, queue, using, session, failing, missed>>

End ==
  /\ step.at = "end" /\ step' = NoTask
  /\ source' = "Ended" /\ viewers' = {}
  /\ UNCHANGED <<active, enabled, choice, threadVars, queue, capturerVars, session, failing, missed>>

\* onOptionsChanged starts a started capturer again, and only that one.  It holds the
\* lock of the capturer until the start has been asked for.
RunOptions ==
  /\ Run("options")
  /\ LET c == Head(queue).choice
     IN  /\ choice' = IF active THEN c ELSE choice
         /\ IF active /\ c # choice /\ capturer = "Started"
            THEN Stop /\ step' = [at |-> "restart"]
            ELSE UNCHANGED <<capturer, answers, step>>
         /\ missed' = (missed \/ (active /\ c # choice /\ capturer \notin {"none", "Started"}))
  /\ UNCHANGED <<active, enabled, source, viewers, using, threadVars, session, failing>>

\* startCapturer; the source was active when frames were wanted and is told next.
StartAgain ==
  /\ step.at = "restart"
  /\ IF FrameWanted
     THEN capturer' = "Starting" /\ using' = choice /\ step' = [at |-> "tell"]
     ELSE step' = NoTask /\ UNCHANGED <<capturer, using>>
  /\ UNCHANGED <<sourceVars, threadVars, queue, answers, session, failing, missed>>

TellStart ==
  /\ step.at = "tell" /\ step' = NoTask
  /\ source' = "Initializing" /\ answers' = Append(answers, [op |-> "started"])
  /\ UNCHANGED <<active, enabled, viewers, choice, threadVars, queue, capturer, using, session,
                 failing, missed>>

\* No format fits: the capturer reports a fatal error from within the start.
StartFails ==
  /\ \/ step.at = "create" /\ capturer = "none"
     \/ step.at = "restart"
  /\ FrameWanted /\ session = "idle" /\ step' = NoTask
  /\ Gone /\ active' = FALSE /\ source' = "Ended" /\ viewers' = {}
  /\ UNCHANGED <<enabled, choice, threadVars, queue, using, session, failing, missed>>

----------------------------------------------------------------------------
(* The queue of the capture session.                                       *)

\* acceptState: the capturer follows every answer that is not its state already.
Accepts(s) ==
  CASE capturer = s -> FALSE
    [] capturer = "Stopped" -> s \in {"Starting", "Started"}
    [] capturer = "Started" -> s \in {"Stopping", "Stopped"}
    [] OTHER -> capturer # "none"

Answer(op) ==
  session = "idle" /\ answers # <<>> /\ Head(answers).op = op /\ answers' = Tail(answers)

\* The source is told in two steps: whether it is active, and then it has the state.
ToTell(s) == IF active THEN s ELSE "Ended"

CaptureStarted ==
  /\ Answer("started")
  /\ capturer' = IF Accepts("Started") THEN "Started" ELSE capturer
  /\ session' = IF Accepts("Started") THEN ToTell("Live") ELSE "idle"
  /\ UNCHANGED <<sourceVars, threadVars, queue, step, using, failing, missed>>

CaptureStopped ==
  /\ Answer("stopped")
  /\ capturer' = IF Accepts("Stopped") THEN "Stopped" ELSE capturer
  /\ session' = IF Accepts("Stopped") THEN ToTell("Muted") ELSE "idle"
  /\ UNCHANGED <<sourceVars, threadVars, queue, step, using, failing, missed>>

ChangeState ==
  /\ session \in {"Live", "Muted", "Ended"} /\ session' = "idle"
  /\ source' = session
  /\ UNCHANGED <<active, enabled, viewers, choice, threadVars, queue, step, capturerVars, failing, missed>>

\* A start that failed, or an error of a session that runs or stops.
OnCapturingError ==
  /\ session = "idle" /\ active
  /\ capturer \in {"Starting", "Started", "Stopping"}
  /\ session' = "closing" /\ capturer' = "Stopped" /\ answers' = <<>>
  /\ active' = FALSE /\ source' = "Ended"
  /\ UNCHANGED <<enabled, viewers, choice, threadVars, queue, step, using, failing, missed>>

\* onClosed needs the lock of the capturer: a reset that has it waits for this thread.
OnClosed ==
  /\ session = "closing" /\ step.at \notin {"detach", "restart", "tell"} /\ session' = "idle"
  /\ Gone /\ viewers' = {}
  /\ UNCHANGED <<active, enabled, source, choice, threadVars, queue, step, using, failing, missed>>

----------------------------------------------------------------------------
CameraInit ==
  /\ active = TRUE /\ enabled = TRUE /\ source = "Initializing"
  /\ viewers = {} /\ choice = FirstChoice
  /\ pending = [v \in Viewers |-> "nothing"] /\ queue = <<>> /\ step = NoTask
  /\ capturer = "none" /\ using = FirstChoice /\ answers = <<>> /\ session = "idle"
  /\ crossed = FALSE /\ failing = FALSE /\ missed = FALSE /\ uses = 0

Viewer(v) ==
  \/ AddOrUpdateSink(v)
  \/ RemoveSink(v)
  \/ SetEnabled(v)
  \/ PostToImpl(v)
  \/ SetDeviceInfo(v)
  \/ \E c \in Choices : SetOptions(v, c)
  \/ CloseSource(v)

SignalingQueue ==
  \/ RunRequest
  \/ CheckWanted
  \/ Create
  \/ CreateFails
  \/ CreateAgain
  \/ RunReset
  \/ RunDevice
  \/ RunClose
  \/ Detach
  \/ End
  \/ RunOptions
  \/ StartAgain
  \/ TellStart
  \/ StartFails

CaptureSession ==
  \/ CaptureStarted
  \/ CaptureStopped
  \/ ChangeState
  \/ OnCapturingError
  \/ OnClosed

CameraNext == (\E v \in Viewers : Viewer(v)) \/ SignalingQueue \/ CaptureSession

CameraSpec == CameraInit /\ [][CameraNext]_cameraVars

----------------------------------------------------------------------------
QueueType == [op: {"request", "reset", "device", "close"}] \cup [op: {"options"}, choice: Choices]
StepType == [at: {"idle", "check", "create", "end", "restart", "tell"}] \cup
            [at: {"detach"}, next: {"idle", "check", "end"}]
AnswerType == [op: {"started", "stopped"}]

\* Every variable of the source and its capturer keeps its type.
CameraTypeOK ==
  /\ active \in BOOLEAN /\ enabled \in BOOLEAN
  /\ source \in {"Initializing", "Live", "Muted", "Ended"}
  /\ viewers \subseteq Viewers /\ choice \in Choices /\ using \in Choices
  /\ pending \in [Viewers -> {"nothing", "request", "reset"}]
  /\ queue \in Seq(QueueType) /\ step \in StepType
  /\ capturer \in {"none", "Stopped", "Starting", "Started", "Stopping"}
  /\ answers \in Seq(AnswerType) /\ session \in {"idle", "Live", "Muted", "Ended", "closing"}
  /\ crossed \in BOOLEAN /\ failing \in BOOLEAN /\ missed \in BOOLEAN /\ uses \in 0..MaxUses

Settled ==
  /\ queue = <<>> /\ step = NoTask /\ answers = <<>> /\ session = "idle"
  /\ \A v \in Viewers : pending[v] = "nothing"

Running == capturer \in {"Starting", "Started"}

\* resetCapturer: however calls, tasks and errors cross, in the end no camera runs for a
\* source that is disabled or closed or that nobody watches.
CameraIsReleased == Settled /\ Running => FrameWanted

\* requestCapturer: in the end the camera runs for whoever watches, unless it failed or
\* the tasks of two threads were posted in another order than their calls were made.
CameraIsOn == Settled /\ FrameWanted /\ ~crossed /\ ~failing => capturer = "Started"

\* A camera that runs is shown as live, whatever stops and starts its options have made.
RunningIsLive == Settled /\ capturer = "Started" => source = "Live"

\* setOptions: a camera runs with the options set last, unless they came while it started.
OptionsAreUsed == Settled /\ capturer = "Started" /\ ~missed => using = choice

\* Together: the camera follows whoever watches, as shown and with what was asked for.
CameraFollowsWish == CameraIsReleased /\ CameraIsOn /\ RunningIsLive /\ OptionsAreUsed

\* AsyncMediaSourceImpl::changeState: what the capture session tells a source that closes
\* does not bring it back, though it may have found the source active.  Only a start
\* after new options can, which an error has met on its way.
EndedIsFinal == [][source = "Ended" => source' = "Ended" \/ step.at = "tell"]_cameraVars
=============================================================================
