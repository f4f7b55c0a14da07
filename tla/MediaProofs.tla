----------------------------- MODULE MediaProofs -----------------------------

(***************************************************************************)
(* What TLAPS proves of CameraSource, AudioModule and ScreenSource.  For   *)
(* any number of viewers, options and calls the camera follows whoever     *)
(* watches it, and the end of a source stays its end.  For any number of   *)
(* threads and microphones, whatever they set, the service, the            *)
(* application and the device agree at rest, and the device never has a    *)
(* dead callback.  For any platform and any kind of capturer, and any      *)
(* calls, a shared screen is captured for whoever watches, and for nobody  *)
(* else.                                                                   *)
(***************************************************************************)
EXTENDS CameraSource, AudioModule, ScreenSource, TLAPS

(***************************************************************************)
(* The invariant.                                                          *)
(***************************************************************************)

\* What the capture session may have to tell: that it started, that it stopped,
\* or one after the other when new options made the capturer start again.
Nothing == <<>>
OneStart == <<[op |-> "started"]>>
OneStop == <<[op |-> "stopped"]>>
StopAndStart == <<[op |-> "stopped"], [op |-> "started"]>>
Promised == answers \in {OneStart, StopAndStart}

\* Tasks in the queue, and tasks a thread has still to post.
Has(q, op) == \E i \in DOMAIN q : q[i].op = op
ResetsAreAnswered(q) ==
  \A i \in DOMAIN q : q[i].op = "reset" => \E j \in DOMAIN q : j > i /\ q[j].op = "request"
Holds(p, op) == \E v \in Viewers : p[v] = op
ResetComing == Holds(pending, "reset") \/ Has(queue, "reset")
RequestComing == Holds(pending, "request") \/ Has(queue, "request")

\* A camera that runs or is about to; one that runs, or will without another call.
Hot == capturer \in {"Starting", "Started"} \/ Promised \/ step.at = "tell"
Well == capturer = "Started" \/ Promised \/ step.at \in {"tell", "restart"}

\* What has still to be told fits the state of the capturer.
CapturerInv ==
  /\ capturer = "none" => answers = Nothing /\ session = "idle" /\ step.at \notin {"restart", "tell"}
  /\ capturer = "Started" => answers = Nothing /\ step.at \notin {"restart", "tell"}
  /\ capturer = "Starting" =>
       IF step.at = "tell" THEN answers \in {Nothing, OneStop} ELSE Promised /\ step.at # "restart"
  /\ capturer = "Stopping" => answers = OneStop /\ step.at # "tell"
  /\ capturer = "Stopped" =>
       /\ answers \in {Nothing, OneStart}
       /\ step.at \in {"restart", "tell"} => answers = Nothing
  /\ step.at = "end" => capturer = "none"

\* A source that is not active has no capturer, or somebody is taking it away.
SourceInv ==
  /\ session = "closing" => ~active /\ capturer = "Stopped"
  /\ step.at = "end" \/ (step.at = "detach" /\ step.next = "end") => ~active
  /\ step.at \in {"restart", "tell"} /\ ~active => session = "closing"
  /\ session = "Ended" => ~active
  /\ source = "Ended" => ~active /\ session \notin {"Live", "Muted"}
  /\ ~active /\ capturer \in {"Starting", "Started", "Stopping"} => step.at = "detach"
  /\ ~active /\ answers # Nothing => step.at = "detach" \/ session = "closing"
  /\ capturer = "Started" /\ step.at # "detach" => session = "Live" \/ (session = "idle" /\ source = "Live")

OptionsInv == ~missed /\ Hot => using = choice

\* A reset is under way for every camera nobody wants, and for every capturer that
\* will not run without another call.
ReleaseInv ==
  /\ Hot /\ ~FrameWanted => ResetComing \/ step.at = "detach" \/ session = "closing"
  /\ step.at \in {"create", "restart"} /\ active /\ ~FrameWanted => ResetComing
  /\ capturer # "none" /\ ~Well /\ active => ResetComing \/ step.at = "detach"

\* As long as no calls cross, one thread at most has something to post; the last reset
\* is followed by a request when frames are wanted, and a request is under way when
\* there is no capturer.
RequestInv ==
  ~crossed =>
    /\ \A v, w \in Viewers : pending[v] # "nothing" /\ pending[w] # "nothing" => v = w
    /\ FrameWanted =>
       /\ ~Holds(pending, "reset")
       /\ ResetsAreAnswered(queue) \/ Holds(pending, "request")
       /\ ~failing /\ (capturer = "none" \/ step.at = "detach") =>
            RequestComing \/ step.at \in {"check", "create"} \/ (step.at = "detach" /\ step.next = "check")
       /\ step.at = "detach" /\ step.next = "idle" => RequestComing

CameraInv ==
  CameraTypeOK /\ CapturerInv /\ SourceInv /\ OptionsInv /\ ReleaseInv /\ RequestInv

(***************************************************************************)
(* The queue, the answers and the threads.                                 *)
(***************************************************************************)

\* The task at the head of the queue is taken out.
LEMMA TakeFacts ==
  ASSUME NEW T, NEW q \in Seq(T), q # <<>>
  PROVE  /\ Tail(q) \in Seq(T) /\ Head(q) \in T
         /\ \A op : Has(q, op) <=> Head(q).op = op \/ Has(Tail(q), op)
         /\ ResetsAreAnswered(q) => ResetsAreAnswered(Tail(q))
         /\ ResetsAreAnswered(q) /\ Head(q).op = "reset" => Has(Tail(q), "request")
<1>1. /\ Tail(q) \in Seq(T) /\ Head(q) \in T /\ Head(q) = q[1]
      /\ Len(q) \in Nat \ {0} /\ DOMAIN q = 1..Len(q) /\ DOMAIN Tail(q) = 1..(Len(q) - 1)
      /\ \A i \in 1..(Len(q) - 1) : Tail(q)[i] = q[i + 1]
  OBVIOUS
<1>2. ASSUME NEW i \in DOMAIN q, i # 1
      PROVE  i - 1 \in DOMAIN Tail(q) /\ Tail(q)[i - 1] = q[i]
  BY <1>1, <1>2
<1>3. ASSUME NEW i \in DOMAIN Tail(q) PROVE i + 1 \in DOMAIN q /\ Tail(q)[i] = q[i + 1]
  BY <1>1
<1>4. 1 \in DOMAIN q
  BY <1>1
<1>5. ASSUME NEW op PROVE Has(q, op) <=> Head(q).op = op \/ Has(Tail(q), op)
  <2>1. Has(q, op) => Head(q).op = op \/ Has(Tail(q), op)
    BY <1>1, <1>2 DEF Has
  <2>2. Head(q).op = op => Has(q, op)
    BY <1>1, <1>4 DEF Has
  <2>3. Has(Tail(q), op) => Has(q, op)
    BY <1>3 DEF Has
  <2>4. QED  BY <2>1, <2>2, <2>3
<1>6. ASSUME ResetsAreAnswered(q) PROVE ResetsAreAnswered(Tail(q))
  <2> SUFFICES ASSUME NEW i \in DOMAIN Tail(q), Tail(q)[i].op = "reset"
               PROVE  \E j \in DOMAIN Tail(q) : j > i /\ Tail(q)[j].op = "request"
    BY DEF ResetsAreAnswered
  <2>1. PICK j \in DOMAIN q : j > i + 1 /\ q[j].op = "request"
    BY <1>3, <1>6 DEF ResetsAreAnswered
  <2>2. j # 1 /\ j - 1 > i
    BY <1>1, <2>1
  <2>3. QED  BY <1>2, <2>1, <2>2
<1>7. ASSUME ResetsAreAnswered(q), Head(q).op = "reset" PROVE Has(Tail(q), "request")
  <2>1. PICK j \in DOMAIN q : j > 1 /\ q[j].op = "request"
    BY <1>1, <1>4, <1>7 DEF ResetsAreAnswered
  <2>2. j # 1
    BY <2>1
  <2>3. QED  BY <1>2, <2>1, <2>2 DEF Has
<1>8. QED  BY <1>1, <1>5, <1>6, <1>7

\* A task is posted.
LEMMA PostFacts ==
  ASSUME NEW T, NEW q \in Seq(T), NEW c \in T
  PROVE  /\ Append(q, c) \in Seq(T)
         /\ \A op : Has(Append(q, c), op) <=> Has(q, op) \/ c.op = op
         /\ ResetsAreAnswered(q) /\ c.op # "reset" => ResetsAreAnswered(Append(q, c))
         /\ c.op = "request" => ResetsAreAnswered(Append(q, c))
<1>1. /\ Append(q, c) \in Seq(T) /\ Len(q) \in Nat
      /\ DOMAIN q = 1..Len(q) /\ DOMAIN Append(q, c) = 1..(Len(q) + 1)
      /\ \A i \in 1..Len(q) : Append(q, c)[i] = q[i]
      /\ Append(q, c)[Len(q) + 1] = c
  OBVIOUS
<1>2. \A i \in DOMAIN Append(q, c) : i \in DOMAIN q \/ i = Len(q) + 1
  BY <1>1
<1>3. /\ \A i \in DOMAIN q : i \in DOMAIN Append(q, c) /\ i < Len(q) + 1
      /\ Len(q) + 1 \in DOMAIN Append(q, c)
  BY <1>1
<1>4. ASSUME NEW op PROVE Has(Append(q, c), op) <=> Has(q, op) \/ c.op = op
  BY <1>1, <1>2, <1>3 DEF Has
<1>5. ASSUME ResetsAreAnswered(q), c.op # "reset" PROVE ResetsAreAnswered(Append(q, c))
  <2> SUFFICES ASSUME NEW i \in DOMAIN Append(q, c), Append(q, c)[i].op = "reset"
               PROVE  \E j \in DOMAIN Append(q, c) : j > i /\ Append(q, c)[j].op = "request"
    BY DEF ResetsAreAnswered
  <2>1. i \in DOMAIN q /\ q[i].op = "reset"
    BY <1>1, <1>2, <1>5
  <2>2. PICK j \in DOMAIN q : j > i /\ q[j].op = "request"
    BY <1>5, <2>1 DEF ResetsAreAnswered
  <2>3. QED  BY <1>1, <1>3, <2>2
<1>6. ASSUME c.op = "request" PROVE ResetsAreAnswered(Append(q, c))
  <2> SUFFICES ASSUME NEW i \in DOMAIN Append(q, c), Append(q, c)[i].op = "reset"
               PROVE  \E j \in DOMAIN Append(q, c) : j > i /\ Append(q, c)[j].op = "request"
    BY DEF ResetsAreAnswered
  <2>1. i < Len(q) + 1
    BY <1>1, <1>2, <1>3, <1>6
  <2>2. QED  BY <1>1, <1>3, <1>6, <2>1
<1>7. QED  BY <1>1, <1>4, <1>5, <1>6

LEMMA AppendToOne ==
  ASSUME NEW S, NEW a \in S, NEW b \in S
  PROVE  Append(<<b>>, a) = <<b, a>>
<1>1. ASSUME NEW q \in Seq(S), Len(q) = 1
      PROVE  /\ Append(q, a) \in Seq(S) /\ Len(Append(q, a)) = 2
             /\ Append(q, a)[1] = q[1] /\ Append(q, a)[2] = a
  <2>1. /\ Append(q, a) \in Seq(S) /\ Len(Append(q, a)) = Len(q) + 1
        /\ Append(q, a)[Len(q) + 1] = a /\ \A i \in 1..Len(q) : Append(q, a)[i] = q[i]
    OBVIOUS
  <2>2. QED  BY <1>1, <2>1
<1>2. ASSUME NEW q \in Seq(S), NEW r \in Seq(S),
             Len(q) = 2, Len(r) = 2, q[1] = r[1], q[2] = r[2]
      PROVE  q = r
  <2>1. \A i \in 1..2 : q[i] = r[i]
    BY <1>2
  <2>2. QED  BY <1>2, <2>1
<1>3. /\ <<b>> \in Seq(S) /\ Len(<<b>>) = 1 /\ <<b>>[1] = b
      /\ <<b, a>> \in Seq(S) /\ Len(<<b, a>>) = 2 /\ <<b, a>>[1] = b /\ <<b, a>>[2] = a
  OBVIOUS
<1>4. QED  BY <1>1, <1>2, <1>3

\* The four values of answers, and what telling and asking makes of them.
LEMMA AnswerFacts ==
  /\ Nothing # OneStart /\ Nothing # OneStop /\ Nothing # StopAndStart
  /\ OneStart # OneStop /\ OneStart # StopAndStart /\ OneStop # StopAndStart
  /\ Append(Nothing, [op |-> "started"]) = OneStart
  /\ Append(Nothing, [op |-> "stopped"]) = OneStop
  /\ Append(OneStop, [op |-> "started"]) = StopAndStart
  /\ Head(OneStart).op = "started" /\ Tail(OneStart) = Nothing
  /\ Head(OneStop).op = "stopped" /\ Tail(OneStop) = Nothing
  /\ Head(StopAndStart).op = "stopped" /\ Tail(StopAndStart) = OneStart
  /\ {Nothing, OneStart, OneStop, StopAndStart} \subseteq Seq(AnswerType)
<1> DEFINE a == [op |-> "started"]
           b == [op |-> "stopped"]
<1>1. a.op = "started" /\ b.op = "stopped" /\ a \in AnswerType /\ b \in AnswerType
  BY DEF AnswerType
<1>2. a # b
  BY <1>1
<1> HIDE DEF a, b
<1>3. /\ <<>> # <<a>> /\ <<>> # <<b>> /\ <<>> # <<b, a>>
      /\ <<a>> # <<b, a>> /\ <<b>> # <<b, a>> /\ <<a>> # <<b>>
  <2>1. Len(<<>>) = 0 /\ Len(<<a>>) = 1 /\ Len(<<b>>) = 1 /\ Len(<<b, a>>) = 2
    OBVIOUS
  <2>2. <<a>>[1] = a /\ <<b>>[1] = b
    OBVIOUS
  <2>3. <<a>> # <<b>>
    BY <1>2, <2>2
  <2>4. QED  BY <2>1, <2>3
<1>4. /\ Append(<<>>, a) = <<a>> /\ Append(<<>>, b) = <<b>> /\ Append(<<b>>, a) = <<b, a>>
      /\ Head(<<a>>) = a /\ Tail(<<a>>) = <<>> /\ Head(<<b>>) = b /\ Tail(<<b>>) = <<>>
      /\ Head(<<b, a>>) = b /\ Tail(<<b, a>>) = <<a>>
  <2>1. Append(<<>>, a) = <<a>> /\ Append(<<>>, b) = <<b>>
    OBVIOUS
  <2>2. Append(<<b>>, a) = <<b, a>>
    BY <1>1, AppendToOne
  <2>3. Head(<<a>>) = a /\ Head(<<b>>) = b /\ Head(<<b, a>>) = b
    OBVIOUS
  <2>4. Tail(<<a>>) = <<>>
    OBVIOUS
  <2>5. Tail(<<b>>) = <<>>
    OBVIOUS
  <2>6. Tail(<<b, a>>) = <<a>>
    OBVIOUS
  <2>7. QED  BY <2>1, <2>2, <2>3, <2>4, <2>5, <2>6
<1>5. {<<>>, <<a>>, <<b>>, <<b, a>>} \subseteq Seq(AnswerType)
  BY <1>1
<1>6. Nothing = <<>> /\ OneStart = <<a>> /\ OneStop = <<b>> /\ StopAndStart = <<b, a>>
  BY DEF Nothing, OneStart, OneStop, StopAndStart, a, b
<1>7. QED  BY <1>1, <1>3, <1>4, <1>5, <1>6 DEF a, b

(***************************************************************************)
(* Threads of the viewers.                                                 *)
(***************************************************************************)

\* What a thread does leaves the capturer and what is told of it alone.
LEMMA CapturerKept ==
  ASSUME CameraInv, UNCHANGED <<active, source, choice, step, capturerVars, session, missed>>
  PROVE  CapturerInv' /\ SourceInv' /\ OptionsInv' /\ Hot' = Hot /\ Well' = Well
<1>1. UNCHANGED <<capturer, using, answers>>
  BY DEF capturerVars
<1>2. Promised' = Promised
  BY <1>1 DEF Promised
<1>3. Hot' = Hot /\ Well' = Well
  BY <1>1, <1>2 DEF Hot, Well
<1>4. CapturerInv'
  BY <1>1, <1>2 DEF CameraInv, CapturerInv
<1>5. SourceInv'
  BY <1>1 DEF CameraInv, SourceInv
<1>6. OptionsInv'
  BY <1>1, <1>3 DEF CameraInv, OptionsInv
<1>7. QED  BY <1>3, <1>4, <1>5, <1>6

\* A call of a viewer, as far as the rest of the invariant sees it: whether frames are
\* wanted changes only with a task that has to be posted for it.
LEMMA CallStep ==
  ASSUME CameraInv, NEW v \in Viewers, pending[v] = "nothing", crossed' = Crosses(v),
         NEW s \in {"nothing", "request", "reset"}, pending' = [pending EXCEPT ![v] = s],
         UNCHANGED <<active, source, choice, queue, step, capturerVars, session, failing, missed>>,
         FrameWanted /\ ~FrameWanted' => s = "reset",
         ~FrameWanted /\ FrameWanted' => s = "request",
         FrameWanted /\ FrameWanted' => s # "reset"
  PROVE  CapturerInv' /\ SourceInv' /\ OptionsInv' /\ ReleaseInv' /\ RequestInv'
<1>1. CapturerInv' /\ SourceInv' /\ OptionsInv' /\ Hot' = Hot /\ Well' = Well
  BY CapturerKept
<1>2. pending \in [Viewers -> {"nothing", "request", "reset"}] /\ crossed \in BOOLEAN
  BY DEF CameraInv, CameraTypeOK
<1>3. /\ pending'[v] = s /\ \A w \in Viewers : w # v => pending'[w] = pending[w]
      /\ Holds(pending', s)
      /\ \A op \in {"request", "reset"} : Holds(pending, op) => Holds(pending', op)
  <2>1. pending'[v] = s /\ \A w \in Viewers : w # v => pending'[w] = pending[w]
    BY <1>2
  <2>2. Holds(pending', s)
    BY <2>1 DEF Holds
  <2>3. \A op \in {"request", "reset"} : Holds(pending, op) => Holds(pending', op)
    BY <2>1 DEF Holds
  <2>4. QED  BY <2>1, <2>2, <2>3
<1>4. (ResetComing => ResetComing') /\ (RequestComing => RequestComing')
  BY <1>3 DEF ResetComing, RequestComing
<1>5. UNCHANGED <<capturer, answers>>
  BY DEF capturerVars
<1>6. FrameWanted /\ ~FrameWanted' => ResetComing'
  BY <1>3 DEF ResetComing
<1>7. ReleaseInv'
  BY <1>1, <1>4, <1>5, <1>6 DEF CameraInv, ReleaseInv
<1>8. RequestInv'
  <2> SUFFICES ASSUME ~crossed' PROVE RequestInv'
    BY DEF RequestInv
  <2>1. ~crossed /\ \A w \in Viewers : w # v => pending[w] = "nothing"
    BY <1>2 DEF Crosses
  <2>2. \A w \in Viewers : w # v => pending'[w] = "nothing"
    BY <1>3, <2>1
  <2>3. \A w, x \in Viewers : pending'[w] # "nothing" /\ pending'[x] # "nothing" => w = x
    BY <2>2
  <2>4. ASSUME FrameWanted'
        PROVE  /\ ~Holds(pending', "reset")
               /\ ResetsAreAnswered(queue) \/ Holds(pending', "request")
               /\ ~failing /\ (capturer = "none" \/ step.at = "detach") =>
                    RequestComing' \/ step.at \in {"check", "create"} \/ (step.at = "detach" /\ step.next = "check")
               /\ step.at = "detach" /\ step.next = "idle" => RequestComing'
    <3>1. ~Holds(pending', "reset")
      BY <1>3, <2>2, <2>4 DEF Holds
    <3>2. CASE FrameWanted
      <4>1. ResetsAreAnswered(queue) \/ Holds(pending', "request")
        BY <1>3, <2>1, <3>2 DEF CameraInv, RequestInv
      <4>2. QED  BY <1>4, <2>1, <3>1, <3>2, <4>1 DEF CameraInv, RequestInv
    <3>3. CASE ~FrameWanted
      <4>1. Holds(pending', "request")
        BY <1>3, <2>4, <3>3
      <4>2. RequestComing'
        BY <4>1 DEF RequestComing
      <4>3. QED  BY <3>1, <4>1, <4>2
    <3>4. QED  BY <3>2, <3>3
  <2>5. QED  BY <1>5, <2>3, <2>4 DEF RequestInv
<1>9. QED  BY <1>1, <1>7, <1>8

LEMMA AddOrUpdateSinkInv ==
  ASSUME CameraInv, NEW v \in Viewers, AddOrUpdateSink(v) PROVE CameraInv'
<1> DEFINE s == IF viewers = {} THEN "request" ELSE "nothing"
<1>1. /\ pending[v] = "nothing" /\ crossed' = Crosses(v) /\ pending' = [pending EXCEPT ![v] = s]
      /\ viewers' = viewers \cup {v} /\ s \in {"nothing", "request", "reset"}
      /\ UNCHANGED <<active, enabled, source, choice, queue, step, capturerVars, session, failing, missed>>
  BY DEF AddOrUpdateSink, MayCall
<1>2. CameraTypeOK'
  <2>1. pending' \in [Viewers -> {"nothing", "request", "reset"}]
    BY <1>1 DEF CameraInv, CameraTypeOK
  <2>2. crossed' \in BOOLEAN
    BY <1>1 DEF CameraInv, CameraTypeOK, Crosses
  <2>3. uses' \in 0..MaxUses
    BY CameraSourceAssumption DEF CameraInv, CameraTypeOK, AddOrUpdateSink, MayCall, Use
  <2>4. viewers' \subseteq Viewers /\ enabled' \in BOOLEAN
    BY <1>1 DEF CameraInv, CameraTypeOK
  <2>5. QED
    BY <1>1, <2>1, <2>2, <2>3, <2>4 DEF CameraInv, CameraTypeOK, capturerVars
<1>3. /\ FrameWanted => FrameWanted' /\ s = "nothing"
      /\ ~FrameWanted /\ FrameWanted' => s = "request"
  BY <1>1 DEF FrameWanted
<1>4. QED
  <2> HIDE DEF s
  <2>1. CapturerInv' /\ SourceInv' /\ OptionsInv' /\ ReleaseInv' /\ RequestInv'
    BY <1>1, <1>3, CallStep
  <2>2. QED  BY <1>2, <2>1 DEF CameraInv

LEMMA RemoveSinkInv ==
  ASSUME CameraInv, NEW v \in Viewers, RemoveSink(v) PROVE CameraInv'
<1> DEFINE s == IF viewers' = {} THEN "reset" ELSE "nothing"
<1>1. /\ pending[v] = "nothing" /\ crossed' = Crosses(v) /\ pending' = [pending EXCEPT ![v] = s]
      /\ viewers' = viewers \ {v} /\ s \in {"nothing", "request", "reset"}
      /\ UNCHANGED <<active, enabled, source, choice, queue, step, capturerVars, session, failing, missed>>
  BY DEF RemoveSink
<1>2. CameraTypeOK'
  <2>1. pending' \in [Viewers -> {"nothing", "request", "reset"}]
    BY <1>1 DEF CameraInv, CameraTypeOK
  <2>2. crossed' \in BOOLEAN
    BY <1>1 DEF CameraInv, CameraTypeOK, Crosses
  <2>3. uses' \in 0..MaxUses
    BY CameraSourceAssumption DEF CameraInv, CameraTypeOK, RemoveSink, Use
  <2>4. viewers' \subseteq Viewers /\ enabled' \in BOOLEAN
    BY <1>1 DEF CameraInv, CameraTypeOK
  <2>5. QED
    BY <1>1, <2>1, <2>2, <2>3, <2>4 DEF CameraInv, CameraTypeOK, capturerVars
<1>3. /\ FrameWanted /\ ~FrameWanted' => s = "reset"
      /\ FrameWanted' => FrameWanted /\ s = "nothing"
  BY <1>1 DEF FrameWanted
<1>4. QED
  <2> HIDE DEF s
  <2>1. CapturerInv' /\ SourceInv' /\ OptionsInv' /\ ReleaseInv' /\ RequestInv'
    BY <1>1, <1>3, CallStep
  <2>2. QED  BY <1>2, <2>1 DEF CameraInv

LEMMA SetEnabledInv ==
  ASSUME CameraInv, NEW v \in Viewers, SetEnabled(v) PROVE CameraInv'
<1> DEFINE s == IF enabled THEN "reset" ELSE "request"
<1>1. /\ pending[v] = "nothing" /\ crossed' = Crosses(v) /\ pending' = [pending EXCEPT ![v] = s]
      /\ enabled' = ~enabled /\ s \in {"nothing", "request", "reset"}
      /\ UNCHANGED <<active, source, viewers, choice, queue, step, capturerVars, session, failing, missed>>
  BY DEF SetEnabled, MayCall
<1>2. CameraTypeOK'
  <2>1. pending' \in [Viewers -> {"nothing", "request", "reset"}]
    BY <1>1 DEF CameraInv, CameraTypeOK
  <2>2. crossed' \in BOOLEAN
    BY <1>1 DEF CameraInv, CameraTypeOK, Crosses
  <2>3. uses' \in 0..MaxUses
    BY CameraSourceAssumption DEF CameraInv, CameraTypeOK, SetEnabled, MayCall, Use
  <2>4. viewers' \subseteq Viewers /\ enabled' \in BOOLEAN
    BY <1>1 DEF CameraInv, CameraTypeOK
  <2>5. QED
    BY <1>1, <2>1, <2>2, <2>3, <2>4 DEF CameraInv, CameraTypeOK, capturerVars
<1>3. /\ FrameWanted => ~FrameWanted' /\ s = "reset"
      /\ FrameWanted' => ~FrameWanted /\ s = "request"
  BY <1>1 DEF FrameWanted
<1>4. QED
  <2> HIDE DEF s
  <2>1. CapturerInv' /\ SourceInv' /\ OptionsInv' /\ ReleaseInv' /\ RequestInv'
    BY <1>1, <1>3, CallStep
  <2>2. QED  BY <1>2, <2>1 DEF CameraInv

LEMMA PostToImplInv ==
  ASSUME CameraInv, NEW v \in Viewers, PostToImpl(v) PROVE CameraInv'
<1> DEFINE op == pending[v]
           c == [op |-> op]
<1>1. /\ op \in {"request", "reset"} /\ c.op = op /\ c \in QueueType
      /\ queue \in Seq(QueueType) /\ pending \in [Viewers -> {"nothing", "request", "reset"}]
  BY DEF PostToImpl, QueueType, CameraInv, CameraTypeOK
<1>2. /\ pending' = [pending EXCEPT ![v] = "nothing"] /\ queue' = Append(queue, c)
      /\ UNCHANGED <<active, enabled, source, viewers, choice, crossed, uses, step, capturerVars,
                     session, failing, missed>>
  BY DEF PostToImpl, sourceVars
<1> HIDE DEF c
<1>3. /\ queue' \in Seq(QueueType)
      /\ \A o : Has(queue', o) <=> Has(queue, o) \/ op = o
      /\ ResetsAreAnswered(queue) /\ op # "reset" => ResetsAreAnswered(queue')
      /\ op = "request" => ResetsAreAnswered(queue')
  BY <1>1, <1>2, PostFacts
<1>4. /\ pending' \in [Viewers -> {"nothing", "request", "reset"}]
      /\ pending'[v] = "nothing" /\ \A w \in Viewers : w # v => pending'[w] = pending[w]
  BY <1>1, <1>2
<1>5. CameraTypeOK'
  BY <1>2, <1>3, <1>4 DEF CameraInv, CameraTypeOK, capturerVars
<1>6. CapturerInv' /\ SourceInv' /\ OptionsInv' /\ Hot' = Hot /\ Well' = Well
  BY <1>2, CapturerKept
<1>7. Holds(pending, op)
  BY DEF Holds
<1>8. \A o \in {"request", "reset"} : Holds(pending, o) => Holds(pending', o) \/ Has(queue', o)
  BY <1>1, <1>3, <1>4 DEF Holds
<1>9. \A o \in {"request", "reset"} : Holds(pending', o) => Holds(pending, o)
  BY <1>1, <1>4 DEF Holds
<1>10. FrameWanted' = FrameWanted /\ UNCHANGED <<capturer, answers>>
  BY <1>2 DEF FrameWanted, capturerVars
<1>11. (ResetComing => ResetComing') /\ (RequestComing => RequestComing')
  BY <1>3, <1>8 DEF ResetComing, RequestComing
<1>12. ReleaseInv'
  BY <1>2, <1>6, <1>10, <1>11 DEF CameraInv, ReleaseInv
<1>13. RequestInv'
  <2> SUFFICES ASSUME ~crossed' PROVE RequestInv'
    BY DEF RequestInv
  <2>1. ~crossed
    BY <1>2
  <2>2. \A w, x \in Viewers : pending'[w] # "nothing" /\ pending'[x] # "nothing" => w = x
    BY <1>4, <2>1 DEF CameraInv, RequestInv
  <2>3. ASSUME FrameWanted
        PROVE  ~Holds(pending', "reset") /\ ResetsAreAnswered(queue')
    <3>1. ~Holds(pending, "reset") /\ op = "request"
      BY <1>1, <1>7, <2>1, <2>3 DEF CameraInv, RequestInv
    <3>2. QED  BY <1>3, <1>9, <3>1
  <2>4. QED
    BY <1>2, <1>10, <1>11, <2>1, <2>2, <2>3 DEF CameraInv, RequestInv
<1>14. QED
  BY <1>5, <1>6, <1>12, <1>13 DEF CameraInv

LEMMA AskInv ==
  ASSUME CameraInv, NEW v \in Viewers, NEW c \in QueueType, c.op \notin {"request", "reset"}, Ask(v, c)
  PROVE  CameraInv'
<1>1. /\ queue' = Append(queue, c) /\ uses < MaxUses /\ uses' = uses + 1
      /\ UNCHANGED <<active, enabled, source, viewers, choice, pending, crossed, step, capturerVars,
                     session, failing, missed>>
  BY DEF Ask, MayCall, Use, sourceVars
<1>2. queue \in Seq(QueueType)
  BY DEF CameraInv, CameraTypeOK
<1>3. /\ queue' \in Seq(QueueType)
      /\ \A o \in {"request", "reset"} : Has(queue', o) <=> Has(queue, o)
      /\ ResetsAreAnswered(queue) => ResetsAreAnswered(queue')
  BY <1>1, <1>2, PostFacts
<1>4. CameraTypeOK'
  BY <1>1, <1>3, CameraSourceAssumption DEF CameraInv, CameraTypeOK, capturerVars
<1>5. CapturerInv' /\ SourceInv' /\ OptionsInv' /\ Hot' = Hot /\ Well' = Well
  BY <1>1, CapturerKept
<1>6. ResetComing' = ResetComing /\ RequestComing' = RequestComing
  BY <1>1, <1>3 DEF ResetComing, RequestComing
<1>7. FrameWanted' = FrameWanted /\ UNCHANGED <<capturer, answers>>
  BY <1>1 DEF FrameWanted, capturerVars
<1>8. ReleaseInv'
  BY <1>1, <1>5, <1>6, <1>7 DEF CameraInv, ReleaseInv
<1>9. RequestInv'
  BY <1>1, <1>3, <1>6, <1>7 DEF CameraInv, RequestInv
<1>10. QED
  BY <1>4, <1>5, <1>8, <1>9 DEF CameraInv

LEMMA ViewerInv ==
  ASSUME CameraInv, NEW v \in Viewers, Viewer(v) PROVE CameraInv'
<1>1. CASE AddOrUpdateSink(v)
  BY <1>1, AddOrUpdateSinkInv
<1>2. CASE RemoveSink(v)
  BY <1>2, RemoveSinkInv
<1>3. CASE SetEnabled(v)
  BY <1>3, SetEnabledInv
<1>4. CASE PostToImpl(v)
  BY <1>4, PostToImplInv
<1>5. CASE SetDeviceInfo(v)
  <2> DEFINE c == [op |-> "device"]
  <2>1. c \in QueueType /\ c.op \notin {"request", "reset"} /\ Ask(v, c)
    BY <1>5 DEF SetDeviceInfo, QueueType
  <2> HIDE DEF c
  <2>2. QED  BY <2>1, AskInv
<1>6. CASE \E o \in Choices : SetOptions(v, o)
  <2> PICK o \in Choices : SetOptions(v, o)
    BY <1>6
  <2> DEFINE c == [op |-> "options", choice |-> o]
  <2>1. c \in QueueType /\ c.op \notin {"request", "reset"} /\ Ask(v, c)
    BY DEF SetOptions, QueueType
  <2> HIDE DEF c
  <2>2. QED  BY <2>1, AskInv
<1>7. CASE CloseSource(v)
  <2> DEFINE c == [op |-> "close"]
  <2>1. c \in QueueType /\ c.op \notin {"request", "reset"} /\ Ask(v, c)
    BY <1>7 DEF CloseSource, QueueType
  <2> HIDE DEF c
  <2>2. QED  BY <2>1, AskInv
<1>8. QED
  BY <1>1, <1>2, <1>3, <1>4, <1>5, <1>6, <1>7 DEF Viewer


(***************************************************************************)
(* The signaling queue.                                                    *)
(***************************************************************************)

\* The task that runs next has been taken out of the queue.
LEMMA RunFacts ==
  ASSUME CameraInv, NEW op, Run(op)
  PROVE  /\ step.at = "idle" /\ queue' \in Seq(QueueType) /\ Head(queue) \in QueueType
         /\ \A o : Has(queue, o) <=> op = o \/ Has(queue', o)
         /\ ResetsAreAnswered(queue) => ResetsAreAnswered(queue')
         /\ ResetsAreAnswered(queue) /\ op = "reset" => Has(queue', "request")
<1>1. /\ queue \in Seq(QueueType) /\ queue # <<>> /\ Head(queue).op = op /\ queue' = Tail(queue)
      /\ step = NoTask
  BY DEF Run, CameraInv, CameraTypeOK
<1>2. step.at = "idle"
  BY <1>1 DEF NoTask
<1>3. QED  BY <1>1, <1>2, TakeFacts

\* A task that was taken out and asks for nothing, or for what comes next.
LEMMA ComingFacts ==
  ASSUME CameraInv, NEW op, Run(op), pending' = pending
  PROVE  /\ op # "reset" => ResetComing' = ResetComing
         /\ op # "request" => RequestComing' = RequestComing
         /\ ResetsAreAnswered(queue) /\ op = "reset" => RequestComing'
<1>1. /\ \A o : Has(queue, o) <=> op = o \/ Has(queue', o)
      /\ ResetsAreAnswered(queue) /\ op = "reset" => Has(queue', "request")
  BY RunFacts
<1>2. QED  BY <1>1 DEF ResetComing, RequestComing

LEMMA RunRequestInv ==
  ASSUME CameraInv, RunRequest PROVE CameraInv'
<1>1. /\ Run("request") /\ step' = [at |-> "check"]
      /\ UNCHANGED <<active, enabled, source, viewers, choice, pending, crossed, uses, capturer, using,
                     answers, session, failing, missed>>
  BY DEF RunRequest, sourceVars, threadVars, capturerVars
<1>2. /\ step.at = "idle" /\ queue' \in Seq(QueueType)
      /\ ResetsAreAnswered(queue) => ResetsAreAnswered(queue')
  BY <1>1, RunFacts
<1>3. ResetComing' = ResetComing
  BY <1>1, ComingFacts
<1>4. step'.at = "check" /\ step' \in StepType
  BY <1>1 DEF StepType
<1>5. CameraTypeOK'
  BY <1>1, <1>2, <1>4 DEF CameraInv, CameraTypeOK
<1>6. FrameWanted' = FrameWanted /\ Promised' = Promised
  BY <1>1 DEF FrameWanted, Promised
<1>7. CapturerInv'
  BY <1>1, <1>2, <1>4, <1>6 DEF CameraInv, CapturerInv
<1>8. SourceInv'
  BY <1>1, <1>2, <1>4 DEF CameraInv, SourceInv
<1>9. OptionsInv'
  BY <1>1, <1>2, <1>4, <1>6 DEF CameraInv, OptionsInv, Hot
<1>10. ReleaseInv'
  BY <1>1, <1>2, <1>3, <1>4, <1>6 DEF CameraInv, ReleaseInv, Hot, Well
<1>11. RequestInv'
  BY <1>1, <1>2, <1>4, <1>6 DEF CameraInv, RequestInv
<1>12. QED
  BY <1>5, <1>7, <1>8, <1>9, <1>10, <1>11 DEF CameraInv

LEMMA CheckWantedInv ==
  ASSUME CameraInv, CheckWanted PROVE CameraInv'
<1>1. /\ step.at = "check" /\ step' = IF FrameWanted THEN [at |-> "create"] ELSE NoTask
      /\ UNCHANGED <<active, enabled, source, viewers, choice, pending, crossed, uses, queue, capturer,
                     using, answers, session, failing, missed>>
  BY DEF CheckWanted, sourceVars, threadVars, capturerVars
<1>2. /\ step' \in StepType /\ step'.at \in {"create", "idle"}
      /\ step'.at = "create" <=> FrameWanted
  BY <1>1 DEF StepType, NoTask
<1>3. /\ FrameWanted' = FrameWanted /\ Promised' = Promised /\ ResetComing' = ResetComing
      /\ RequestComing' = RequestComing
  BY <1>1 DEF FrameWanted, Promised, ResetComing, RequestComing
<1>4. CameraTypeOK'
  BY <1>1, <1>2 DEF CameraInv, CameraTypeOK
<1>5. CapturerInv'
  BY <1>1, <1>2, <1>3 DEF CameraInv, CapturerInv
<1>6. SourceInv'
  BY <1>1, <1>2 DEF CameraInv, SourceInv
<1>7. OptionsInv'
  BY <1>1, <1>2, <1>3 DEF CameraInv, OptionsInv, Hot
<1>8. ReleaseInv'
  BY <1>1, <1>2, <1>3 DEF CameraInv, ReleaseInv, Hot, Well
<1>9. RequestInv'
  BY <1>1, <1>2, <1>3 DEF CameraInv, RequestInv
<1>10. QED
  BY <1>4, <1>5, <1>6, <1>7, <1>8, <1>9 DEF CameraInv

LEMMA CreateInv ==
  ASSUME CameraInv, Create PROVE CameraInv'
<1>1. /\ step.at = "create" /\ step' = NoTask /\ capturer = "none" /\ failing' = FALSE
      /\ FrameWanted => /\ capturer' = "Starting" /\ using' = choice
                        /\ answers' = OneStart /\ source' = "Initializing"
      /\ ~FrameWanted => capturer' = "Stopped" /\ UNCHANGED <<using, answers, source>>
      /\ UNCHANGED <<active, enabled, viewers, choice, pending, crossed, uses, queue, session, missed>>
  BY DEF Create, threadVars, OneStart
<1>2. step' \in StepType /\ step'.at = "idle"
  BY <1>1 DEF StepType, NoTask
<1>3. answers = Nothing /\ session = "idle" /\ (FrameWanted => active)
  BY <1>1 DEF CameraInv, CapturerInv, FrameWanted
<1>4. /\ FrameWanted' = FrameWanted /\ ResetComing' = ResetComing
      /\ RequestComing' = RequestComing
  BY <1>1 DEF FrameWanted, ResetComing, RequestComing
<1>5. Promised' <=> FrameWanted
  BY <1>1, <1>3, AnswerFacts DEF Promised
<1>6. CameraTypeOK'
  <2>1. answers' \in Seq(AnswerType)
    BY <1>1, AnswerFacts DEF CameraInv, CameraTypeOK
  <2>2. QED  BY <1>1, <1>2, <2>1 DEF CameraInv, CameraTypeOK
<1>7. CapturerInv'
  BY <1>1, <1>2, <1>3, <1>5 DEF CapturerInv
<1>8. SourceInv'
  BY <1>1, <1>2, <1>3 DEF CameraInv, SourceInv
<1>9. OptionsInv'
  BY <1>1, <1>2, <1>5 DEF OptionsInv, Hot
<1>10. ReleaseInv'
  BY <1>1, <1>2, <1>4, <1>5 DEF CameraInv, ReleaseInv, Hot, Well
<1>11. RequestInv'
  BY <1>1, <1>2, <1>4 DEF CameraInv, RequestInv
<1>12. QED
  BY <1>6, <1>7, <1>8, <1>9, <1>10, <1>11 DEF CameraInv

LEMMA NoCreateInv ==
  ASSUME CameraInv, CreateFails \/ CreateAgain PROVE CameraInv'
<1>1. /\ step.at = "create" /\ step' = NoTask
      /\ failing' = TRUE \/ (failing' = failing /\ capturer # "none")
      /\ UNCHANGED <<active, enabled, source, viewers, choice, pending, crossed, uses, queue, capturer,
                     using, answers, session, missed>>
  BY DEF CreateFails, CreateAgain, sourceVars, threadVars, capturerVars
<1>2. step' \in StepType /\ step'.at = "idle" /\ failing' \in BOOLEAN
  BY <1>1 DEF StepType, NoTask, CameraInv, CameraTypeOK
<1>3. /\ FrameWanted' = FrameWanted /\ Promised' = Promised /\ ResetComing' = ResetComing
      /\ RequestComing' = RequestComing
  BY <1>1 DEF FrameWanted, Promised, ResetComing, RequestComing
<1>4. CameraTypeOK'
  BY <1>1, <1>2 DEF CameraInv, CameraTypeOK
<1>5. CapturerInv'
  BY <1>1, <1>2, <1>3 DEF CameraInv, CapturerInv
<1>6. SourceInv'
  BY <1>1, <1>2 DEF CameraInv, SourceInv
<1>7. OptionsInv'
  BY <1>1, <1>2, <1>3 DEF CameraInv, OptionsInv, Hot
<1>8. ReleaseInv'
  BY <1>1, <1>2, <1>3 DEF CameraInv, ReleaseInv, Hot, Well
<1>9. RequestInv'
  BY <1>1, <1>2, <1>3 DEF CameraInv, RequestInv
<1>10. QED
  BY <1>4, <1>5, <1>6, <1>7, <1>8, <1>9 DEF CameraInv


\* A reset begins: for another device, for nobody, or because the source closes.
LEMMA BeginResetInv ==
  ASSUME CameraInv, NEW op, NEW next, Run(op), BeginReset(next),
         \/ op = "reset" /\ next = "idle" /\ active' = active
         \/ op = "device" /\ next = "check" /\ active' = active
         \/ op = "close" /\ next = "end" /\ active' = FALSE,
         UNCHANGED <<enabled, source, viewers, choice, threadVars, using, session, failing, missed>>
  PROVE  CameraInv'
<1>1. /\ step' = [at |-> "detach", next |-> next] /\ next \in {"idle", "check", "end"}
      /\ UNCHANGED <<enabled, source, viewers, choice, pending, crossed, uses, using, session, failing, missed>>
  BY DEF BeginReset, threadVars
<1>2. step' \in StepType /\ step'.at = "detach" /\ step'.next = next
  BY <1>1 DEF StepType
<1>3. /\ step.at = "idle" /\ queue' \in Seq(QueueType)
      /\ ResetsAreAnswered(queue) => ResetsAreAnswered(queue')
  BY RunFacts
<1>4. /\ op # "reset" => ResetComing' = ResetComing
      /\ ResetsAreAnswered(queue) /\ op = "reset" => RequestComing'
      /\ RequestComing => RequestComing' \/ op = "request"
  BY <1>1, ComingFacts
<1>5. /\ capturer = "Started" => capturer' = "Stopping" /\ answers' = OneStop
      /\ capturer # "Started" => UNCHANGED <<capturer, answers>>
  <2>1. capturer = "Started" => answers = Nothing
    BY DEF CameraInv, CapturerInv
  <2>2. QED  BY <2>1, AnswerFacts DEF BeginReset, Stop
<1>6. (FrameWanted' => FrameWanted) /\ (op # "close" => FrameWanted' = FrameWanted) /\ (FrameWanted' => active')
  BY <1>1 DEF FrameWanted
<1>7. CameraTypeOK'
  <2>1. answers' \in Seq(AnswerType) /\ capturer' \in {"none", "Stopped", "Starting", "Started", "Stopping"}
    BY <1>5, AnswerFacts DEF CameraInv, CameraTypeOK
  <2>2. active' \in BOOLEAN
    BY DEF CameraInv, CameraTypeOK
  <2>3. QED  BY <1>1, <1>2, <1>3, <2>1, <2>2 DEF CameraInv, CameraTypeOK
<1>8. CapturerInv'
  <2>1. Promised' = Promised \/ capturer = "Started"
    BY <1>5 DEF Promised
  <2>2. QED  BY <1>1, <1>2, <1>3, <1>5, <2>1 DEF CameraInv, CapturerInv
<1>9. SourceInv'
  BY <1>1, <1>2, <1>3, <1>5 DEF CameraInv, SourceInv
<1>10. Hot' => Hot
  BY <1>2, <1>3, <1>5, AnswerFacts DEF Hot, Promised
<1>11. OptionsInv'
  BY <1>1, <1>10 DEF CameraInv, OptionsInv
<1>12. ReleaseInv'
  BY <1>2 DEF ReleaseInv
<1>13. RequestInv'
  <2>1. ~crossed /\ FrameWanted /\ next = "idle" => RequestComing'
    BY <1>1, <1>3, <1>4 DEF CameraInv, RequestInv, RequestComing
  <2>2. ~crossed => \A v, w \in Viewers : pending'[v] # "nothing" /\ pending'[w] # "nothing" => v = w
    BY <1>1 DEF CameraInv, RequestInv
  <2>3. ~crossed /\ FrameWanted =>
          ~Holds(pending', "reset") /\ (ResetsAreAnswered(queue') \/ Holds(pending', "request"))
    BY <1>1, <1>3 DEF CameraInv, RequestInv
  <2>4. FrameWanted' => next \in {"idle", "check"}
    BY <1>6
  <2>5. QED  BY <1>1, <1>2, <1>6, <2>1, <2>2, <2>3, <2>4 DEF RequestInv
<1>14. QED
  BY <1>7, <1>8, <1>9, <1>11, <1>12, <1>13 DEF CameraInv

\* A task for a source that is not active does nothing.
LEMMA DropInv ==
  ASSUME CameraInv, NEW op, Run(op), op \notin {"request", "reset"}, ~active,
         UNCHANGED <<sourceVars, threadVars, step, capturerVars, session, failing, missed>>
  PROVE  CameraInv'
<1>1. UNCHANGED <<active, enabled, source, viewers, choice, pending, crossed, uses, step, capturer, using,
                  answers, session, failing, missed>>
  BY DEF sourceVars, threadVars, capturerVars
<1>2. queue' \in Seq(QueueType)
  BY RunFacts
<1>3. ResetComing' = ResetComing
  BY <1>1, ComingFacts
<1>4. CameraTypeOK'
  BY <1>1, <1>2 DEF CameraInv, CameraTypeOK
<1>5. CapturerInv' /\ SourceInv' /\ OptionsInv' /\ Hot' = Hot /\ Well' = Well
  BY <1>1, CapturerKept DEF capturerVars
<1>6. ~FrameWanted /\ ~FrameWanted'
  BY <1>1 DEF FrameWanted
<1>7. ReleaseInv'
  BY <1>1, <1>3, <1>5, <1>6 DEF CameraInv, ReleaseInv
<1>8. RequestInv'
  BY <1>1, <1>6 DEF CameraInv, RequestInv
<1>9. QED
  BY <1>4, <1>5, <1>7, <1>8 DEF CameraInv

LEMMA RunResetInv ==
  ASSUME CameraInv, RunReset PROVE CameraInv'
<1>1. /\ Run("reset") /\ BeginReset("idle") /\ active' = active
      /\ UNCHANGED <<enabled, source, viewers, choice, threadVars, using, session, failing, missed>>
  BY DEF RunReset, sourceVars
<1>2. QED  BY <1>1, BeginResetInv

LEMMA RunDeviceInv ==
  ASSUME CameraInv, RunDevice PROVE CameraInv'
<1>1. /\ Run("device") /\ UNCHANGED <<sourceVars, threadVars, using, session, failing, missed>>
  BY DEF RunDevice
<1>2. CASE active
  <2>1. /\ BeginReset("check") /\ active' = active
        /\ UNCHANGED <<enabled, source, viewers, choice, threadVars, using, session, failing, missed>>
    BY <1>1, <1>2 DEF RunDevice, sourceVars
  <2>2. QED  BY <1>1, <2>1, BeginResetInv
<1>3. CASE ~active
  <2>1. UNCHANGED <<sourceVars, threadVars, step, capturerVars, session, failing, missed>>
    BY <1>1, <1>3 DEF RunDevice, capturerVars
  <2>2. QED  BY <1>1, <1>3, <2>1, DropInv
<1>4. QED  BY <1>2, <1>3

LEMMA RunCloseInv ==
  ASSUME CameraInv, RunClose PROVE CameraInv'
<1>1. /\ Run("close")
      /\ UNCHANGED <<enabled, source, viewers, choice, threadVars, using, session, failing, missed>>
  BY DEF RunClose
<1>2. CASE active
  <2>1. BeginReset("end") /\ active' = FALSE
    BY <1>2 DEF RunClose
  <2>2. QED  BY <1>1, <2>1, BeginResetInv
<1>3. CASE ~active
  <2>1. UNCHANGED <<sourceVars, threadVars, step, capturerVars, session, failing, missed>>
    BY <1>1, <1>3 DEF RunClose, sourceVars, capturerVars
  <2>2. QED  BY <1>1, <1>3, <2>1, DropInv
<1>4. QED  BY <1>2, <1>3

LEMMA DetachInv ==
  ASSUME CameraInv, Detach PROVE CameraInv'
<1>1. /\ step.at = "detach" /\ session = "idle" /\ capturer' = "none" /\ answers' = Nothing
      /\ step' = [at |-> step.next]
      /\ UNCHANGED <<active, enabled, source, viewers, choice, pending, crossed, uses, queue, using,
                     session, failing, missed>>
  BY DEF Detach, Gone, Nothing, sourceVars, threadVars
<1>2. step' \in StepType /\ step'.at = step.next /\ step.next \in {"idle", "check", "end"}
  <2>1. step.next \in {"idle", "check", "end"}
    BY <1>1 DEF CameraInv, CameraTypeOK, StepType
  <2>2. QED  BY <1>1, <2>1 DEF StepType
<1>3. FrameWanted' = FrameWanted /\ ResetComing' = ResetComing /\ RequestComing' = RequestComing
  BY <1>1 DEF FrameWanted, ResetComing, RequestComing
<1>4. ~Promised'
  BY <1>1, AnswerFacts DEF Promised
<1>5. CameraTypeOK'
  <2>1. answers' \in Seq(AnswerType)
    BY <1>1, AnswerFacts
  <2>2. QED  BY <1>1, <1>2, <2>1 DEF CameraInv, CameraTypeOK
<1>6. CapturerInv'
  BY <1>1, <1>2 DEF CapturerInv
<1>7. SourceInv'
  BY <1>1, <1>2 DEF CameraInv, SourceInv
<1>8. OptionsInv' /\ ReleaseInv'
  BY <1>1, <1>2, <1>4 DEF OptionsInv, ReleaseInv, Hot
<1>9. RequestInv'
  BY <1>1, <1>2, <1>3 DEF CameraInv, RequestInv
<1>10. QED
  BY <1>5, <1>6, <1>7, <1>8, <1>9 DEF CameraInv

LEMMA EndInv ==
  ASSUME CameraInv, End PROVE CameraInv'
<1>1. /\ step.at = "end" /\ step' = NoTask /\ source' = "Ended" /\ viewers' = {}
      /\ UNCHANGED <<active, enabled, choice, pending, crossed, uses, queue, capturer, using, answers,
                     session, failing, missed>>
  BY DEF End, threadVars, capturerVars
<1>2. step' \in StepType /\ step'.at = "idle"
  BY <1>1 DEF StepType, NoTask
<1>3. capturer = "none" /\ ~active /\ answers = Nothing /\ session = "idle"
  BY <1>1 DEF CameraInv, CapturerInv, SourceInv
<1>4. ~FrameWanted' /\ ~Promised'
  BY <1>1, <1>3, AnswerFacts DEF FrameWanted, Promised
<1>5. CameraTypeOK'
  BY <1>1, <1>2 DEF CameraInv, CameraTypeOK
<1>6. CapturerInv'
  BY <1>1, <1>2, <1>3 DEF CapturerInv
<1>7. SourceInv'
  BY <1>1, <1>2, <1>3 DEF SourceInv
<1>8. OptionsInv' /\ ReleaseInv'
  BY <1>1, <1>2, <1>3, <1>4 DEF OptionsInv, ReleaseInv, Hot
<1>9. RequestInv'
  BY <1>1, <1>4 DEF CameraInv, RequestInv
<1>10. QED
  BY <1>5, <1>6, <1>7, <1>8, <1>9 DEF CameraInv


LEMMA RunOptionsInv ==
  ASSUME CameraInv, RunOptions PROVE CameraInv'
<1> DEFINE c == Head(queue).choice
           again == active /\ c # choice /\ capturer = "Started"
<1>1. /\ Run("options") /\ choice' = IF active THEN c ELSE choice
      /\ again => Stop /\ step' = [at |-> "restart"]
      /\ ~again => UNCHANGED <<capturer, answers, step>>
      /\ missed' = (missed \/ (active /\ c # choice /\ capturer \notin {"none", "Started"}))
      /\ UNCHANGED <<active, enabled, source, viewers, using, pending, crossed, uses, session, failing>>
  BY DEF RunOptions, threadVars
<1>2. c \in Choices
  BY <1>1 DEF CameraInv, CameraTypeOK, Run, QueueType
<1> HIDE DEF c
<1>3. /\ step.at = "idle" /\ queue' \in Seq(QueueType)
      /\ ResetsAreAnswered(queue) => ResetsAreAnswered(queue')
  BY <1>1, RunFacts
<1>4. ResetComing' = ResetComing /\ RequestComing' = RequestComing /\ FrameWanted' = FrameWanted
  BY <1>1, ComingFacts DEF FrameWanted
<1>5. choice' \in Choices /\ missed' \in BOOLEAN
  BY <1>1, <1>2 DEF CameraInv, CameraTypeOK
<1>6. CASE ~again
  <2>1. UNCHANGED <<capturer, answers, step>> /\ Promised' = Promised
    BY <1>1, <1>6 DEF Promised
  <2>2. CameraTypeOK'
    BY <1>1, <1>3, <1>5, <2>1 DEF CameraInv, CameraTypeOK
  <2>3. CapturerInv'
    BY <1>1, <2>1 DEF CameraInv, CapturerInv
  <2>4. SourceInv'
    BY <1>1, <2>1 DEF CameraInv, SourceInv
  <2>5. OptionsInv'
    <3> SUFFICES ASSUME ~missed', Hot' PROVE using' = choice'
      BY DEF OptionsInv
    <3>1. ~missed /\ Hot
      BY <1>1, <2>1 DEF Hot
    <3>2. using = choice
      BY <3>1 DEF CameraInv, OptionsInv
    <3>3. capturer # "none"
      BY <1>3, <3>1, AnswerFacts DEF Hot, Promised, CameraInv, CapturerInv
    <3>4. ~(active /\ c # choice)
      BY <1>1, <1>6, <3>3
    <3>5. QED  BY <1>1, <3>2, <3>4
  <2>6. ReleaseInv'
    BY <1>1, <1>4, <2>1 DEF CameraInv, ReleaseInv, Hot, Well
  <2>7. RequestInv'
    BY <1>1, <1>3, <1>4, <2>1 DEF CameraInv, RequestInv
  <2>8. QED
    BY <2>2, <2>3, <2>4, <2>5, <2>6, <2>7 DEF CameraInv
<1>7. CASE again
  <2>1. /\ active /\ capturer = "Started" /\ answers = Nothing
        /\ capturer' = "Stopping" /\ answers' = OneStop /\ step' = [at |-> "restart"]
    BY <1>1, <1>7, AnswerFacts DEF Stop, CameraInv, CapturerInv
  <2>2. step' \in StepType /\ step'.at = "restart"
    BY <2>1 DEF StepType
  <2>3. ~Hot'
    BY <2>1, <2>2, AnswerFacts DEF Hot, Promised
  <2>4. CameraTypeOK'
    <3>1. answers' \in Seq(AnswerType)
      BY <2>1, AnswerFacts
    <3>2. QED  BY <1>1, <1>3, <1>5, <2>1, <2>2, <3>1 DEF CameraInv, CameraTypeOK
  <2>5. CapturerInv'
    BY <2>1, <2>2 DEF CapturerInv
  <2>6. SourceInv'
    BY <1>1, <1>3, <2>1, <2>2 DEF CameraInv, SourceInv
  <2>7. OptionsInv'
    BY <2>3 DEF OptionsInv
  <2>8. ReleaseInv'
    <3>1. Hot /\ session # "closing"
      BY <2>1 DEF Hot, CameraInv, SourceInv
    <3>2. ~FrameWanted => ResetComing
      BY <1>3, <3>1 DEF CameraInv, ReleaseInv
    <3>3. QED  BY <1>4, <2>2, <2>3, <3>2 DEF ReleaseInv, Well
  <2>9. RequestInv'
    BY <1>1, <1>3, <1>4, <2>1, <2>2 DEF CameraInv, RequestInv
  <2>10. QED
    BY <2>4, <2>5, <2>6, <2>7, <2>8, <2>9 DEF CameraInv
<1>8. QED  BY <1>6, <1>7

LEMMA StartAgainInv ==
  ASSUME CameraInv, StartAgain PROVE CameraInv'
<1>1. /\ step.at = "restart"
      /\ FrameWanted => capturer' = "Starting" /\ using' = choice /\ step' = [at |-> "tell"]
      /\ ~FrameWanted => step' = NoTask /\ UNCHANGED <<capturer, using>>
      /\ UNCHANGED <<active, enabled, source, viewers, choice, pending, crossed, uses, queue, answers,
                     session, failing, missed>>
  BY DEF StartAgain, sourceVars, threadVars
<1>2. /\ step' \in StepType /\ step'.at \in {"tell", "idle"} /\ (step'.at = "tell" <=> FrameWanted)
  BY <1>1 DEF StepType, NoTask
<1>3. /\ FrameWanted' = FrameWanted /\ ResetComing' = ResetComing /\ Promised' = Promised
      /\ RequestComing' = RequestComing /\ (FrameWanted => active)
  BY <1>1 DEF FrameWanted, ResetComing, RequestComing, Promised
<1>4. /\ capturer \in {"Stopping", "Stopped"}
      /\ capturer = "Stopping" => answers = OneStop
      /\ capturer = "Stopped" => answers = Nothing
  BY <1>1 DEF CameraInv, CameraTypeOK, CapturerInv
<1>5. ~Promised
  BY <1>4, AnswerFacts DEF Promised
<1>6. CameraTypeOK'
  BY <1>1, <1>2 DEF CameraInv, CameraTypeOK
<1>7. CapturerInv'
  BY <1>1, <1>2, <1>4 DEF CapturerInv
<1>8. SourceInv'
  <2>1. active => session # "closing"
    BY DEF CameraInv, SourceInv
  <2>2. CASE FrameWanted
    BY <1>1, <1>2, <1>3, <2>1, <2>2 DEF CameraInv, SourceInv
  <2>3. CASE ~FrameWanted
    BY <1>1, <1>2, <1>3, <1>4, <2>3 DEF CameraInv, SourceInv
  <2>4. QED  BY <2>2, <2>3
<1>9. OptionsInv'
  BY <1>1, <1>2, <1>3, <1>4, <1>5 DEF OptionsInv, Hot
<1>10. ReleaseInv'
  <2>1. ~FrameWanted /\ active => ResetComing
    BY <1>1 DEF CameraInv, ReleaseInv
  <2>2. ~FrameWanted => ~Hot'
    BY <1>1, <1>2, <1>3, <1>4, <1>5 DEF Hot
  <2>3. FrameWanted => Well'
    BY <1>2 DEF Well
  <2>4. QED  BY <1>1, <1>2, <1>3, <2>1, <2>2, <2>3 DEF ReleaseInv
<1>11. RequestInv'
  BY <1>1, <1>2, <1>3, <1>4 DEF CameraInv, RequestInv
<1>12. QED
  BY <1>6, <1>7, <1>8, <1>9, <1>10, <1>11 DEF CameraInv

LEMMA TellStartInv ==
  ASSUME CameraInv, TellStart PROVE CameraInv'
<1>1. /\ step.at = "tell" /\ step' = NoTask
      /\ source' = "Initializing" /\ answers' = Append(answers, [op |-> "started"])
      /\ UNCHANGED <<active, enabled, viewers, choice, pending, crossed, uses, queue, capturer, using,
                     session, failing, missed>>
  BY DEF TellStart, threadVars
<1>2. step' \in StepType /\ step'.at = "idle"
  BY <1>1 DEF StepType, NoTask
<1>3. /\ FrameWanted' = FrameWanted /\ ResetComing' = ResetComing
      /\ RequestComing' = RequestComing
  BY <1>1 DEF FrameWanted, ResetComing, RequestComing
<1>4. /\ capturer \in {"Starting", "Stopped"}
      /\ capturer = "Starting" => answers \in {Nothing, OneStop}
      /\ capturer = "Stopped" => answers = Nothing
  BY <1>1 DEF CameraInv, CameraTypeOK, CapturerInv
<1>5. /\ answers' \in {OneStart, StopAndStart} /\ Promised'
      /\ capturer = "Stopped" => answers' = OneStart
  BY <1>1, <1>4, AnswerFacts DEF Promised
<1>6. Hot /\ Hot' /\ Well'
  BY <1>1, <1>5 DEF Hot, Well
<1>7. CameraTypeOK'
  <2>1. answers' \in Seq(AnswerType)
    BY <1>5, AnswerFacts
  <2>2. QED  BY <1>1, <1>2, <2>1 DEF CameraInv, CameraTypeOK
<1>8. CapturerInv'
  BY <1>1, <1>2, <1>4, <1>5 DEF CapturerInv
<1>9. SourceInv'
  BY <1>1, <1>2, <1>4 DEF CameraInv, SourceInv
<1>10. OptionsInv'
  BY <1>1, <1>6 DEF CameraInv, OptionsInv
<1>11. ReleaseInv'
  BY <1>1, <1>2, <1>3, <1>6 DEF CameraInv, ReleaseInv
<1>12. RequestInv'
  BY <1>1, <1>2, <1>3, <1>4 DEF CameraInv, RequestInv
<1>13. QED
  BY <1>7, <1>8, <1>9, <1>10, <1>11, <1>12 DEF CameraInv

LEMMA StartFailsInv ==
  ASSUME CameraInv, StartFails PROVE CameraInv'
<1>1. /\ session = "idle" /\ step' = NoTask /\ capturer' = "none" /\ answers' = Nothing
      /\ active' = FALSE /\ source' = "Ended" /\ viewers' = {}
      /\ UNCHANGED <<enabled, choice, pending, crossed, uses, queue, using, session, failing, missed>>
  BY DEF StartFails, Gone, Nothing, threadVars
<1>2. step' \in StepType /\ step'.at = "idle"
  BY <1>1 DEF StepType, NoTask
<1>3. ~FrameWanted' /\ ~Promised'
  BY <1>1, AnswerFacts DEF FrameWanted, Promised
<1>4. CameraTypeOK'
  <2>1. answers' \in Seq(AnswerType)
    BY <1>1, AnswerFacts
  <2>2. QED  BY <1>1, <1>2, <2>1 DEF CameraInv, CameraTypeOK
<1>5. CapturerInv'
  BY <1>1, <1>2 DEF CapturerInv
<1>6. SourceInv'
  BY <1>1, <1>2 DEF SourceInv
<1>7. OptionsInv' /\ ReleaseInv'
  BY <1>1, <1>2, <1>3 DEF OptionsInv, ReleaseInv, Hot
<1>8. RequestInv'
  BY <1>1, <1>3 DEF CameraInv, RequestInv
<1>9. QED
  BY <1>4, <1>5, <1>6, <1>7, <1>8 DEF CameraInv

(***************************************************************************)
(* The queue of the capture session.                                       *)
(***************************************************************************)

\* The capturer starts to run, or runs already or is gone.
LEMMA CaptureStartedInv ==
  ASSUME CameraInv, CaptureStarted PROVE CameraInv'
<1>1. /\ session = "idle" /\ answers # Nothing /\ Head(answers).op = "started" /\ answers' = Tail(answers)
      /\ capturer' = IF Accepts("Started") THEN "Started" ELSE capturer
      /\ session' = IF Accepts("Started") THEN ToTell("Live") ELSE "idle"
      /\ UNCHANGED <<active, enabled, source, viewers, choice, pending, crossed, uses, queue, step, using,
                     failing, missed>>
  BY DEF CaptureStarted, Answer, Nothing, sourceVars, threadVars
<1>2. answers = OneStart /\ answers' = Nothing /\ capturer \in {"Starting", "Stopped"} /\ step.at # "tell"
  BY <1>1, AnswerFacts DEF CameraInv, CapturerInv, CameraTypeOK, Promised
<1>3. Accepts("Started")
  BY <1>2 DEF Accepts
<1>4. /\ capturer' = "Started" /\ session' \in {"Live", "Ended"} /\ (session' = "Live" <=> active)
  BY <1>1, <1>3 DEF ToTell
<1>5. /\ FrameWanted' = FrameWanted /\ ResetComing' = ResetComing
      /\ RequestComing' = RequestComing
  BY <1>1 DEF FrameWanted, ResetComing, RequestComing
<1>6. Promised /\ Hot /\ Well /\ Well'
  BY <1>2, <1>4 DEF Promised, Hot, Well
<1>7. step.at # "restart"
  BY <1>2, AnswerFacts DEF CameraInv, CapturerInv
<1>8. CameraTypeOK'
  <2>1. answers' \in Seq(AnswerType)
    BY <1>2, AnswerFacts
  <2>2. QED  BY <1>1, <1>4, <2>1 DEF CameraInv, CameraTypeOK
<1>9. CapturerInv'
  BY <1>1, <1>2, <1>4, <1>7 DEF CameraInv, CapturerInv
<1>10. SourceInv'
  <2>1. source = "Ended" => ~active
    BY DEF CameraInv, SourceInv
  <2>2. ~active => step.at = "detach"
    BY <1>1, <1>2, AnswerFacts DEF CameraInv, SourceInv
  <2>3. QED  BY <1>1, <1>2, <1>4, <1>7, <2>1, <2>2 DEF CameraInv, SourceInv
<1>11. OptionsInv'
  BY <1>1, <1>6 DEF CameraInv, OptionsInv
<1>12. ReleaseInv'
  BY <1>1, <1>4, <1>5, <1>6 DEF CameraInv, ReleaseInv
<1>13. RequestInv'
  BY <1>1, <1>2, <1>4, <1>5 DEF CameraInv, RequestInv
<1>14. QED
  BY <1>8, <1>9, <1>10, <1>11, <1>12, <1>13 DEF CameraInv

\* The capturer has stopped, though it may be about to start again.
LEMMA CaptureStoppedInv ==
  ASSUME CameraInv, CaptureStopped PROVE CameraInv'
<1>1. /\ session = "idle" /\ answers # Nothing /\ Head(answers).op = "stopped" /\ answers' = Tail(answers)
      /\ capturer' = IF Accepts("Stopped") THEN "Stopped" ELSE capturer
      /\ session' = IF Accepts("Stopped") THEN ToTell("Muted") ELSE "idle"
      /\ UNCHANGED <<active, enabled, source, viewers, choice, pending, crossed, uses, queue, step, using,
                     failing, missed>>
  BY DEF CaptureStopped, Answer, Nothing, sourceVars, threadVars
<1>2. /\ capturer \in {"Starting", "Stopping"} /\ answers \in {OneStop, StopAndStart}
      /\ answers = OneStop => answers' = Nothing
      /\ answers = StopAndStart => answers' = OneStart /\ capturer = "Starting" /\ step.at # "tell"
      /\ step.at \in {"restart", "tell"} => answers = OneStop
  BY <1>1, AnswerFacts DEF CameraInv, CapturerInv, CameraTypeOK, Promised
<1>3. Accepts("Stopped")
  BY <1>2 DEF Accepts
<1>4. /\ capturer' = "Stopped" /\ session' \in {"Muted", "Ended"} /\ (session' = "Muted" <=> active)
  BY <1>1, <1>3 DEF ToTell
<1>5. /\ FrameWanted' = FrameWanted /\ ResetComing' = ResetComing
      /\ RequestComing' = RequestComing
  BY <1>1 DEF FrameWanted, ResetComing, RequestComing
<1>6. Promised' = Promised
  BY <1>2, AnswerFacts DEF Promised
<1>7. (Hot' => Hot) /\ Well' = Well
  BY <1>1, <1>2, <1>4, <1>6 DEF Hot, Well
<1>8. CameraTypeOK'
  <2>1. answers' \in Seq(AnswerType)
    BY <1>2, AnswerFacts
  <2>2. QED  BY <1>1, <1>4, <2>1 DEF CameraInv, CameraTypeOK
<1>9. CapturerInv'
  BY <1>1, <1>2, <1>4 DEF CameraInv, CapturerInv
<1>10. SourceInv'
  <2>1. source = "Ended" => ~active
    BY DEF CameraInv, SourceInv
  <2>2. ~active => step.at = "detach"
    BY <1>1 DEF CameraInv, SourceInv
  <2>3. QED  BY <1>1, <1>4, <2>1, <2>2 DEF CameraInv, SourceInv
<1>11. OptionsInv'
  BY <1>1, <1>7 DEF CameraInv, OptionsInv
<1>12. ReleaseInv'
  BY <1>1, <1>2, <1>4, <1>5, <1>7 DEF CameraInv, ReleaseInv
<1>13. RequestInv'
  BY <1>1, <1>2, <1>4, <1>5 DEF CameraInv, RequestInv
<1>14. QED
  BY <1>8, <1>9, <1>10, <1>11, <1>12, <1>13 DEF CameraInv

LEMMA ChangeStateInv ==
  ASSUME CameraInv, ChangeState PROVE CameraInv'
<1>1. /\ session \in {"Live", "Muted", "Ended"} /\ session' = "idle" /\ source' = session
      /\ UNCHANGED <<active, enabled, viewers, choice, pending, crossed, uses, queue, step, capturer, using,
                     answers, failing, missed>>
  BY DEF ChangeState, threadVars, capturerVars
<1>2. /\ FrameWanted' = FrameWanted /\ ResetComing' = ResetComing
      /\ RequestComing' = RequestComing /\ Promised' = Promised
  BY <1>1 DEF FrameWanted, ResetComing, RequestComing, Promised
<1>3. Hot' = Hot /\ Well' = Well
  BY <1>1, <1>2 DEF Hot, Well
<1>4. CameraTypeOK'
  BY <1>1 DEF CameraInv, CameraTypeOK
<1>5. CapturerInv'
  BY <1>1, <1>2 DEF CameraInv, CapturerInv
<1>6. SourceInv'
  BY <1>1 DEF CameraInv, SourceInv
<1>7. OptionsInv' /\ ReleaseInv'
  BY <1>1, <1>2, <1>3 DEF CameraInv, OptionsInv, ReleaseInv
<1>8. RequestInv'
  BY <1>1, <1>2 DEF CameraInv, RequestInv
<1>9. QED
  BY <1>4, <1>5, <1>6, <1>7, <1>8 DEF CameraInv

LEMMA OnCapturingErrorInv ==
  ASSUME CameraInv, OnCapturingError PROVE CameraInv'
<1>1. /\ session = "idle" /\ active /\ capturer \in {"Starting", "Started", "Stopping"}
      /\ session' = "closing" /\ capturer' = "Stopped" /\ answers' = Nothing
      /\ active' = FALSE /\ source' = "Ended"
      /\ UNCHANGED <<enabled, viewers, choice, pending, crossed, uses, queue, step, using, failing, missed>>
  BY DEF OnCapturingError, Nothing, threadVars
<1>2. ~FrameWanted' /\ ~Promised'
  BY <1>1, AnswerFacts DEF FrameWanted, Promised
<1>3. CameraTypeOK'
  <2>1. answers' \in Seq(AnswerType)
    BY <1>1, AnswerFacts
  <2>2. QED  BY <1>1, <2>1 DEF CameraInv, CameraTypeOK
<1>4. CapturerInv'
  BY <1>1 DEF CameraInv, CapturerInv
<1>5. SourceInv'
  BY <1>1 DEF SourceInv
<1>6. OptionsInv'
  <2>1. Hot' => Hot
    BY <1>1, <1>2 DEF Hot
  <2>2. QED  BY <1>1, <2>1 DEF CameraInv, OptionsInv
<1>7. ReleaseInv'
  BY <1>1 DEF ReleaseInv
<1>8. RequestInv'
  BY <1>1, <1>2 DEF CameraInv, RequestInv
<1>9. QED
  BY <1>3, <1>4, <1>5, <1>6, <1>7, <1>8 DEF CameraInv

LEMMA OnClosedInv ==
  ASSUME CameraInv, OnClosed PROVE CameraInv'
<1>1. /\ session = "closing" /\ step.at \notin {"detach", "restart", "tell"} /\ session' = "idle"
      /\ capturer' = "none" /\ answers' = Nothing /\ viewers' = {}
      /\ UNCHANGED <<active, enabled, source, choice, pending, crossed, uses, queue, step, using,
                     failing, missed>>
  BY DEF OnClosed, Gone, Nothing, threadVars
<1>2. ~active /\ ~FrameWanted' /\ ~Promised'
  BY <1>1, AnswerFacts DEF FrameWanted, Promised, CameraInv, SourceInv
<1>3. CameraTypeOK'
  <2>1. answers' \in Seq(AnswerType)
    BY <1>1, AnswerFacts
  <2>2. QED  BY <1>1, <2>1 DEF CameraInv, CameraTypeOK
<1>4. CapturerInv'
  BY <1>1 DEF CapturerInv
<1>5. SourceInv'
  BY <1>1, <1>2 DEF CameraInv, SourceInv
<1>6. OptionsInv' /\ ReleaseInv'
  BY <1>1, <1>2 DEF OptionsInv, ReleaseInv, Hot
<1>7. RequestInv'
  BY <1>1, <1>2 DEF CameraInv, RequestInv
<1>8. QED
  BY <1>3, <1>4, <1>5, <1>6, <1>7 DEF CameraInv

(***************************************************************************)
(* The theorems.                                                           *)
(***************************************************************************)

LEMMA CameraInitInv == CameraInit => CameraInv
<1> SUFFICES ASSUME CameraInit PROVE CameraInv
  OBVIOUS
<1>1. /\ active = TRUE /\ source = "Initializing" /\ viewers = {} /\ queue = <<>> /\ step = NoTask
      /\ capturer = "none" /\ answers = Nothing /\ session = "idle"
      /\ pending = [v \in Viewers |-> "nothing"]
  BY DEF CameraInit, Nothing
<1>2. step \in StepType /\ step.at = "idle"
  BY <1>1 DEF StepType, NoTask
<1>3. ~FrameWanted /\ ~Promised
  BY <1>1, AnswerFacts DEF FrameWanted, Promised
<1>4. CameraTypeOK
  <2>1. answers \in Seq(AnswerType)
    BY <1>1, AnswerFacts
  <2>2. pending \in [Viewers -> {"nothing", "request", "reset"}] /\ queue \in Seq(QueueType)
    BY <1>1
  <2>3. choice \in Choices /\ using \in Choices /\ uses \in 0..MaxUses
    BY CameraSourceAssumption DEF CameraInit
  <2>4. /\ active \in BOOLEAN /\ enabled \in BOOLEAN /\ crossed \in BOOLEAN
        /\ failing \in BOOLEAN /\ missed \in BOOLEAN
    BY DEF CameraInit
  <2>5. QED  BY <1>1, <1>2, <2>1, <2>2, <2>3, <2>4 DEF CameraTypeOK
<1>5. CapturerInv /\ SourceInv
  BY <1>1, <1>2 DEF CapturerInv, SourceInv
<1>6. OptionsInv /\ ReleaseInv
  BY <1>1, <1>2, <1>3 DEF OptionsInv, ReleaseInv, Hot
<1>7. RequestInv
  BY <1>1, <1>3 DEF RequestInv
<1>8. QED
  BY <1>4, <1>5, <1>6, <1>7 DEF CameraInv

LEMMA CameraStepInv == CameraInv /\ [CameraNext]_cameraVars => CameraInv'
<1> SUFFICES ASSUME CameraInv, [CameraNext]_cameraVars PROVE CameraInv'
  OBVIOUS
<1>1. CASE \E v \in Viewers : Viewer(v)
  BY <1>1, ViewerInv
<1>2. CASE SignalingQueue
  BY <1>2, RunRequestInv, CheckWantedInv, CreateInv, NoCreateInv, RunResetInv, RunDeviceInv, RunCloseInv,
     DetachInv, EndInv, RunOptionsInv, StartAgainInv, TellStartInv, StartFailsInv DEF SignalingQueue
<1>3. CASE CaptureSession
  BY <1>3, CaptureStartedInv, CaptureStoppedInv, ChangeStateInv, OnCapturingErrorInv, OnClosedInv
  DEF CaptureSession
<1>4. CASE UNCHANGED cameraVars
  <2>1. UNCHANGED <<active, enabled, source, viewers, choice, pending, crossed, uses, queue, step,
                    capturerVars, session, failing, missed>>
    BY <1>4 DEF cameraVars, sourceVars, threadVars
  <2>2. CapturerInv' /\ SourceInv' /\ OptionsInv' /\ Hot' = Hot /\ Well' = Well
    BY <2>1, CapturerKept
  <2>3. CameraTypeOK'
    BY <2>1 DEF CameraInv, CameraTypeOK, capturerVars
  <2>4. ReleaseInv' /\ RequestInv'
    BY <2>1, <2>2 DEF CameraInv, ReleaseInv, RequestInv, ResetComing, RequestComing, FrameWanted, capturerVars
  <2>5. QED  BY <2>2, <2>3, <2>4 DEF CameraInv
<1>5. QED
  BY <1>1, <1>2, <1>3, <1>4 DEF CameraNext

LEMMA CameraInvariant == CameraSpec => []CameraInv
  BY CameraInitInv, CameraStepInv, PTL DEF CameraSpec

\* AsyncCameraSourceImpl and its capturer (requestCapturer, resetCapturer, setOptions,
\* changeState): however the calls of viewers, the tasks of the signaling queue and the
\* answers of the capture session interleave, when all is done no camera runs for nobody,
\* it runs for whoever watches, is shown as live, and has the options set last.
THEOREM CameraIsFollowed == CameraSpec => []CameraFollowsWish
<1>1. ASSUME CameraInv, Settled
      PROVE  /\ step.at = "idle" /\ answers = Nothing /\ session = "idle"
             /\ ~ResetComing /\ ~RequestComing
  <2>1. step.at = "idle" /\ answers = Nothing /\ session = "idle" /\ queue = <<>>
    BY <1>1 DEF Settled, NoTask, Nothing
  <2>2. \A op : ~Has(queue, op)
    BY <2>1 DEF Has
  <2>3. \A op \in {"request", "reset"} : ~Holds(pending, op)
    BY <1>1 DEF Settled, Holds
  <2>4. QED  BY <2>1, <2>2, <2>3 DEF ResetComing, RequestComing
<1>2. CameraInv => CameraIsReleased
  BY <1>1 DEF CameraIsReleased, Running, CameraInv, ReleaseInv, Hot
<1>3. CameraInv => CameraIsOn
  <2> SUFFICES ASSUME CameraInv, Settled, FrameWanted, ~crossed, ~failing PROVE capturer = "Started"
    BY DEF CameraIsOn
  <2>1. capturer # "none"
    BY <1>1 DEF CameraInv, RequestInv
  <2>2. ~Promised
    BY <1>1, AnswerFacts DEF Promised
  <2>3. Well
    BY <1>1, <2>1 DEF CameraInv, ReleaseInv, FrameWanted
  <2>4. QED  BY <1>1, <2>2, <2>3 DEF Well
<1>4. CameraInv => RunningIsLive
  BY <1>1 DEF RunningIsLive, CameraInv, SourceInv
<1>5. CameraInv => OptionsAreUsed
  BY DEF OptionsAreUsed, CameraInv, OptionsInv, Hot
<1>6. CameraInv => CameraFollowsWish
  BY <1>2, <1>3, <1>4, <1>5 DEF CameraFollowsWish
<1>7. QED  BY <1>6, CameraInvariant, PTL

\* AsyncMediaSourceImpl::changeState, close and onClosed: nothing but a start after new
\* options that an error has met on its way brings back a source that has ended, though
\* its state is written in another step than whether it is active is read.
THEOREM EndIsKept == CameraSpec => EndedIsFinal
<1>1. ASSUME CameraInv, [CameraNext]_cameraVars, source = "Ended", step.at # "tell"
      PROVE  source' = "Ended"
  <2>1. ~active /\ session \notin {"Live", "Muted"}
    BY <1>1 DEF CameraInv, SourceInv
  <2>2. ~FrameWanted
    BY <2>1 DEF FrameWanted
  <2>3. CASE \E v \in Viewers : Viewer(v)
    BY <1>1, <2>3 DEF Viewer, AddOrUpdateSink, RemoveSink, SetEnabled, PostToImpl, SetDeviceInfo, SetOptions,
       CloseSource, Ask, sourceVars
  <2>4. CASE SignalingQueue
    BY <1>1, <2>1, <2>2, <2>4 DEF SignalingQueue, RunRequest, CheckWanted, Create, CreateFails, CreateAgain,
       RunReset, RunDevice, RunClose, Detach, End, RunOptions, StartAgain, TellStart, StartFails, sourceVars
  <2>5. CASE CaptureSession
    BY <1>1, <2>1, <2>5 DEF CaptureSession, CaptureStarted, CaptureStopped, ChangeState, OnCapturingError,
       OnClosed, sourceVars
  <2>6. CASE UNCHANGED cameraVars
    BY <1>1, <2>6 DEF cameraVars, sourceVars
  <2>7. QED  BY <1>1, <2>3, <2>4, <2>5, <2>6 DEF CameraNext
<1>2. CameraInv /\ [CameraNext]_cameraVars =>
        [source = "Ended" => source' = "Ended" \/ step.at = "tell"]_cameraVars
  BY <1>1
<1>3. QED  BY <1>2, CameraInvariant, PTL DEF CameraSpec, EndedIsFinal


(***************************************************************************)
(* The microphone: what the service, the module and the device know.       *)
(***************************************************************************)

HasAny(q, ops) == \E i \in DOMAIN q : q[i].op \in ops

\* The last task, or notification, of some kinds is one of those given.
IsLast(q, ops, i) == q[i].op \in ops /\ \A j \in DOMAIN q : j > i => q[j].op \notin ops
EndsIn(q, ops, good) == \A i \in DOMAIN q : IsLast(q, ops, i) => q[i] \in good

\* A volume that is still to be set, other than that of the mirror.
HasOther(q, v) == \E i \in DOMAIN q : q[i].op = "volume" /\ q[i].value # v

\* After a new range the service hears of the volume or of a start, which sets it again.
Retold == {"volume", "started"}
IsCovered(q) ==
  \A i \in DOMAIN q : q[i].op = "range" => \E j \in DOMAIN q : j > i /\ q[j].op \in Retold

Capped(max, v) == IF v > max THEN max ELSE v
Divides(max) == max \in 1..Whole /\ Whole % max = 0

LEMMA QueueTail ==
  ASSUME NEW S, NEW q \in Seq(S), q # <<>>
  PROVE  /\ Tail(q) \in Seq(S) /\ Head(q) \in S
         /\ \A ops : HasAny(q, ops) <=> Head(q).op \in ops \/ HasAny(Tail(q), ops)
         /\ \A ops, good : EndsIn(q, ops, good) =>
              /\ EndsIn(Tail(q), ops, good)
              /\ Head(q).op \in ops /\ ~HasAny(Tail(q), ops) => Head(q) \in good
         /\ \A v : HasOther(q, v) <=> (Head(q).op = "volume" /\ Head(q).value # v) \/ HasOther(Tail(q), v)
         /\ IsCovered(q) => /\ IsCovered(Tail(q))
                            /\ Head(q).op = "range" => HasAny(Tail(q), Retold)
<1>1. /\ Tail(q) \in Seq(S) /\ Head(q) \in S /\ Head(q) = q[1]
      /\ Len(q) \in Nat \ {0} /\ DOMAIN q = 1..Len(q) /\ DOMAIN Tail(q) = 1..(Len(q) - 1)
      /\ \A i \in 1..(Len(q) - 1) : Tail(q)[i] = q[i + 1]
  OBVIOUS
<1>2. ASSUME NEW i \in DOMAIN q, i # 1
      PROVE  i - 1 \in DOMAIN Tail(q) /\ Tail(q)[i - 1] = q[i]
  BY <1>1, <1>2
<1>3. ASSUME NEW i \in DOMAIN Tail(q) PROVE i + 1 \in DOMAIN q /\ Tail(q)[i] = q[i + 1]
  BY <1>1
<1>4. 1 \in DOMAIN q
  BY <1>1
<1>5. ASSUME NEW ops PROVE HasAny(q, ops) <=> Head(q).op \in ops \/ HasAny(Tail(q), ops)
  <2>1. HasAny(q, ops) => Head(q).op \in ops \/ HasAny(Tail(q), ops)
    BY <1>1, <1>2 DEF HasAny
  <2>2. Head(q).op \in ops => HasAny(q, ops)
    BY <1>1, <1>4 DEF HasAny
  <2>3. HasAny(Tail(q), ops) => HasAny(q, ops)
    BY <1>3 DEF HasAny
  <2>4. QED  BY <2>1, <2>2, <2>3
<1>6. ASSUME NEW ops, NEW good, EndsIn(q, ops, good)
      PROVE  /\ EndsIn(Tail(q), ops, good)
             /\ Head(q).op \in ops /\ ~HasAny(Tail(q), ops) => Head(q) \in good
  <2>1. ASSUME NEW i \in DOMAIN Tail(q), IsLast(Tail(q), ops, i) PROVE Tail(q)[i] \in good
    <3>1. ASSUME NEW j \in DOMAIN q, j > i + 1 PROVE q[j].op \notin ops
      <4>1. j # 1 /\ j - 1 > i
        BY <1>1, <3>1
      <4>2. QED  BY <1>2, <2>1, <4>1 DEF IsLast
    <3>2. i + 1 \in DOMAIN q /\ IsLast(q, ops, i + 1)
      BY <1>3, <2>1, <3>1 DEF IsLast
    <3>3. QED  BY <1>3, <1>6, <3>2 DEF EndsIn
  <2>2. ASSUME Head(q).op \in ops, ~HasAny(Tail(q), ops) PROVE Head(q) \in good
    <3>1. ASSUME NEW j \in DOMAIN q, j > 1 PROVE q[j].op \notin ops
      <4>1. j # 1
        BY <3>1
      <4>2. QED  BY <1>2, <2>2, <4>1 DEF HasAny
    <3>2. IsLast(q, ops, 1)
      BY <1>1, <2>2, <3>1 DEF IsLast
    <3>3. QED  BY <1>1, <1>4, <1>6, <3>2 DEF EndsIn
  <2>3. QED  BY <2>1, <2>2 DEF EndsIn
<1>7. ASSUME NEW v
      PROVE  HasOther(q, v) <=> (Head(q).op = "volume" /\ Head(q).value # v) \/ HasOther(Tail(q), v)
  <2>1. HasOther(q, v) => (Head(q).op = "volume" /\ Head(q).value # v) \/ HasOther(Tail(q), v)
    BY <1>1, <1>2 DEF HasOther
  <2>2. Head(q).op = "volume" /\ Head(q).value # v => HasOther(q, v)
    BY <1>1, <1>4 DEF HasOther
  <2>3. HasOther(Tail(q), v) => HasOther(q, v)
    BY <1>3 DEF HasOther
  <2>4. QED  BY <2>1, <2>2, <2>3
<1>8. ASSUME IsCovered(q)
      PROVE  IsCovered(Tail(q)) /\ (Head(q).op = "range" => HasAny(Tail(q), Retold))
  <2>1. ASSUME NEW i \in DOMAIN Tail(q), Tail(q)[i].op = "range"
        PROVE  \E j \in DOMAIN Tail(q) : j > i /\ Tail(q)[j].op \in Retold
    <3>1. PICK j \in DOMAIN q : j > i + 1 /\ q[j].op \in Retold
      BY <1>3, <1>8, <2>1 DEF IsCovered
    <3>2. j # 1 /\ j - 1 > i
      BY <1>1, <3>1
    <3>3. QED  BY <1>2, <3>1, <3>2
  <2>2. ASSUME Head(q).op = "range" PROVE HasAny(Tail(q), Retold)
    <3>1. PICK j \in DOMAIN q : j > 1 /\ q[j].op \in Retold
      BY <1>1, <1>4, <1>8, <2>2 DEF IsCovered
    <3>2. j # 1
      BY <3>1
    <3>3. QED  BY <1>2, <3>1, <3>2 DEF HasAny
  <2>3. QED  BY <2>1, <2>2 DEF IsCovered
<1>9. QED  BY <1>1, <1>5, <1>6, <1>7, <1>8

LEMMA QueueAppend ==
  ASSUME NEW S, NEW q \in Seq(S), NEW c \in S
  PROVE  /\ Append(q, c) \in Seq(S)
         /\ \A ops : HasAny(Append(q, c), ops) <=> HasAny(q, ops) \/ c.op \in ops
         /\ \A ops, good : c.op \in ops /\ c \in good => EndsIn(Append(q, c), ops, good)
         /\ \A ops, good : c.op \notin ops /\ EndsIn(q, ops, good) => EndsIn(Append(q, c), ops, good)
         /\ \A v : HasOther(Append(q, c), v) <=> HasOther(q, v) \/ (c.op = "volume" /\ c.value # v)
         /\ c.op \in Retold => IsCovered(Append(q, c))
         /\ c.op # "range" /\ IsCovered(q) => IsCovered(Append(q, c))
<1>1. /\ Append(q, c) \in Seq(S) /\ Len(q) \in Nat
      /\ DOMAIN q = 1..Len(q) /\ DOMAIN Append(q, c) = 1..(Len(q) + 1)
      /\ \A i \in 1..Len(q) : Append(q, c)[i] = q[i]
      /\ Append(q, c)[Len(q) + 1] = c
  OBVIOUS
<1>2. \A i \in DOMAIN Append(q, c) : (i \in DOMAIN q /\ Append(q, c)[i] = q[i]) \/ i = Len(q) + 1
  BY <1>1
<1>3. /\ \A i \in DOMAIN q : i \in DOMAIN Append(q, c) /\ i < Len(q) + 1 /\ Append(q, c)[i] = q[i]
      /\ Len(q) + 1 \in DOMAIN Append(q, c)
  BY <1>1
<1>4. ASSUME NEW ops PROVE HasAny(Append(q, c), ops) <=> HasAny(q, ops) \/ c.op \in ops
  BY <1>1, <1>2, <1>3 DEF HasAny
<1>5. ASSUME NEW ops, NEW good, c.op \in ops, c \in good PROVE EndsIn(Append(q, c), ops, good)
  <2> SUFFICES ASSUME NEW i \in DOMAIN Append(q, c), IsLast(Append(q, c), ops, i)
               PROVE  Append(q, c)[i] \in good
    BY DEF EndsIn
  <2>1. ~(i \in DOMAIN q)
    BY <1>1, <1>3, <1>5 DEF IsLast
  <2>2. QED  BY <1>1, <1>2, <1>5, <2>1
<1>6. ASSUME NEW ops, NEW good, c.op \notin ops, EndsIn(q, ops, good)
      PROVE  EndsIn(Append(q, c), ops, good)
  <2> SUFFICES ASSUME NEW i \in DOMAIN Append(q, c), IsLast(Append(q, c), ops, i)
               PROVE  Append(q, c)[i] \in good
    BY DEF EndsIn
  <2>1. i \in DOMAIN q /\ Append(q, c)[i] = q[i]
    BY <1>1, <1>2, <1>6 DEF IsLast
  <2>2. IsLast(q, ops, i)
    BY <1>3, <2>1 DEF IsLast
  <2>3. QED  BY <1>6, <2>1, <2>2 DEF EndsIn
<1>7. ASSUME NEW v
      PROVE  HasOther(Append(q, c), v) <=> HasOther(q, v) \/ (c.op = "volume" /\ c.value # v)
  BY <1>1, <1>2, <1>3 DEF HasOther
<1>8. ASSUME c.op \in Retold PROVE IsCovered(Append(q, c))
  <2> SUFFICES ASSUME NEW i \in DOMAIN Append(q, c), Append(q, c)[i].op = "range"
               PROVE  \E j \in DOMAIN Append(q, c) : j > i /\ Append(q, c)[j].op \in Retold
    BY DEF IsCovered
  <2>1. c.op # "range"
    BY <1>8 DEF Retold
  <2>2. i < Len(q) + 1
    BY <1>1, <1>2, <1>3, <2>1
  <2>3. QED  BY <1>1, <1>3, <1>8, <2>2
<1>9. ASSUME c.op # "range", IsCovered(q) PROVE IsCovered(Append(q, c))
  <2> SUFFICES ASSUME NEW i \in DOMAIN Append(q, c), Append(q, c)[i].op = "range"
               PROVE  \E j \in DOMAIN Append(q, c) : j > i /\ Append(q, c)[j].op \in Retold
    BY DEF IsCovered
  <2>1. i \in DOMAIN q /\ q[i].op = "range"
    BY <1>1, <1>2, <1>9
  <2>2. PICK j \in DOMAIN q : j > i /\ q[j].op \in Retold
    BY <1>9, <2>1 DEF IsCovered
  <2>3. QED  BY <1>3, <2>2
<1>10. QED  BY <1>1, <1>4, <1>5, <1>6, <1>7, <1>8, <1>9

\* VolumeControl: a volume is in its range, a level below the whole, and a volume that
\* was made a level comes back as it was, or as the maximum.
LEMMA VolumeFacts ==
  ASSUME NEW max, Divides(max)
  PROVE  /\ \A l \in Levels : Volume(l, max) \in 0..max /\ Volume(l, max) \in Levels
         /\ \A v \in Levels : Level(v, max) \in Levels /\ Volume(Level(v, max), max) = Capped(max, v)
<1>1. Whole \in Nat /\ Whole > 0 /\ max \in Nat /\ max > 0 /\ max <= Whole /\ Whole % max = 0
  BY AudioModuleAssumption DEF Divides
<1> DEFINE k == Whole \div max
<1>2. k \in Nat /\ Whole = max * k
  BY <1>1
<1>3. ASSUME NEW l \in Levels PROVE Volume(l, max) \in 0..max
  <2>1. l \in Nat /\ l <= Whole
    BY <1>1 DEF Levels
  <2>2. 2 * l * max \in Nat /\ 2 * l * max <= 2 * Whole * max
    <3>1. l * max \in Nat /\ l * max <= Whole * max
      BY <1>1, <2>1
    <3>2. QED  BY <1>1, <2>1, <3>1
  <2> DEFINE n == 2 * l * max + Whole
             d == 2 * Whole
  <2>3. n \in Nat /\ d \in Nat /\ d > 0 /\ n < d * max + d
    BY <1>1, <2>2
  <2>4. Volume(l, max) = n \div d
    BY DEF Volume
  <2> HIDE DEF n, d
  <2>5. n \div d \in Nat /\ d * (n \div d) <= n
    BY <2>3
  <2>6. d * (n \div d) < d * (max + 1)
    BY <1>1, <2>3, <2>5
  <2>7. n \div d < max + 1
    BY <1>1, <2>3, <2>5, <2>6
  <2>8. QED  BY <1>1, <2>4, <2>5, <2>7
<1>4. ASSUME NEW v \in Levels
      PROVE  Level(v, max) \in Levels /\ Volume(Level(v, max), max) = Capped(max, v)
  <2> DEFINE c == Capped(max, v)
  <2>1. c \in Nat /\ c <= max /\ Level(v, max) = c * k
    BY <1>1 DEF Capped, Level, Levels
  <2> HIDE DEF c, k
  <2>2. c * k \in Nat /\ c * k <= max * k
    BY <1>1, <1>2, <2>1
  <2>3. c * k * max = c * Whole
    BY <1>1, <1>2, <2>1
  <2>4. Volume(Level(v, max), max) = (2 * c * Whole + Whole) \div (2 * Whole)
    <3>1. 2 * (c * k) * max = 2 * c * Whole
      BY <1>1, <1>2, <2>1, <2>2, <2>3
    <3>2. QED  BY <2>1, <3>1 DEF Volume
  <2>5. (2 * c * Whole + Whole) \div (2 * Whole) = c
    <3> DEFINE d == 2 * Whole
    <3>1. 2 * c * Whole = d * c /\ d \in Nat /\ d > 0 /\ Whole < d
      BY <1>1, <2>1
    <3> HIDE DEF d
    <3>2. (d * c + Whole) \div d = c
      BY <1>1, <2>1, <3>1
    <3>3. QED  BY <3>1, <3>2 DEF d
  <2>6. QED  BY <1>1, <1>2, <2>1, <2>2, <2>4, <2>5 DEF Levels, c
<1>5. ASSUME NEW l \in Levels PROVE Volume(l, max) \in Levels
  BY <1>1, <1>3 DEF Levels
<1>6. QED  BY <1>3, <1>4, <1>5


(***************************************************************************)
(* The invariant of the microphone.                                        *)
(***************************************************************************)

Starts == {"started", "stopped"}
MirrorType == [mic: Mics \cup {Unset}, started: BOOLEAN, mute: BOOLEAN, max: Levels, volume: Levels]
SaneNews == {c \in NewsType : c.op = "range" => Divides(c.max)}
MirrorState == [mirror: MirrorType, news: Seq(SaneNews)]

OfMute(b) == {c \in TaskType : c.op = "mute" => c.value = b}
OfRange(max) == {c \in SaneNews : c.op = "range" => c.max = max}
OfVolume(v) == {c \in SaneNews : c.op = "volume" => c.volume = v}
OfStart(b) == {c \in SaneNews : c.op \in Starts => (c.op = "started" <=> b)}

\* The last notification of each kind says what the mirror has.
RangeTold(s) ==
  /\ EndsIn(s.news, {"range"}, OfRange(s.mirror.max))
  /\ ~HasAny(s.news, {"range"}) => s.mirror.max \in {0, range}
VolumeTold(s) == EndsIn(s.news, {"volume"}, OfVolume(s.mirror.volume))
StartTold(s) ==
  /\ EndsIn(s.news, Starts, OfStart(s.mirror.started))
  /\ ~HasAny(s.news, Starts) => (heard = "started" \/ telling # Quiet <=> s.mirror.started)
Told(s) == RangeTold(s) /\ VolumeTold(s) /\ StartTold(s)

Posts(t, op) == doing[t].step = "post" /\ doing[t].op = op
MuteToPost == telling.step = "mute" \/ \E t \in Threads : Posts(t, "mute")

\* A volume the mirror does not have is on its way to the device.
OtherVolume ==
  \/ \E t \in Threads : Posts(t, "volume") /\ doing[t].value # mirror.volume
  \/ telling.step = "volume" /\ telling.value # mirror.volume
  \/ HasOther(worker, mirror.volume)

PartsInv ==
  /\ doing = [t \in Threads |-> doing[t]]
  /\ holder # Unset => doing[holder] = [step |-> "wait"]
  /\ Divides(range) /\ news \in Seq(SaneNews)
  /\ \A d \in Mics : hw[d].volume <= MaxOf[d]

\* With nobody about to post a mute, and the last one not late, that one is the mute of
\* the service; if it has been set the device has it.
MuteInv ==
  ~late /\ ~Closed /\ ~MuteToPost =>
    /\ EndsIn(worker, {"mute"}, OfMute(muted))
    /\ ~HasAny(worker, {"mute"}) /\ "mute" \notin adrift => hw[mic].mute = muted

NewsInv == ~Closed => Told(State)

\* The mirror has the range of the device, and its volume but for the cap.
MirrorInv ==
  ~Closed =>
    /\ mirror.mic \in {Unset, mic}
    /\ mirror.max \in {0, MaxOf[mic]}
    /\ mirror.started \/ mirror.mic # Unset => mirror.max = MaxOf[mic]
    /\ ~broken => (mirror.started <=> recording)
    /\ mirror.started /\ "volume" \notin adrift => hw[mic].volume = Capped(MaxOf[mic], mirror.volume)

\* The service shows the volume of the mirror, or will hear of it.
Retelling == HasAny(news, Retold) \/ OtherVolume
VolumeInv ==
  ~Closed /\ mirror.started /\ "volume" \notin adrift =>
    /\ IsCovered(news)
    /\ Retelling \/ Volume(level, range) = Capped(mirror.max, mirror.volume)

AudioInv == AudioTypeOK /\ PartsInv /\ MuteInv /\ NewsInv /\ MirrorInv /\ VolumeInv

(***************************************************************************)
(* AdmProxyState.                                                          *)
(***************************************************************************)

\* What every change of the mirror keeps.
Extends(s, r) ==
  /\ r \in MirrorState
  /\ Told(s) => Told(r)
  /\ HasAny(s.news, Retold) => HasAny(r.news, Retold)

LEMMA SetMuteFacts ==
  ASSUME NEW s \in MirrorState, NEW m \in BOOLEAN, NEW r, r = SetMute(s, m)
  PROVE  /\ Extends(s, r)
         /\ IsCovered(s.news) => IsCovered(r.news)
         /\ r.mirror.mic = s.mirror.mic /\ r.mirror.started = s.mirror.started
         /\ r.mirror.max = s.mirror.max /\ r.mirror.volume = s.mirror.volume
<1>1. CASE s.mirror.mute = m
  BY <1>1 DEF SetMute, Extends
<1>2. CASE s.mirror.mute # m
  <2> DEFINE c == [op |-> "mute", mute |-> m]
  <2>1. c \in SaneNews /\ c.op = "mute"
    BY DEF SaneNews, NewsType
  <2>2. r.mirror = [s.mirror EXCEPT !.mute = m] /\ r.news = Append(s.news, c) /\ r = [mirror |-> r.mirror, news |-> r.news]
    BY <1>2 DEF SetMute
  <2> HIDE DEF c
  <2>3. /\ r.mirror \in MirrorType /\ r.mirror.mic = s.mirror.mic /\ r.mirror.started = s.mirror.started
        /\ r.mirror.max = s.mirror.max /\ r.mirror.volume = s.mirror.volume
    BY <2>2 DEF MirrorState, MirrorType
  <2>4. s.news \in Seq(SaneNews)
    BY DEF MirrorState
  <2>5. /\ r.news \in Seq(SaneNews)
        /\ \A ops : HasAny(r.news, ops) <=> HasAny(s.news, ops) \/ c.op \in ops
        /\ \A ops, good : c.op \notin ops /\ EndsIn(s.news, ops, good) => EndsIn(r.news, ops, good)
        /\ c.op # "range" /\ IsCovered(s.news) => IsCovered(r.news)
    BY <2>1, <2>2, <2>4, QueueAppend
  <2>6. r \in MirrorState
    BY <2>2, <2>3, <2>5 DEF MirrorState
  <2>7. Told(s) => Told(r)
    BY <2>1, <2>3, <2>5 DEF Told, RangeTold, VolumeTold, StartTold, Starts
  <2>8. QED  BY <2>1, <2>3, <2>5, <2>6, <2>7 DEF Extends
<1>3. QED  BY <1>1, <1>2

LEMMA SetMinMaxFacts ==
  ASSUME NEW s \in MirrorState, NEW max \in Levels, Divides(max), NEW r, r = SetMinMaxVolume(s, max)
  PROVE  /\ Extends(s, r)
         /\ s.mirror.max = max => r = s
         /\ r.mirror.mic = s.mirror.mic /\ r.mirror.started = s.mirror.started
         /\ r.mirror.max = max /\ r.mirror.volume = s.mirror.volume
<1>1. CASE s.mirror.max = max
  BY <1>1 DEF SetMinMaxVolume, Extends
<1>2. CASE s.mirror.max # max
  <2> DEFINE c == [op |-> "range", max |-> max]
  <2>1. c \in SaneNews /\ c.op = "range" /\ c \in OfRange(max)
    BY DEF SaneNews, NewsType, OfRange
  <2>2. r.mirror = [s.mirror EXCEPT !.max = max] /\ r.news = Append(s.news, c) /\ r = [mirror |-> r.mirror, news |-> r.news]
    BY <1>2 DEF SetMinMaxVolume
  <2> HIDE DEF c
  <2>3. /\ r.mirror \in MirrorType /\ r.mirror.mic = s.mirror.mic /\ r.mirror.started = s.mirror.started
        /\ r.mirror.max = max /\ r.mirror.volume = s.mirror.volume
    BY <2>2 DEF MirrorState, MirrorType
  <2>4. s.news \in Seq(SaneNews)
    BY DEF MirrorState
  <2>5. /\ r.news \in Seq(SaneNews)
        /\ \A ops : HasAny(r.news, ops) <=> HasAny(s.news, ops) \/ c.op \in ops
        /\ \A ops, good : c.op \notin ops /\ EndsIn(s.news, ops, good) => EndsIn(r.news, ops, good)
        /\ \A ops, good : c.op \in ops /\ c \in good => EndsIn(r.news, ops, good)
    BY <2>1, <2>2, <2>4, QueueAppend
  <2>6. r \in MirrorState
    BY <2>2, <2>3, <2>5 DEF MirrorState
  <2>7. Told(s) => Told(r)
    BY <2>1, <2>3, <2>5 DEF Told, RangeTold, VolumeTold, StartTold, Starts
  <2>8. QED  BY <1>2, <2>3, <2>5, <2>6, <2>7 DEF Extends
<1>3. QED  BY <1>1, <1>2

LEMMA SetVolumeFacts ==
  ASSUME NEW s \in MirrorState, NEW v \in Levels, NEW r, r = SetVolume(s, v)
  PROVE  /\ Extends(s, r)
         /\ IsCovered(s.news) => IsCovered(r.news)
         /\ IF s.mirror.volume = v THEN r = s ELSE HasAny(r.news, Retold) /\ IsCovered(r.news)
         /\ r.mirror.mic = s.mirror.mic /\ r.mirror.started = s.mirror.started
         /\ r.mirror.max = s.mirror.max /\ r.mirror.volume = v
<1>1. CASE s.mirror.volume = v
  BY <1>1 DEF SetVolume, Extends
<1>2. CASE s.mirror.volume # v
  <2> DEFINE c == [op |-> "volume", volume |-> v]
  <2>1. c \in SaneNews /\ c.op = "volume" /\ c \in OfVolume(v)
    BY DEF SaneNews, NewsType, OfVolume
  <2>2. r.mirror = [s.mirror EXCEPT !.volume = v] /\ r.news = Append(s.news, c) /\ r = [mirror |-> r.mirror, news |-> r.news]
    BY <1>2 DEF SetVolume
  <2> HIDE DEF c
  <2>3. /\ r.mirror \in MirrorType /\ r.mirror.mic = s.mirror.mic /\ r.mirror.started = s.mirror.started
        /\ r.mirror.max = s.mirror.max /\ r.mirror.volume = v
    BY <2>2 DEF MirrorState, MirrorType
  <2>4. s.news \in Seq(SaneNews)
    BY DEF MirrorState
  <2>5. /\ r.news \in Seq(SaneNews)
        /\ \A ops : HasAny(r.news, ops) <=> HasAny(s.news, ops) \/ c.op \in ops
        /\ \A ops, good : c.op \notin ops /\ EndsIn(s.news, ops, good) => EndsIn(r.news, ops, good)
        /\ \A ops, good : c.op \in ops /\ c \in good => EndsIn(r.news, ops, good)
        /\ c.op \in Retold => IsCovered(r.news)
    BY <2>1, <2>2, <2>4, QueueAppend
  <2>6. r \in MirrorState
    BY <2>2, <2>3, <2>5 DEF MirrorState
  <2>7. Told(s) => Told(r)
    BY <2>1, <2>3, <2>5 DEF Told, RangeTold, VolumeTold, StartTold, Starts
  <2>8. c.op \in Retold
    BY <2>1 DEF Retold
  <2>9. QED  BY <1>2, <2>3, <2>5, <2>6, <2>7, <2>8 DEF Extends
<1>3. QED  BY <1>1, <1>2

LEMMA SetStartedFacts ==
  ASSUME NEW s \in MirrorState, NEW b \in BOOLEAN, NEW r, r = SetStarted(s, b)
  PROVE  /\ Extends(s, r)
         /\ IsCovered(s.news) => IsCovered(r.news)
         /\ b /\ ~s.mirror.started => HasAny(r.news, Retold) /\ IsCovered(r.news)
         /\ r.mirror.mic = s.mirror.mic /\ r.mirror.started = b
         /\ r.mirror.max = s.mirror.max /\ r.mirror.volume = s.mirror.volume
<1>1. CASE s.mirror.started = b
  BY <1>1 DEF SetStarted, Extends
<1>2. CASE s.mirror.started # b
  <2> DEFINE c == [op |-> IF b THEN "started" ELSE "stopped"]
  <2>1. c \in SaneNews /\ c.op = (IF b THEN "started" ELSE "stopped") /\ c \in OfStart(b)
    BY DEF SaneNews, NewsType, OfStart, Starts
  <2>2. r.mirror = [s.mirror EXCEPT !.started = b] /\ r.news = Append(s.news, c) /\ r = [mirror |-> r.mirror, news |-> r.news]
    BY <1>2 DEF SetStarted
  <2> HIDE DEF c
  <2>3. /\ r.mirror \in MirrorType /\ r.mirror.mic = s.mirror.mic /\ r.mirror.started = b
        /\ r.mirror.max = s.mirror.max /\ r.mirror.volume = s.mirror.volume
    BY <2>2 DEF MirrorState, MirrorType
  <2>4. s.news \in Seq(SaneNews)
    BY DEF MirrorState
  <2>5. /\ r.news \in Seq(SaneNews)
        /\ \A ops : HasAny(r.news, ops) <=> HasAny(s.news, ops) \/ c.op \in ops
        /\ \A ops, good : c.op \notin ops /\ EndsIn(s.news, ops, good) => EndsIn(r.news, ops, good)
        /\ \A ops, good : c.op \in ops /\ c \in good => EndsIn(r.news, ops, good)
        /\ c.op \in Retold => IsCovered(r.news)
        /\ c.op # "range" /\ IsCovered(s.news) => IsCovered(r.news)
    BY <2>1, <2>2, <2>4, QueueAppend
  <2>6. r \in MirrorState
    BY <2>2, <2>3, <2>5 DEF MirrorState
  <2>7. c.op \in Starts /\ c.op \notin {"range"} /\ c.op \notin {"volume"}
    BY <2>1 DEF Starts
  <2>8. Told(s) => Told(r)
    BY <2>1, <2>3, <2>5, <2>7 DEF Told, RangeTold, VolumeTold, StartTold
  <2>9. b => c.op \in Retold
    BY <2>1 DEF Retold
  <2>10. QED  BY <2>3, <2>5, <2>6, <2>7, <2>8, <2>9 DEF Extends
<1>3. QED  BY <1>1, <1>2

\* The mute, the range and the volume of the device.
LEMMA UpdateFacts ==
  ASSUME NEW s \in MirrorState, NEW d \in Mics, AudioTypeOK, NEW r, r = Update(s, d)
  PROVE  /\ Extends(s, r)
         /\ s.mirror.max = MaxOf[d] /\ IsCovered(s.news) => IsCovered(r.news)
         /\ s.mirror.volume # hw[d].volume => HasAny(r.news, Retold) /\ IsCovered(r.news)
         /\ r.mirror.mic = s.mirror.mic /\ r.mirror.started = s.mirror.started
         /\ r.mirror.max = MaxOf[d] /\ r.mirror.volume = hw[d].volume
<1>1. /\ MaxOf[d] \in Levels /\ Divides(MaxOf[d])
      /\ hw[d].mute \in BOOLEAN /\ hw[d].volume \in Levels
  <2>1. MaxOf[d] \in 1..Whole /\ Whole % MaxOf[d] = 0 /\ Whole \in Nat
    BY AudioModuleAssumption
  <2>2. hw[d] \in [mute: BOOLEAN, volume: Levels]
    BY DEF AudioTypeOK
  <2>3. MaxOf[d] \in Levels /\ Divides(MaxOf[d])
    BY <2>1 DEF Levels, Divides
  <2>4. QED  BY <2>2, <2>3
<1>2. PICK a : a = SetMute(s, hw[d].mute)
  OBVIOUS
<1>3. PICK b : b = SetMinMaxVolume(a, MaxOf[d])
  OBVIOUS
<1>4. r = SetVolume(b, hw[d].volume)
  BY <1>2, <1>3 DEF Update
<1>5. /\ Extends(s, a) /\ (IsCovered(s.news) => IsCovered(a.news))
      /\ a.mirror.mic = s.mirror.mic /\ a.mirror.started = s.mirror.started
      /\ a.mirror.max = s.mirror.max /\ a.mirror.volume = s.mirror.volume
  BY <1>1, <1>2, SetMuteFacts
<1>6. a \in MirrorState
  BY <1>5 DEF Extends
<1>7. /\ Extends(a, b) /\ (a.mirror.max = MaxOf[d] => b = a)
      /\ b.mirror.mic = a.mirror.mic /\ b.mirror.started = a.mirror.started
      /\ b.mirror.max = MaxOf[d] /\ b.mirror.volume = a.mirror.volume
  BY <1>1, <1>3, <1>6, SetMinMaxFacts
<1>8. b \in MirrorState
  BY <1>7 DEF Extends
<1>9. /\ Extends(b, r) /\ (IsCovered(b.news) => IsCovered(r.news))
      /\ b.mirror.volume # hw[d].volume => HasAny(r.news, Retold) /\ IsCovered(r.news)
      /\ r.mirror.mic = b.mirror.mic /\ r.mirror.started = b.mirror.started
      /\ r.mirror.max = b.mirror.max /\ r.mirror.volume = hw[d].volume
  BY <1>1, <1>4, <1>8, SetVolumeFacts
<1>10. Extends(s, r)
  BY <1>5, <1>7, <1>9 DEF Extends
<1>11. QED  BY <1>5, <1>7, <1>9, <1>10


(***************************************************************************)
(* What a step leaves alone.                                               *)
(***************************************************************************)

LEMMA MuteKept ==
  ASSUME MuteInv, UNCHANGED <<late, muted, transport, telling, doing, worker, adrift, hw, mic>>
  PROVE  MuteInv'
BY DEF MuteInv, Closed, MuteToPost, Posts

LEMMA NewsKept ==
  ASSUME NewsInv, UNCHANGED <<news, mirror, range, heard, telling, transport>>
  PROVE  NewsInv'
<1>1. State' = State /\ Closed' = Closed
  BY DEF State, Closed
<1>2. RangeTold(State)' = RangeTold(State) /\ VolumeTold(State)' = VolumeTold(State)
  BY <1>1 DEF RangeTold, VolumeTold
<1>3. StartTold(State)' = StartTold(State)
  BY <1>1 DEF StartTold
<1>4. QED  BY <1>1, <1>2, <1>3 DEF NewsInv, Told

LEMMA MirrorKept ==
  ASSUME MirrorInv, UNCHANGED <<mirror, mic, hw, broken, recording, adrift, transport>>
  PROVE  MirrorInv'
BY DEF MirrorInv, Closed

LEMMA VolumeKept ==
  ASSUME VolumeInv, UNCHANGED <<mirror, adrift, news, doing, telling, worker, level, range, transport>>
  PROVE  VolumeInv'
<1>1. OtherVolume' = OtherVolume
  BY DEF OtherVolume, Posts
<1>2. Retelling' = Retelling /\ Closed' = Closed
  BY <1>1 DEF Retelling, Closed
<1>3. QED  BY <1>2 DEF VolumeInv

\* After close() there is nothing to agree on.
LEMMA ClosedKeeps ==
  ASSUME Closed' PROVE MuteInv' /\ NewsInv' /\ MirrorInv' /\ VolumeInv'
BY DEF MuteInv, NewsInv, MirrorInv, VolumeInv

\* What the thread of an application does next.
LEMMA DoingFacts ==
  ASSUME NEW f, f = [u \in Threads |-> f[u]], NEW t \in Threads, NEW x, NEW g, g = [f EXCEPT ![t] = x]
  PROVE  g = [u \in Threads |-> g[u]] /\ g[t] = x /\ \A u \in Threads : u # t => g[u] = f[u]
OBVIOUS

\* Once no volume and no start are to be told, the service has the range of the mirror.
LEMMA RangeIsKnown ==
  ASSUME AudioInv, ~Closed, mirror.started, "volume" \notin adrift, ~HasAny(news, Retold)
  PROVE  range = mirror.max /\ Divides(range)
<1>1. IsCovered(news)
  BY DEF AudioInv, VolumeInv
<1>2. ~HasAny(news, {"range"})
  BY <1>1 DEF IsCovered, HasAny
<1>3. mirror.max \in {0, range}
  BY <1>2 DEF AudioInv, NewsInv, Told, RangeTold, State
<1>4. mirror.max = MaxOf[mic] /\ MaxOf[mic] \in 1..Whole
  BY AudioModuleAssumption DEF AudioInv, MirrorInv, AudioTypeOK
<1>5. mirror.max # 0
  BY <1>4, AudioModuleAssumption
<1>6. QED  BY <1>3, <1>5 DEF AudioInv, PartsInv

\* A volume that leaves the level within the range says nothing new only if it is the mirror's.
LEMMA SameVolume ==
  ASSUME AudioInv, ~Closed, mirror.started, "volume" \notin adrift, ~HasAny(news, Retold),
         NEW l \in Levels, Volume(l, range) = mirror.volume
  PROVE  Volume(l, range) = Capped(mirror.max, mirror.volume)
<1>1. range = mirror.max /\ Divides(range)
  BY RangeIsKnown
<1>2. Volume(l, range) \in 0..range
  BY <1>1, VolumeFacts
<1>3. range \in Nat
  BY <1>1, AudioModuleAssumption DEF Divides
<1>4. QED  BY <1>1, <1>2, <1>3 DEF Capped

(***************************************************************************)
(* Threads of the application.                                             *)
(***************************************************************************)

LEMMA SetRecordingMuteInv ==
  ASSUME AudioInv, NEW t \in Threads, SetRecordingMute(t) PROVE AudioInv'
<1> DEFINE x == [step |-> "post", op |-> "mute", value |-> ~muted]
<1>1. /\ doing[t] = Free /\ muted' = ~muted /\ doing' = [doing EXCEPT ![t] = x] /\ changes' \in 0..MaxChanges
      /\ UNCHANGED <<level, range, heard, holder, worker, news, telling, mic, recording, hw, mirror, broken,
                     hooked, transport, adrift, late, starts>>
  BY AudioModuleAssumption DEF SetRecordingMute, Change, AudioInv, AudioTypeOK, deviceVars, callbackVars
<1>2. doing = [u \in Threads |-> doing[u]]
  BY DEF AudioInv, PartsInv
<1>3. doing' = [u \in Threads |-> doing'[u]] /\ doing'[t] = x /\ \A u \in Threads : u # t => doing'[u] = doing[u]
  <2> HIDE DEF x
  <2>1. QED  BY <1>1, <1>2, DoingFacts
<1>4. muted \in BOOLEAN
  BY DEF AudioInv, AudioTypeOK
<1>5. x \in [step: {"post"}, op: {"mute"}, value: BOOLEAN]
  BY <1>4
<1>6. AudioTypeOK'
  <2>1. \A u \in Threads :
          doing'[u] \in {Free, [step |-> "wait"]} \cup [step: {"post"}, op: {"mute"}, value: BOOLEAN]
                        \cup [step: {"post"}, op: {"volume"}, value: Levels]
    <3> HIDE DEF x
    <3>1. QED  BY <1>3, <1>5 DEF AudioInv, AudioTypeOK
  <2>2. muted' \in BOOLEAN
    BY <1>1, <1>4
  <2>3. QED  BY <1>1, <2>1, <2>2 DEF AudioInv, AudioTypeOK
<1>7. PartsInv'
  <2>1. holder # t \/ holder = Unset
    BY <1>1 DEF AudioInv, PartsInv, Free
  <2>2. holder \in Threads \cup {Unset}
    BY DEF AudioInv, AudioTypeOK
  <2>3. holder # Unset => doing'[holder] = [step |-> "wait"]
    BY <1>3, <2>1, <2>2 DEF AudioInv, PartsInv
  <2>4. QED  BY <1>1, <1>3, <2>3 DEF AudioInv, PartsInv
<1>8. MuteInv'
  <2>1. Posts(t, "mute")'
    BY <1>3 DEF Posts
  <2>2. QED  BY <2>1 DEF MuteInv, MuteToPost
<1>9. NewsInv' /\ MirrorInv'
  BY <1>1, NewsKept, MirrorKept DEF AudioInv
<1>10. VolumeInv'
  <2>1. OtherVolume => OtherVolume'
    <3>1. \A u \in Threads : Posts(u, "volume") => u # t
      BY <1>1 DEF Posts, Free
    <3>2. \A u \in Threads : Posts(u, "volume") => Posts(u, "volume")' /\ doing'[u] = doing[u]
      BY <1>3, <3>1 DEF Posts
    <3>3. QED  BY <1>1, <3>2 DEF OtherVolume
  <2>2. Retelling => Retelling'
    BY <1>1, <2>1 DEF Retelling
  <2>3. QED  BY <1>1, <2>2 DEF AudioInv, VolumeInv, Closed
<1>11. QED  BY <1>6, <1>7, <1>8, <1>9, <1>10 DEF AudioInv

LEMMA SetRecordingAudioVolumeInv ==
  ASSUME AudioInv, NEW t \in Threads, NEW l \in Wished, SetRecordingAudioVolume(t, l) PROVE AudioInv'
<1> DEFINE v == Volume(l, range)
           x == [step |-> "post", op |-> "volume", value |-> v]
<1>1. /\ doing[t] = Free /\ level' = l /\ doing' = [doing EXCEPT ![t] = x] /\ changes' \in 0..MaxChanges
      /\ UNCHANGED <<muted, range, heard, holder, worker, news, telling, mic, recording, hw, mirror, broken,
                     hooked, transport, adrift, late, starts>>
  BY AudioModuleAssumption DEF SetRecordingAudioVolume, Change, AudioInv, AudioTypeOK, deviceVars, callbackVars
<1>2. doing = [u \in Threads |-> doing[u]] /\ Divides(range)
  BY DEF AudioInv, PartsInv
<1>3. l \in Levels /\ v \in Levels
  BY <1>2, VolumeFacts, AudioModuleAssumption DEF Levels
<1>4. x \in [step: {"post"}, op: {"volume"}, value: Levels] /\ x.step = "post" /\ x.op = "volume" /\ x.value = v
  BY <1>3
<1> HIDE DEF x, v
<1>5. doing' = [u \in Threads |-> doing'[u]] /\ doing'[t] = x /\ \A u \in Threads : u # t => doing'[u] = doing[u]
  BY <1>1, <1>2, DoingFacts
<1>6. AudioTypeOK'
  <2>1. \A u \in Threads :
          doing'[u] \in {Free, [step |-> "wait"]} \cup [step: {"post"}, op: {"mute"}, value: BOOLEAN]
                        \cup [step: {"post"}, op: {"volume"}, value: Levels]
    BY <1>4, <1>5 DEF AudioInv, AudioTypeOK
  <2>2. QED  BY <1>1, <1>3, <2>1 DEF AudioInv, AudioTypeOK
<1>7. PartsInv'
  <2>1. holder # t \/ holder = Unset
    BY <1>1 DEF AudioInv, PartsInv, Free
  <2>2. holder \in Threads \cup {Unset}
    BY DEF AudioInv, AudioTypeOK
  <2>3. holder # Unset => doing'[holder] = [step |-> "wait"]
    BY <1>5, <2>1, <2>2 DEF AudioInv, PartsInv
  <2>4. QED  BY <1>1, <1>5, <2>3 DEF AudioInv, PartsInv
<1>8. MuteInv'
  <2>1. MuteToPost => MuteToPost'
    <3>1. \A u \in Threads : Posts(u, "mute") => u # t
      BY <1>1 DEF Posts, Free
    <3>2. \A u \in Threads : Posts(u, "mute") => Posts(u, "mute")'
      BY <1>5, <3>1 DEF Posts
    <3>3. QED  BY <1>1, <3>2 DEF MuteToPost
  <2>2. QED  BY <1>1, <2>1 DEF AudioInv, MuteInv, Closed
<1>9. NewsInv' /\ MirrorInv'
  BY <1>1, NewsKept, MirrorKept DEF AudioInv
<1>10. VolumeInv'
  <2> SUFFICES ASSUME ~Closed, mirror.started, "volume" \notin adrift
               PROVE  Retelling' \/ Volume(level', range) = Capped(mirror.max, mirror.volume)
    BY <1>1 DEF AudioInv, VolumeInv, Closed
  <2>1. CASE HasAny(news, Retold)
    BY <1>1, <2>1 DEF Retelling
  <2>2. CASE v # mirror.volume
    <3>1. Posts(t, "volume")' /\ doing'[t].value # mirror.volume
      BY <1>4, <1>5, <2>2 DEF Posts
    <3>2. QED  BY <1>1, <3>1 DEF Retelling, OtherVolume
  <2>3. CASE ~HasAny(news, Retold) /\ v = mirror.volume
    <3>1. Volume(l, range) = mirror.volume
      BY <2>3 DEF v
    <3>2. Volume(l, range) = Capped(mirror.max, mirror.volume)
      BY <1>3, <2>3, <3>1, SameVolume
    <3>3. QED  BY <1>1, <3>2
  <2>4. QED  BY <2>1, <2>2, <2>3
<1>11. QED  BY <1>6, <1>7, <1>8, <1>9, <1>10 DEF AudioInv

LEMMA PostAdmTaskInv ==
  ASSUME AudioInv, NEW t \in Threads, PostAdmTask(t) PROVE AudioInv'
<1> DEFINE c == [op |-> doing[t].op, value |-> doing[t].value]
<1>1. /\ doing[t].step = "post" /\ doing' = [doing EXCEPT ![t] = Free] /\ worker' = Append(worker, c)
      /\ late' = Late(doing[t].op, doing[t].value)
      /\ UNCHANGED <<muted, level, range, heard, holder, news, telling, mic, recording, hw, mirror, broken,
                     hooked, transport, adrift, changes, starts>>
  BY DEF PostAdmTask, serviceVars, deviceVars, callbackVars
<1>2. doing = [u \in Threads |-> doing[u]]
  BY DEF AudioInv, PartsInv
<1>3. doing[t] \in [step: {"post"}, op: {"mute"}, value: BOOLEAN] \cup [step: {"post"}, op: {"volume"}, value: Levels]
  BY <1>1 DEF AudioInv, AudioTypeOK, Free
<1>4. c \in TaskType /\ c.op = doing[t].op /\ c.value = doing[t].value /\ c.op \in {"mute", "volume"}
  BY <1>3 DEF TaskType
<1> HIDE DEF c
<1>5. doing' = [u \in Threads |-> doing'[u]] /\ doing'[t] = Free /\ \A u \in Threads : u # t => doing'[u] = doing[u]
  BY <1>1, <1>2, DoingFacts
<1>6. worker \in Seq(TaskType)
  BY DEF AudioInv, AudioTypeOK
<1>7. /\ worker' \in Seq(TaskType)
      /\ \A ops : HasAny(worker', ops) <=> HasAny(worker, ops) \/ c.op \in ops
      /\ \A ops, good : c.op \in ops /\ c \in good => EndsIn(worker', ops, good)
      /\ \A ops, good : c.op \notin ops /\ EndsIn(worker, ops, good) => EndsIn(worker', ops, good)
      /\ \A w : HasOther(worker', w) <=> HasOther(worker, w) \/ (c.op = "volume" /\ c.value # w)
  BY <1>1, <1>4, <1>6, QueueAppend
<1>8. AudioTypeOK'
  <2>1. \A u \in Threads :
          doing'[u] \in {Free, [step |-> "wait"]} \cup [step: {"post"}, op: {"mute"}, value: BOOLEAN]
                        \cup [step: {"post"}, op: {"volume"}, value: Levels]
    BY <1>5 DEF AudioInv, AudioTypeOK
  <2>2. late' \in BOOLEAN
    BY <1>1 DEF Late, AudioInv, AudioTypeOK
  <2>3. QED  BY <1>1, <1>7, <2>1, <2>2 DEF AudioInv, AudioTypeOK
<1>9. PartsInv'
  <2>1. holder # t \/ holder = Unset
    BY <1>1 DEF AudioInv, PartsInv
  <2>2. holder \in Threads \cup {Unset}
    BY DEF AudioInv, AudioTypeOK
  <2>3. holder # Unset => doing'[holder] = [step |-> "wait"]
    BY <1>5, <2>1, <2>2 DEF AudioInv, PartsInv
  <2>4. QED  BY <1>1, <1>5, <2>3 DEF AudioInv, PartsInv
<1>10. MuteInv'
  <2> SUFFICES ASSUME ~late', ~Closed, ~MuteToPost'
               PROVE  /\ EndsIn(worker', {"mute"}, OfMute(muted))
                      /\ ~HasAny(worker', {"mute"}) /\ "mute" \notin adrift => hw[mic].mute = muted
    BY <1>1 DEF MuteInv, Closed
  <2>1. CASE c.op = "mute"
    <3>1. c.value = muted
      BY <1>1, <1>4, <2>1 DEF Late
    <3>2. c \in OfMute(muted)
      BY <1>4, <3>1 DEF OfMute
    <3>3. EndsIn(worker', {"mute"}, OfMute(muted)) /\ HasAny(worker', {"mute"})
      BY <1>7, <2>1, <3>2
    <3>4. QED  BY <3>3
  <2>2. CASE c.op = "volume"
    <3>1. ~late
      BY <1>1, <1>4, <2>2 DEF Late
    <3>2. ~MuteToPost
      <4>1. \A u \in Threads : Posts(u, "mute") => u # t
        BY <1>4, <2>2 DEF Posts
      <4>2. \A u \in Threads : Posts(u, "mute") => Posts(u, "mute")'
        BY <1>5, <4>1 DEF Posts
      <4>3. QED  BY <1>1, <4>2 DEF MuteToPost
    <3>3. /\ EndsIn(worker, {"mute"}, OfMute(muted))
          /\ ~HasAny(worker, {"mute"}) /\ "mute" \notin adrift => hw[mic].mute = muted
      BY <3>1, <3>2 DEF AudioInv, MuteInv
    <3>4. QED  BY <1>7, <2>2, <3>3
  <2>3. QED  BY <1>4, <2>1, <2>2
<1>11. NewsInv' /\ MirrorInv'
  BY <1>1, NewsKept, MirrorKept DEF AudioInv
<1>12. VolumeInv'
  <2>1. OtherVolume => OtherVolume'
    <3>1. ASSUME NEW u \in Threads, Posts(u, "volume"), doing[u].value # mirror.volume
          PROVE  OtherVolume'
      <4>1. CASE u = t
        <5>1. HasOther(worker', mirror.volume)
          BY <1>4, <1>7, <3>1, <4>1 DEF Posts
        <5>2. QED  BY <1>1, <5>1 DEF OtherVolume
      <4>2. CASE u # t
        <5>1. Posts(u, "volume")' /\ doing'[u].value # mirror.volume
          BY <1>5, <3>1, <4>2 DEF Posts
        <5>2. QED  BY <1>1, <5>1 DEF OtherVolume
      <4>3. QED  BY <4>1, <4>2
    <3>2. HasOther(worker, mirror.volume) => HasOther(worker', mirror.volume)
      BY <1>7
    <3>3. QED  BY <1>1, <3>1, <3>2 DEF OtherVolume
  <2>2. Retelling => Retelling'
    BY <1>1, <2>1 DEF Retelling
  <2>3. QED  BY <1>1, <2>2 DEF AudioInv, VolumeInv, Closed
<1>13. QED  BY <1>8, <1>9, <1>10, <1>11, <1>12 DEF AudioInv


LEMMA SetAudioRecordingDeviceInv ==
  ASSUME AudioInv, NEW t \in Threads, NEW d \in Mics, SetAudioRecordingDevice(t, d) PROVE AudioInv'
<1> DEFINE c == [op |-> "select", value |-> d]
           x == [step |-> "wait"]
<1>1. /\ doing[t] = Free /\ holder = Unset /\ holder' = t /\ doing' = [doing EXCEPT ![t] = x]
      /\ worker' = Append(worker, c) /\ changes' \in 0..MaxChanges
      /\ UNCHANGED <<muted, level, range, heard, news, telling, mic, recording, hw, mirror, broken,
                     hooked, transport, adrift, late, starts>>
  BY AudioModuleAssumption DEF SetAudioRecordingDevice, Change, AudioInv, AudioTypeOK, serviceVars, deviceVars,
     callbackVars
<1>2. doing = [u \in Threads |-> doing[u]] /\ worker \in Seq(TaskType)
  BY DEF AudioInv, AudioTypeOK, PartsInv
<1>3. c \in TaskType /\ c.op = "select"
  BY DEF TaskType
<1> HIDE DEF c
<1>4. doing' = [u \in Threads |-> doing'[u]] /\ doing'[t] = x /\ \A u \in Threads : u # t => doing'[u] = doing[u]
  BY <1>1, <1>2, DoingFacts
<1>5. /\ worker' \in Seq(TaskType)
      /\ \A ops : HasAny(worker', ops) <=> HasAny(worker, ops) \/ c.op \in ops
      /\ \A ops, good : c.op \notin ops /\ EndsIn(worker, ops, good) => EndsIn(worker', ops, good)
      /\ \A w : HasOther(worker', w) <=> HasOther(worker, w) \/ (c.op = "volume" /\ c.value # w)
  BY <1>1, <1>2, <1>3, QueueAppend
<1>6. AudioTypeOK'
  <2>1. \A u \in Threads :
          doing'[u] \in {Free, [step |-> "wait"]} \cup [step: {"post"}, op: {"mute"}, value: BOOLEAN]
                        \cup [step: {"post"}, op: {"volume"}, value: Levels]
    BY <1>4 DEF AudioInv, AudioTypeOK
  <2>2. QED  BY <1>1, <1>5, <2>1 DEF AudioInv, AudioTypeOK
<1>7. PartsInv'
  BY <1>1, <1>4 DEF AudioInv, PartsInv
<1>8. \A u \in Threads, op \in Settings : Posts(u, op) => Posts(u, op)' /\ doing'[u] = doing[u]
  <2>1. \A u \in Threads, op \in Settings : Posts(u, op) => u # t
    BY <1>1 DEF Posts, Free
  <2>2. QED  BY <1>4, <2>1 DEF Posts
<1>9. MuteInv'
  <2>1. MuteToPost => MuteToPost'
    BY <1>1, <1>8 DEF MuteToPost, Settings
  <2>2. QED  BY <1>1, <1>3, <1>5, <2>1 DEF AudioInv, MuteInv, Closed
<1>10. NewsInv' /\ MirrorInv'
  BY <1>1, NewsKept, MirrorKept DEF AudioInv
<1>11. VolumeInv'
  <2>1. OtherVolume => OtherVolume'
    BY <1>1, <1>5, <1>8 DEF OtherVolume, Settings
  <2>2. Retelling => Retelling'
    BY <1>1, <2>1 DEF Retelling
  <2>3. QED  BY <1>1, <2>2 DEF AudioInv, VolumeInv, Closed
<1>12. QED  BY <1>6, <1>7, <1>9, <1>10, <1>11 DEF AudioInv

LEMMA CloseInv ==
  ASSUME AudioInv, NEW t \in Threads, Close(t) PROVE AudioInv'
<1> DEFINE c == [op |-> "release"]
<1>1. /\ transport' = "closed" /\ worker' = Append(worker, c)
      /\ UNCHANGED <<muted, level, range, heard, doing, holder, news, telling, mic, recording, hw, mirror,
                     broken, hooked, adrift, late, changes, starts>>
  BY DEF Close, serviceVars, deviceVars
<1>2. c \in TaskType
  BY DEF TaskType
<1> HIDE DEF c
<1>3. worker' \in Seq(TaskType)
  BY <1>1, <1>2, QueueAppend DEF AudioInv, AudioTypeOK
<1>4. AudioTypeOK'
  BY <1>1, <1>3 DEF AudioInv, AudioTypeOK
<1>5. PartsInv'
  BY <1>1 DEF AudioInv, PartsInv
<1>6. QED  BY <1>1, <1>4, <1>5, ClosedKeeps DEF AudioInv, Closed

LEMMA UserInv ==
  ASSUME AudioInv, NEW t \in Threads, User(t) PROVE AudioInv'
BY SetRecordingMuteInv, SetRecordingAudioVolumeInv, PostAdmTaskInv, SetAudioRecordingDeviceInv, CloseInv DEF User

(***************************************************************************)
(* The worker thread.                                                      *)
(***************************************************************************)

\* The worker takes its next task.
LEMMA TaskFacts ==
  ASSUME AudioInv, NEW op, Task(op)
  PROVE  /\ worker' \in Seq(TaskType) /\ Head(worker) \in TaskType /\ Head(worker).op = op
         /\ \A ops : HasAny(worker, ops) <=> op \in ops \/ HasAny(worker', ops)
         /\ \A ops, good : EndsIn(worker, ops, good) =>
              /\ EndsIn(worker', ops, good)
              /\ op \in ops /\ ~HasAny(worker', ops) => Head(worker) \in good
         /\ \A v : HasOther(worker, v) <=> (op = "volume" /\ Value # v) \/ HasOther(worker', v)
<1>1. worker \in Seq(TaskType) /\ worker # <<>> /\ Head(worker).op = op /\ worker' = Tail(worker)
  BY DEF Task, AudioInv, AudioTypeOK
<1>2. QED  BY <1>1, QueueTail DEF Value

LEMMA RefuseSettingInv ==
  ASSUME AudioInv, RefuseSetting PROVE AudioInv'
<1> PICK op \in Settings : Task(op) /\ adrift' = adrift \cup {op}
  BY DEF RefuseSetting
<1>1. UNCHANGED <<muted, level, range, heard, doing, holder, news, telling, mic, recording, hw, mirror, broken,
                  hooked, transport, late, changes, starts>>
  BY DEF RefuseSetting, serviceVars, deviceVars, callbackVars
<1>2. /\ worker' \in Seq(TaskType)
      /\ \A ops : HasAny(worker, ops) <=> op \in ops \/ HasAny(worker', ops)
      /\ \A ops, good : EndsIn(worker, ops, good) => EndsIn(worker', ops, good)
      /\ \A v : HasOther(worker, v) <=> (op = "volume" /\ Value # v) \/ HasOther(worker', v)
  BY TaskFacts
<1>3. AudioTypeOK'
  BY <1>1, <1>2 DEF AudioInv, AudioTypeOK
<1>4. PartsInv'
  BY <1>1 DEF AudioInv, PartsInv
<1>5. MuteInv'
  <2>1. MuteToPost' = MuteToPost /\ Closed' = Closed
    BY <1>1 DEF MuteToPost, Posts, Closed
  <2>2. QED  BY <1>1, <1>2, <2>1 DEF AudioInv, MuteInv
<1>6. NewsInv'
  BY <1>1, NewsKept DEF AudioInv
<1>7. MirrorInv'
  BY <1>1 DEF AudioInv, MirrorInv, Closed
<1>8. VolumeInv'
  <2>1. op # "volume" /\ OtherVolume => OtherVolume'
    BY <1>1, <1>2 DEF OtherVolume, Posts
  <2>2. op # "volume" /\ Retelling => Retelling'
    BY <1>1, <2>1 DEF Retelling
  <2>3. QED  BY <1>1, <2>2 DEF AudioInv, VolumeInv, Closed
<1>9. QED  BY <1>3, <1>4, <1>5, <1>6, <1>7, <1>8 DEF AudioInv

LEMMA StateFacts ==
  ASSUME AudioInv
  PROVE  State \in MirrorState /\ State.mirror = mirror /\ State.news = news
BY DEF State, MirrorState, MirrorType, AudioInv, AudioTypeOK, PartsInv

\* The mirror becomes what AdmProxyState has made of it.
LEMMA BecomesFacts ==
  ASSUME AudioInv, NEW r, Becomes(r), Extends(State, r)
  PROVE  /\ mirror' = r.mirror /\ news' = r.news /\ State' = r
         /\ mirror' \in MirrorType /\ news' \in Seq(SaneNews) /\ news' \in Seq(NewsType)
         /\ HasAny(news, Retold) => HasAny(news', Retold)
         /\ UNCHANGED <<range, heard, telling, transport>> => NewsInv'
<1>1. mirror' = r.mirror /\ news' = r.news
  BY DEF Becomes
<1>2. r \in MirrorState
  BY DEF Extends
<1>3. mirror' \in MirrorType /\ news' \in Seq(SaneNews)
  BY <1>1, <1>2 DEF MirrorState
<1>4. State' = r
  BY <1>1, <1>2 DEF State, MirrorState
<1>5. news' \in Seq(NewsType)
  BY <1>3 DEF SaneNews
<1>6. HasAny(news, Retold) => HasAny(news', Retold)
  BY <1>1, StateFacts DEF Extends
<1>7. ASSUME UNCHANGED <<range, heard, telling, transport>> PROVE NewsInv'
  <2>1. ASSUME Told(r) PROVE Told(State)'
    <3>1. RangeTold(State)' /\ VolumeTold(State)'
      BY <1>4, <1>7, <2>1 DEF Told, RangeTold, VolumeTold
    <3>2. StartTold(State)'
      BY <1>4, <1>7, <2>1 DEF Told, StartTold
    <3>3. QED  BY <3>1, <3>2 DEF Told
  <2>2. Closed' = Closed
    BY <1>7 DEF Closed
  <2>3. QED  BY <2>1, <2>2 DEF AudioInv, NewsInv, Extends
<1>8. QED  BY <1>1, <1>3, <1>4, <1>5, <1>6, <1>7

LEMMA SetMicrophoneMuteInv ==
  ASSUME AudioInv, SetMicrophoneMute PROVE AudioInv'
<1> DEFINE m == Value
<1>1. /\ Task("mute") /\ ~Closed /\ hw' = [hw EXCEPT ![mic].mute = m] /\ Becomes(SetMute(State, m))
      /\ adrift' = adrift \ {"mute"}
      /\ UNCHANGED <<muted, level, range, heard, doing, holder, telling, mic, recording, broken,
                     hooked, transport, late, changes, starts>>
  BY DEF SetMicrophoneMute, serviceVars, callbackVars
<1>2. /\ worker' \in Seq(TaskType) /\ Head(worker) \in TaskType /\ Head(worker).op = "mute"
      /\ \A ops : HasAny(worker, ops) <=> "mute" \in ops \/ HasAny(worker', ops)
      /\ \A ops, good : EndsIn(worker, ops, good) =>
           /\ EndsIn(worker', ops, good)
           /\ "mute" \in ops /\ ~HasAny(worker', ops) => Head(worker) \in good
      /\ \A v : HasOther(worker, v) <=> HasOther(worker', v)
  BY <1>1, TaskFacts
<1>3. m \in BOOLEAN /\ m = Head(worker).value
  BY <1>2 DEF TaskType, Value
<1> HIDE DEF m
<1>4. PICK r : r = SetMute(State, m)
  OBVIOUS
<1>5. /\ Extends(State, r)
      /\ IsCovered(news) => IsCovered(r.news)
      /\ r.mirror.mic = mirror.mic /\ r.mirror.started = mirror.started
      /\ r.mirror.max = mirror.max /\ r.mirror.volume = mirror.volume
  BY <1>3, <1>4, StateFacts, SetMuteFacts
<1>6. /\ mirror' = r.mirror /\ news' = r.news
      /\ mirror' \in MirrorType /\ news' \in Seq(SaneNews) /\ news' \in Seq(NewsType)
      /\ HasAny(news, Retold) => HasAny(news', Retold)
      /\ NewsInv'
  BY <1>1, <1>4, <1>5, BecomesFacts
<1>7. /\ hw' \in [Mics -> [mute: BOOLEAN, volume: Levels]] /\ hw'[mic].mute = m
      /\ \A d \in Mics : hw'[d].volume = hw[d].volume
  BY <1>1, <1>3 DEF AudioInv, AudioTypeOK
<1>8. AudioTypeOK'
  BY <1>1, <1>2, <1>6, <1>7 DEF AudioInv, AudioTypeOK, MirrorType
<1>9. PartsInv'
  BY <1>1, <1>6, <1>7 DEF AudioInv, PartsInv
<1>10. Closed' = Closed /\ MuteToPost' = MuteToPost /\ mic \in Mics
  BY <1>1 DEF Closed, MuteToPost, Posts, AudioInv, AudioTypeOK
<1>11. MuteInv'
  <2> SUFFICES ASSUME ~late, ~MuteToPost
               PROVE  /\ EndsIn(worker', {"mute"}, OfMute(muted))
                      /\ ~HasAny(worker', {"mute"}) => hw'[mic].mute = muted
    BY <1>1, <1>10 DEF MuteInv
  <2>1. EndsIn(worker, {"mute"}, OfMute(muted))
    BY <1>1 DEF AudioInv, MuteInv
  <2>2. ASSUME ~HasAny(worker', {"mute"}) PROVE hw'[mic].mute = muted
    <3>1. Head(worker) \in OfMute(muted)
      BY <1>2, <2>1, <2>2
    <3>2. QED  BY <1>2, <1>3, <1>7, <3>1 DEF OfMute
  <2>3. QED  BY <1>2, <2>1, <2>2
<1>12. MirrorInv'
  BY <1>1, <1>5, <1>6, <1>7, <1>10 DEF AudioInv, MirrorInv
<1>13. VolumeInv'
  <2>1. OtherVolume => OtherVolume'
    BY <1>1, <1>2, <1>5, <1>6 DEF OtherVolume, Posts
  <2>2. Retelling => Retelling'
    BY <1>6, <2>1 DEF Retelling
  <2>3. QED  BY <1>1, <1>5, <1>6, <1>10, <2>2 DEF AudioInv, VolumeInv
<1>14. QED  BY <1>6, <1>8, <1>9, <1>11, <1>12, <1>13 DEF AudioInv

LEMMA SetMicrophoneVolumeInv ==
  ASSUME AudioInv, SetMicrophoneVolume PROVE AudioInv'
<1> DEFINE w == Value
<1>1. /\ Task("volume") /\ ~Closed /\ hw' = [hw EXCEPT ![mic].volume = Capped(MaxOf[mic], w)]
      /\ Becomes(SetVolume(State, w))
      /\ adrift' = IF mirror.volume = w THEN adrift ELSE adrift \ {"volume"}
      /\ UNCHANGED <<muted, level, range, heard, doing, holder, telling, mic, recording, broken,
                     hooked, transport, late, changes, starts>>
  BY DEF SetMicrophoneVolume, serviceVars, callbackVars, Capped
<1>2. /\ worker' \in Seq(TaskType) /\ Head(worker) \in TaskType /\ Head(worker).op = "volume"
      /\ \A ops : HasAny(worker, ops) <=> "volume" \in ops \/ HasAny(worker', ops)
      /\ \A ops, good : EndsIn(worker, ops, good) => EndsIn(worker', ops, good)
      /\ \A v : HasOther(worker, v) <=> w # v \/ HasOther(worker', v)
  BY <1>1, TaskFacts
<1>3. w \in Levels
  BY <1>2 DEF TaskType, Value
<1> HIDE DEF w
<1>4. PICK r : r = SetVolume(State, w)
  OBVIOUS
<1>5. /\ Extends(State, r)
      /\ IsCovered(news) => IsCovered(r.news)
      /\ IF mirror.volume = w THEN r = State ELSE HasAny(r.news, Retold) /\ IsCovered(r.news)
      /\ r.mirror.mic = mirror.mic /\ r.mirror.started = mirror.started
      /\ r.mirror.max = mirror.max /\ r.mirror.volume = w
  BY <1>3, <1>4, StateFacts, SetVolumeFacts
<1>6. /\ mirror' = r.mirror /\ news' = r.news
      /\ mirror' \in MirrorType /\ news' \in Seq(SaneNews) /\ news' \in Seq(NewsType)
      /\ NewsInv'
  BY <1>1, <1>4, <1>5, BecomesFacts
<1>7. mic \in Mics /\ hw \in [Mics -> [mute: BOOLEAN, volume: Levels]]
  BY DEF AudioInv, AudioTypeOK
<1>8. MaxOf[mic] \in 1..Whole /\ Whole \in Nat
  BY <1>7, AudioModuleAssumption
<1>9. Capped(MaxOf[mic], w) \in Levels /\ Capped(MaxOf[mic], w) <= MaxOf[mic]
  BY <1>3, <1>8 DEF Capped, Levels
<1>10. /\ hw' \in [Mics -> [mute: BOOLEAN, volume: Levels]] /\ hw'[mic].volume = Capped(MaxOf[mic], w)
       /\ hw'[mic].mute = hw[mic].mute
       /\ \A d \in Mics : d # mic => hw'[d] = hw[d]
  BY <1>1, <1>7, <1>9
<1>11. AudioTypeOK'
  <2>1. adrift' \subseteq Settings
    BY <1>1 DEF AudioInv, AudioTypeOK
  <2>2. QED  BY <1>1, <1>2, <1>6, <1>10, <2>1 DEF AudioInv, AudioTypeOK, MirrorType
<1>12. PartsInv'
  <2>1. \A d \in Mics : hw'[d].volume <= MaxOf[d]
    BY <1>9, <1>10 DEF AudioInv, PartsInv
  <2>2. QED  BY <1>1, <1>6, <2>1 DEF AudioInv, PartsInv
<1>13. Closed' = Closed /\ MuteToPost' = MuteToPost
  BY <1>1 DEF Closed, MuteToPost, Posts
<1>14. MuteInv'
  <2>1. "mute" \in adrift' <=> "mute" \in adrift
    BY <1>1
  <2>2. QED  BY <1>1, <1>2, <1>10, <1>13, <2>1 DEF AudioInv, MuteInv
<1>15. MirrorInv'
  BY <1>1, <1>5, <1>6, <1>10, <1>13 DEF AudioInv, MirrorInv
<1>16. VolumeInv'
  <2>1. CASE mirror.volume # w
    BY <1>5, <1>6, <2>1 DEF VolumeInv, Retelling
  <2>2. CASE mirror.volume = w
    <3>1. UNCHANGED <<mirror, news, adrift>>
      BY <1>1, <1>5, <1>6, <2>2, StateFacts
    <3>2. OtherVolume => OtherVolume'
      BY <1>1, <1>2, <2>2, <3>1 DEF OtherVolume, Posts
    <3>3. Retelling => Retelling'
      BY <3>1, <3>2 DEF Retelling
    <3>4. QED  BY <1>1, <1>13, <3>1, <3>3 DEF AudioInv, VolumeInv
  <2>3. QED  BY <2>1, <2>2
<1>17. QED  BY <1>6, <1>11, <1>12, <1>14, <1>15, <1>16 DEF AudioInv

LEMMA StartRecordingInv ==
  ASSUME AudioInv, StartRecording PROVE AudioInv'
<1>1. /\ ~Closed /\ recording' = TRUE /\ broken' = FALSE
      /\ Becomes(SetStarted(Update(State, mic), TRUE)) /\ starts < MaxStarts /\ starts' = starts + 1
      /\ UNCHANGED <<muted, level, range, heard, doing, holder, worker, telling, mic, hw,
                     hooked, transport, adrift, late, changes>>
  BY DEF StartRecording, WorkerIsFree, serviceVars, callbackVars
<1>2. mic \in Mics /\ hw[mic].volume \in Levels /\ hw[mic].volume <= MaxOf[mic] /\ MaxOf[mic] \in 1..Whole
  BY AudioModuleAssumption DEF AudioInv, AudioTypeOK, PartsInv
<1>3. PICK a : a = Update(State, mic)
  OBVIOUS
<1>4. PICK r : r = SetStarted(a, TRUE)
  OBVIOUS
<1>5. /\ Extends(State, a)
      /\ mirror.max = MaxOf[mic] /\ IsCovered(news) => IsCovered(a.news)
      /\ mirror.volume # hw[mic].volume => HasAny(a.news, Retold) /\ IsCovered(a.news)
      /\ a.mirror.mic = mirror.mic /\ a.mirror.started = mirror.started
      /\ a.mirror.max = MaxOf[mic] /\ a.mirror.volume = hw[mic].volume
  BY <1>2, <1>3, StateFacts, UpdateFacts DEF AudioInv
<1>6. a \in MirrorState
  BY <1>5 DEF Extends
<1>7. /\ Extends(a, r)
      /\ IsCovered(a.news) => IsCovered(r.news)
      /\ ~a.mirror.started => HasAny(r.news, Retold) /\ IsCovered(r.news)
      /\ r.mirror.mic = a.mirror.mic /\ r.mirror.started
      /\ r.mirror.max = a.mirror.max /\ r.mirror.volume = a.mirror.volume
  BY <1>4, <1>6, SetStartedFacts
<1>8. Extends(State, r)
  BY <1>5, <1>7 DEF Extends
<1>9. /\ mirror' = r.mirror /\ news' = r.news
      /\ mirror' \in MirrorType /\ news' \in Seq(SaneNews) /\ news' \in Seq(NewsType)
      /\ HasAny(news, Retold) => HasAny(news', Retold)
      /\ NewsInv'
  BY <1>1, <1>3, <1>4, <1>8, BecomesFacts
<1>10. AudioTypeOK'
  <2>1. starts' \in 0..MaxStarts
    BY <1>1, AudioModuleAssumption DEF AudioInv, AudioTypeOK
  <2>2. QED  BY <1>1, <1>9, <2>1 DEF AudioInv, AudioTypeOK, MirrorType
<1>11. PartsInv'
  BY <1>1, <1>9 DEF AudioInv, PartsInv
<1>12. MuteInv'
  BY <1>1, MuteKept DEF AudioInv
<1>13. MirrorInv'
  <2>1. hw[mic].volume = Capped(MaxOf[mic], r.mirror.volume)
    BY <1>2, <1>5, <1>7 DEF Capped, Levels
  <2>2. mirror.mic \in {Unset, mic}
    BY <1>1 DEF AudioInv, MirrorInv
  <2>3. QED  BY <1>1, <1>5, <1>7, <1>9, <2>1, <2>2 DEF MirrorInv
<1>14. VolumeInv'
  <2>1. CASE mirror.volume # hw[mic].volume \/ ~mirror.started
    <3>1. HasAny(r.news, Retold) /\ IsCovered(r.news)
      BY <1>5, <1>7, <2>1 DEF Extends
    <3>2. QED  BY <1>9, <3>1 DEF VolumeInv, Retelling
  <2>2. CASE mirror.volume = hw[mic].volume /\ mirror.started
    <3>1. mirror.max = MaxOf[mic]
      BY <1>1, <2>2 DEF AudioInv, MirrorInv
    <3>2. mirror'.max = mirror.max /\ mirror'.volume = mirror.volume
      BY <1>5, <1>7, <1>9, <2>2, <3>1
    <3>3. OtherVolume => OtherVolume'
      BY <1>1, <3>2 DEF OtherVolume, Posts
    <3>4. Retelling => Retelling'
      BY <1>9, <3>3 DEF Retelling
    <3>5. IsCovered(news) => IsCovered(news')
      BY <1>5, <1>7, <1>9, <3>1
    <3>6. QED  BY <1>1, <2>2, <3>2, <3>4, <3>5 DEF AudioInv, VolumeInv
  <2>3. QED  BY <2>1, <2>2
<1>15. QED  BY <1>9, <1>10, <1>11, <1>12, <1>13, <1>14 DEF AudioInv

LEMMA StopRecordingInv ==
  ASSUME AudioInv, StopRecording PROVE AudioInv'
<1>1. /\ ~Closed /\ recording' = FALSE /\ Becomes(SetStarted(State, FALSE))
      /\ UNCHANGED <<muted, level, range, heard, doing, holder, worker, telling, mic, hw, broken,
                     hooked, transport, adrift, late, changes, starts>>
  BY DEF StopRecording, WorkerIsFree, serviceVars, callbackVars
<1>2. PICK r : r = SetStarted(State, FALSE)
  OBVIOUS
<1>3. /\ Extends(State, r)
      /\ r.mirror.mic = mirror.mic /\ r.mirror.started = FALSE
      /\ r.mirror.max = mirror.max /\ r.mirror.volume = mirror.volume
  <2>1. PICK b : b = FALSE
    OBVIOUS
  <2>2. b \in BOOLEAN /\ r = SetStarted(State, b)
    BY <1>2, <2>1
  <2>3. /\ Extends(State, r)
        /\ r.mirror.mic = State.mirror.mic /\ r.mirror.started = b
        /\ r.mirror.max = State.mirror.max /\ r.mirror.volume = State.mirror.volume
    BY <2>2, StateFacts, SetStartedFacts
  <2>4. QED  BY <2>1, <2>3, StateFacts
<1>4. /\ mirror' = r.mirror /\ news' = r.news
      /\ mirror' \in MirrorType /\ news' \in Seq(SaneNews) /\ news' \in Seq(NewsType)
      /\ NewsInv'
  BY <1>1, <1>2, <1>3, BecomesFacts
<1>5. AudioTypeOK'
  BY <1>1, <1>4 DEF AudioInv, AudioTypeOK, MirrorType
<1>6. PartsInv'
  BY <1>1, <1>4 DEF AudioInv, PartsInv
<1>7. MuteInv'
  BY <1>1, MuteKept DEF AudioInv
<1>8. MirrorInv'
  BY <1>1, <1>3, <1>4 DEF AudioInv, MirrorInv
<1>9. VolumeInv'
  BY <1>3, <1>4 DEF VolumeInv
<1>10. QED  BY <1>4, <1>5, <1>6, <1>7, <1>8, <1>9 DEF AudioInv

LEMMA RegisterAudioCallbackInv ==
  ASSUME AudioInv, RegisterAudioCallback PROVE AudioInv'
<1>1. /\ ~Closed /\ ~Closed' /\ hooked' = FALSE /\ transport' = "idle"
      /\ UNCHANGED <<muted, level, range, heard, doing, holder, worker, news, telling, mic, recording, hw, mirror,
                     broken, adrift, late, changes, starts>>
  BY DEF RegisterAudioCallback, WorkerIsFree, Closed, serviceVars, deviceVars
<1>2. AudioTypeOK'
  BY <1>1 DEF AudioInv, AudioTypeOK
<1>3. PartsInv'
  BY <1>1 DEF AudioInv, PartsInv
<1>4. MuteToPost' = MuteToPost /\ OtherVolume' = OtherVolume /\ State' = State
  BY <1>1 DEF MuteToPost, OtherVolume, Posts, State
<1>5. MuteInv'
  BY <1>1, <1>4 DEF AudioInv, MuteInv
<1>6. NewsInv'
  <2>1. RangeTold(State)' = RangeTold(State) /\ VolumeTold(State)' = VolumeTold(State)
    BY <1>1, <1>4 DEF RangeTold, VolumeTold
  <2>2. StartTold(State)' = StartTold(State)
    BY <1>1, <1>4 DEF StartTold
  <2>3. QED  BY <1>1, <2>1, <2>2 DEF AudioInv, NewsInv, Told
<1>7. MirrorInv'
  BY <1>1 DEF AudioInv, MirrorInv
<1>8. VolumeInv'
  <2>1. Retelling' = Retelling
    BY <1>1, <1>4 DEF Retelling
  <2>2. QED  BY <1>1, <2>1 DEF AudioInv, VolumeInv
<1>9. QED  BY <1>2, <1>3, <1>5, <1>6, <1>7, <1>8 DEF AudioInv

\* The call that waited returns, and lets go of the lock.
LEMMA ReturnFacts ==
  ASSUME AudioInv, Return
  PROVE  /\ holder' = Unset /\ doing' = [u \in Threads |-> doing'[u]]
         /\ \A u \in Threads : doing'[u] \in {doing[u], Free}
         /\ \A u \in Threads, op \in Settings : Posts(u, op)' <=> Posts(u, op)
         /\ \A u \in Threads, op \in Settings : Posts(u, op) => doing'[u] = doing[u]
<1>1. doing = [u \in Threads |-> doing[u]] /\ holder \in Threads \cup {Unset}
  BY DEF AudioInv, AudioTypeOK, PartsInv
<1>2. holder' = Unset /\ doing' = [doing EXCEPT ![holder] = Free]
  BY DEF Return
<1>3. doing' = [u \in Threads |-> IF u = holder THEN Free ELSE doing[u]]
  BY <1>1, <1>2
<1>4. \A u \in Threads : doing'[u] = IF u = holder THEN Free ELSE doing[u]
  BY <1>3
<1>5. doing' = [u \in Threads |-> doing'[u]]
  BY <1>3
<1>6. ASSUME NEW u \in Threads, u = holder PROVE doing[u].step # "post" /\ doing'[u].step # "post"
  <2>1. holder # Unset
    BY <1>6, AudioModuleAssumption
  <2>2. QED  BY <1>4, <1>6, <2>1 DEF AudioInv, PartsInv, Free
<1>7. QED  BY <1>2, <1>4, <1>5, <1>6 DEF Posts

LEMMA SetCurrentDeviceFacts ==
  ASSUME AudioInv, NEW d \in Mics, NEW r, r = SetCurrentDevice(State, d)
  PROVE  /\ Extends(State, r) /\ r.mirror.mic = d /\ r.mirror.started = mirror.started
         /\ mirror.mic = d => r = State
         /\ mirror.mic # d =>
              /\ r.mirror.max = MaxOf[d] /\ r.mirror.volume = hw[d].volume
              /\ mirror.max = MaxOf[d] /\ IsCovered(news) => IsCovered(r.news)
              /\ mirror.volume # hw[d].volume => HasAny(r.news, Retold) /\ IsCovered(r.news)
<1>1. State \in MirrorState /\ State.mirror = mirror /\ State.news = news /\ AudioTypeOK
  BY StateFacts DEF AudioInv
<1>2. CASE mirror.mic = d
  BY <1>1, <1>2 DEF SetCurrentDevice, Extends
<1>3. CASE mirror.mic # d
  <2> PICK s : s = State
    OBVIOUS
  <2>1. PICK b : b = [s EXCEPT !.mirror.mic = d]
    OBVIOUS
  <2>2. /\ b \in MirrorState /\ b.news = s.news /\ b.mirror.mic = d /\ b.mirror.started = s.mirror.started
        /\ b.mirror.max = s.mirror.max /\ b.mirror.volume = s.mirror.volume
    BY <1>1, <2>1 DEF MirrorState, MirrorType
  <2>3. Told(s) => Told(b)
    BY <2>2 DEF Told, RangeTold, VolumeTold, StartTold
  <2>4. Extends(s, b)
    BY <2>2, <2>3 DEF Extends
  <2>5. r = Update(b, d)
    BY <1>1, <1>3, <2>1 DEF SetCurrentDevice
  <2>6. /\ Extends(b, r)
        /\ b.mirror.max = MaxOf[d] /\ IsCovered(b.news) => IsCovered(r.news)
        /\ b.mirror.volume # hw[d].volume => HasAny(r.news, Retold) /\ IsCovered(r.news)
        /\ r.mirror.mic = b.mirror.mic /\ r.mirror.started = b.mirror.started
        /\ r.mirror.max = MaxOf[d] /\ r.mirror.volume = hw[d].volume
    BY <1>1, <2>2, <2>5, UpdateFacts
  <2>7. Extends(s, r)
    BY <2>4, <2>6 DEF Extends
  <2>8. QED  BY <1>1, <1>3, <2>2, <2>6, <2>7
<1>4. QED  BY <1>2, <1>3

LEMMA SelectInv ==
  ASSUME AudioInv, NEW again \in BOOLEAN, Select(again) PROVE AudioInv'
<1> DEFINE d == Value
<1>1. /\ Task("select") /\ Return /\ mic' = d /\ recording' = (recording /\ again)
      /\ broken' = (broken \/ (recording /\ ~again))
      /\ Becomes(SetCurrentDevice(State, d))
      /\ adrift' = IF d = mic THEN adrift ELSE Settings
      /\ UNCHANGED <<muted, level, range, heard, telling, hw, hooked, transport, late, changes, starts>>
  BY DEF Select, serviceVars, callbackVars
<1>2. /\ worker' \in Seq(TaskType) /\ Head(worker) \in TaskType /\ Head(worker).op = "select"
      /\ HasAny(worker, {"mute"}) <=> HasAny(worker', {"mute"})
      /\ \A ops, good : EndsIn(worker, ops, good) => EndsIn(worker', ops, good)
      /\ \A v : HasOther(worker, v) <=> HasOther(worker', v)
  BY <1>1, TaskFacts
<1>3. d \in Mics
  BY <1>2 DEF TaskType, Value
<1> HIDE DEF d
<1>4. PICK r : r = SetCurrentDevice(State, d)
  OBVIOUS
<1>5. /\ Extends(State, r) /\ r.mirror.mic = d /\ r.mirror.started = mirror.started
      /\ mirror.mic = d => r = State
      /\ mirror.mic # d =>
           /\ r.mirror.max = MaxOf[d] /\ r.mirror.volume = hw[d].volume
           /\ mirror.max = MaxOf[d] /\ IsCovered(news) => IsCovered(r.news)
           /\ mirror.volume # hw[d].volume => HasAny(r.news, Retold) /\ IsCovered(r.news)
  BY <1>3, <1>4, SetCurrentDeviceFacts
<1>6. /\ mirror' = r.mirror /\ news' = r.news
      /\ mirror' \in MirrorType /\ news' \in Seq(SaneNews) /\ news' \in Seq(NewsType)
      /\ HasAny(news, Retold) => HasAny(news', Retold)
      /\ NewsInv'
  BY <1>1, <1>4, <1>5, BecomesFacts
<1>7. /\ holder' = Unset /\ doing' = [u \in Threads |-> doing'[u]]
      /\ \A u \in Threads : doing'[u] \in {doing[u], Free}
      /\ \A u \in Threads, op \in Settings : Posts(u, op)' <=> Posts(u, op)
      /\ \A u \in Threads, op \in Settings : Posts(u, op) => doing'[u] = doing[u]
  BY <1>1, ReturnFacts
<1>8. recording' \in BOOLEAN /\ broken' \in BOOLEAN
  BY <1>1
<1>9. AudioTypeOK'
  <2>1. \A u \in Threads :
          doing'[u] \in {Free, [step |-> "wait"]} \cup [step: {"post"}, op: {"mute"}, value: BOOLEAN]
                        \cup [step: {"post"}, op: {"volume"}, value: Levels]
    BY <1>7 DEF AudioInv, AudioTypeOK
  <2>2. adrift' \subseteq Settings
    BY <1>1 DEF AudioInv, AudioTypeOK
  <2>3. QED  BY <1>1, <1>2, <1>3, <1>6, <1>7, <1>8, <2>1, <2>2 DEF AudioInv, AudioTypeOK, MirrorType
<1>10. PartsInv'
  BY <1>1, <1>6, <1>7 DEF AudioInv, PartsInv
<1>11. Closed' = Closed
  BY <1>1 DEF Closed
<1>12. MuteInv'
  <2>1. MuteToPost' <=> MuteToPost
    BY <1>1, <1>7 DEF MuteToPost, Settings
  <2>2. "mute" \notin adrift' => "mute" \notin adrift /\ mic' = mic
    BY <1>1 DEF Settings
  <2>3. QED  BY <1>1, <1>2, <1>11, <2>1, <2>2 DEF AudioInv, MuteInv
<1>13. hw[d].volume = Capped(MaxOf[d], hw[d].volume)
  <2>1. hw[d].volume \in Levels /\ hw[d].volume <= MaxOf[d] /\ MaxOf[d] \in 1..Whole
    BY <1>3, AudioModuleAssumption DEF AudioInv, AudioTypeOK, PartsInv
  <2>2. QED  BY <2>1, AudioModuleAssumption DEF Capped, Levels
<1>14. Unset # d
  BY <1>3, AudioModuleAssumption
<1>15. ~broken' => ~broken /\ (recording' <=> recording)
  BY <1>1
<1>16. MirrorInv'
  <2> SUFFICES ASSUME ~Closed
               PROVE  /\ mirror'.max = MaxOf[d] /\ (~broken' => (mirror'.started <=> recording'))
                      /\ mirror'.started /\ "volume" \notin adrift' =>
                           hw[d].volume = Capped(MaxOf[d], mirror'.volume)
    BY <1>1, <1>5, <1>6, <1>11 DEF MirrorInv
  <2>1. ~broken' => (mirror'.started <=> recording')
    BY <1>5, <1>6, <1>15 DEF AudioInv, MirrorInv
  <2>2. CASE mirror.mic = d
    <3>1. d = mic
      BY <1>14, <2>2 DEF AudioInv, MirrorInv
    <3>2. mirror' = mirror /\ adrift' = adrift
      BY <1>1, <1>5, <1>6, <2>2, <3>1, StateFacts
    <3>3. QED  BY <1>14, <2>1, <2>2, <3>1, <3>2 DEF AudioInv, MirrorInv
  <2>3. CASE mirror.mic # d
    BY <1>5, <1>6, <1>13, <2>1, <2>3
  <2>4. QED  BY <2>2, <2>3
<1>17. VolumeInv'
  <2> SUFFICES ASSUME ~Closed, mirror.started, "volume" \notin adrift'
               PROVE  /\ IsCovered(news')
                      /\ Retelling' \/ Volume(level, range) = Capped(mirror'.max, mirror'.volume)
    BY <1>1, <1>5, <1>6, <1>11 DEF VolumeInv
  <2>1. d = mic /\ "volume" \notin adrift
    BY <1>1 DEF Settings
  <2>2. mirror.max = MaxOf[d]
    BY <2>1 DEF AudioInv, MirrorInv
  <2>3. CASE mirror.mic # d /\ mirror.volume # hw[d].volume
    BY <1>5, <1>6, <2>3 DEF Retelling
  <2>4. CASE mirror.mic = d \/ mirror.volume = hw[d].volume
    <3>1. mirror'.volume = mirror.volume /\ mirror'.max = mirror.max
      BY <1>5, <1>6, <2>2, <2>4, StateFacts
    <3>2. IsCovered(news) => IsCovered(news')
      BY <1>5, <1>6, <2>2, <2>4, StateFacts
    <3>3. OtherVolume => OtherVolume'
      BY <1>1, <1>2, <1>7, <3>1 DEF OtherVolume, Settings
    <3>4. Retelling => Retelling'
      BY <1>6, <3>3 DEF Retelling
    <3>5. QED  BY <2>1, <3>1, <3>2, <3>4 DEF AudioInv, VolumeInv
  <2>5. QED  BY <2>3, <2>4
<1>18. QED  BY <1>6, <1>9, <1>10, <1>12, <1>16, <1>17 DEF AudioInv

LEMMA RefuseSelectInv ==
  ASSUME AudioInv, RefuseSelect PROVE AudioInv'
<1>1. /\ Task("select") /\ Return
      /\ UNCHANGED <<muted, level, range, heard, news, telling, mic, recording, hw, mirror, broken,
                     hooked, transport, adrift, late, changes, starts>>
  BY DEF RefuseSelect, serviceVars, deviceVars, callbackVars
<1>2. /\ worker' \in Seq(TaskType)
      /\ HasAny(worker, {"mute"}) <=> HasAny(worker', {"mute"})
      /\ \A ops, good : EndsIn(worker, ops, good) => EndsIn(worker', ops, good)
      /\ \A v : HasOther(worker, v) <=> HasOther(worker', v)
  BY <1>1, TaskFacts
<1>3. /\ holder' = Unset /\ doing' = [u \in Threads |-> doing'[u]]
      /\ \A u \in Threads : doing'[u] \in {doing[u], Free}
      /\ \A u \in Threads, op \in Settings : Posts(u, op)' <=> Posts(u, op)
      /\ \A u \in Threads, op \in Settings : Posts(u, op) => doing'[u] = doing[u]
  BY <1>1, ReturnFacts
<1>4. AudioTypeOK'
  <2>1. \A u \in Threads :
          doing'[u] \in {Free, [step |-> "wait"]} \cup [step: {"post"}, op: {"mute"}, value: BOOLEAN]
                        \cup [step: {"post"}, op: {"volume"}, value: Levels]
    BY <1>3 DEF AudioInv, AudioTypeOK
  <2>2. QED  BY <1>1, <1>2, <1>3, <2>1 DEF AudioInv, AudioTypeOK
<1>5. PartsInv'
  BY <1>1, <1>3 DEF AudioInv, PartsInv
<1>6. MuteInv'
  <2>1. (MuteToPost' <=> MuteToPost) /\ Closed' = Closed
    BY <1>1, <1>3 DEF MuteToPost, Settings, Closed
  <2>2. QED  BY <1>1, <1>2, <2>1 DEF AudioInv, MuteInv
<1>7. NewsInv' /\ MirrorInv'
  BY <1>1, NewsKept, MirrorKept DEF AudioInv
<1>8. VolumeInv'
  <2>1. OtherVolume => OtherVolume'
    BY <1>1, <1>2, <1>3 DEF OtherVolume, Settings
  <2>2. Retelling => Retelling'
    BY <1>1, <2>1 DEF Retelling
  <2>3. QED  BY <1>1, <2>2 DEF AudioInv, VolumeInv, Closed
<1>9. QED  BY <1>4, <1>5, <1>6, <1>7, <1>8 DEF AudioInv

LEMMA ReleaseStep ==
  ASSUME AudioInv, Release PROVE AudioInv'
<1>1. /\ Task("release") /\ hooked' = FALSE /\ transport' = "gone" /\ recording' = FALSE
      /\ UNCHANGED <<muted, level, range, heard, doing, holder, news, telling, mic, hw, mirror, broken,
                     adrift, late, changes, starts>>
  BY DEF Release, serviceVars
<1>2. worker' \in Seq(TaskType)
  BY <1>1, TaskFacts
<1>3. AudioTypeOK'
  BY <1>1, <1>2 DEF AudioInv, AudioTypeOK
<1>4. PartsInv'
  BY <1>1 DEF AudioInv, PartsInv
<1>5. QED  BY <1>1, <1>3, <1>4, ClosedKeeps DEF AudioInv, Closed

LEMMA WorkerInv ==
  ASSUME AudioInv, Worker PROVE AudioInv'
BY RefuseSettingInv, SetMicrophoneMuteInv, SetMicrophoneVolumeInv, StartRecordingInv, StopRecordingInv,
   RegisterAudioCallbackInv, SelectInv, RefuseSelectInv, ReleaseStep DEF Worker


(***************************************************************************)
(* The signaling queue.                                                    *)
(***************************************************************************)

LEMMA DropNews ==
  ASSUME AudioInv, Drop PROVE AudioInv'
<1>1. /\ Closed /\ news # <<>> /\ news' = Tail(news)
      /\ UNCHANGED <<muted, level, range, heard, doing, holder, worker, telling, mic, recording, hw, mirror,
                     broken, hooked, transport, adrift, late, changes, starts>>
  BY DEF Drop, serviceVars, deviceVars, callbackVars
<1>2. news' \in Seq(SaneNews)
  BY <1>1, QueueTail DEF AudioInv, PartsInv
<1>3. news' \in Seq(NewsType)
  BY <1>2 DEF SaneNews
<1>4. AudioTypeOK'
  BY <1>1, <1>3 DEF AudioInv, AudioTypeOK
<1>5. PartsInv'
  BY <1>1, <1>2 DEF AudioInv, PartsInv
<1>6. Closed'
  BY <1>1 DEF Closed
<1>7. QED  BY <1>4, <1>5, <1>6, ClosedKeeps DEF AudioInv

\* The service takes its next notification.
LEMMA NewsFacts ==
  ASSUME AudioInv, NEW op, News(op)
  PROVE  /\ telling = Quiet /\ ~Closed
         /\ news' \in Seq(SaneNews) /\ news' \in Seq(NewsType)
         /\ Head(news) \in SaneNews /\ Head(news).op = op
         /\ \A ops : HasAny(news, ops) <=> op \in ops \/ HasAny(news', ops)
         /\ \A ops, good : EndsIn(news, ops, good) =>
              /\ EndsIn(news', ops, good)
              /\ op \in ops /\ ~HasAny(news', ops) => Head(news) \in good
         /\ IsCovered(news) => /\ IsCovered(news')
                               /\ op = "range" => HasAny(news', Retold)
<1>1. /\ telling = Quiet /\ ~Closed /\ news # <<>> /\ Head(news).op = op /\ news' = Tail(news)
      /\ news \in Seq(SaneNews)
  BY DEF News, AudioInv, PartsInv
<1>2. /\ Tail(news) \in Seq(SaneNews) /\ Head(news) \in SaneNews
      /\ \A ops : HasAny(news, ops) <=> Head(news).op \in ops \/ HasAny(Tail(news), ops)
      /\ \A ops, good : EndsIn(news, ops, good) =>
           /\ EndsIn(Tail(news), ops, good)
           /\ Head(news).op \in ops /\ ~HasAny(Tail(news), ops) => Head(news) \in good
      /\ IsCovered(news) => /\ IsCovered(Tail(news))
                            /\ Head(news).op = "range" => HasAny(Tail(news), Retold)
  BY <1>1, QueueTail
<1>3. news' \in Seq(NewsType)
  BY <1>1, <1>2 DEF SaneNews
<1>4. QED  BY <1>1, <1>2, <1>3

\* What is told last is still what the mirror has once it has been told.
LEMMA NewsTold ==
  ASSUME AudioInv, NEW op, News(op), UNCHANGED <<mirror, transport>>,
         IF op = "range" THEN range' = Head(news).max ELSE range' = range,
         CASE op = "stopped" -> heard' = "stopped" /\ telling' = telling
           [] op = "started" -> heard' = heard /\ telling' # Quiet
           [] OTHER -> heard' = heard /\ telling' = telling
  PROVE  NewsInv'
<1>1. /\ telling = Quiet /\ ~Closed
      /\ Head(news) \in SaneNews /\ Head(news).op = op
      /\ \A ops : HasAny(news, ops) <=> op \in ops \/ HasAny(news', ops)
      /\ \A ops, good : EndsIn(news, ops, good) =>
           /\ EndsIn(news', ops, good)
           /\ op \in ops /\ ~HasAny(news', ops) => Head(news) \in good
  BY NewsFacts
<1>2. RangeTold(State) /\ VolumeTold(State) /\ StartTold(State) /\ State.mirror = mirror /\ State.news = news
  BY <1>1, StateFacts DEF AudioInv, NewsInv, Told
<1>3. State'.mirror = mirror /\ State'.news = news'
  BY DEF State
<1>4. VolumeTold(State)'
  BY <1>1, <1>2, <1>3 DEF VolumeTold
<1>5. RangeTold(State)'
  <2>1. EndsIn(news, {"range"}, OfRange(mirror.max))
    BY <1>2 DEF RangeTold
  <2>2. EndsIn(news', {"range"}, OfRange(mirror.max))
    BY <1>1, <2>1
  <2>3. ASSUME ~HasAny(news', {"range"}) PROVE mirror.max \in {0, range'}
    <3>1. CASE op = "range"
      <4>1. Head(news) \in OfRange(mirror.max)
        BY <1>1, <2>1, <2>3, <3>1
      <4>2. QED  BY <1>1, <3>1, <4>1 DEF OfRange
    <3>2. CASE op # "range"
      <4>1. ~HasAny(news, {"range"})
        BY <1>1, <2>3, <3>2
      <4>2. QED  BY <1>2, <3>2, <4>1 DEF RangeTold
    <3>3. QED  BY <3>1, <3>2
  <2>4. QED  BY <1>3, <2>2, <2>3 DEF RangeTold
<1>6. StartTold(State)'
  <2>1. EndsIn(news, Starts, OfStart(mirror.started))
    BY <1>2 DEF StartTold
  <2>2. EndsIn(news', Starts, OfStart(mirror.started))
    BY <1>1, <2>1
  <2>3. ASSUME ~HasAny(news', Starts)
        PROVE  heard' = "started" \/ telling' # Quiet <=> mirror.started
    <3>1. CASE op \in Starts
      <4>1. Head(news) \in OfStart(mirror.started)
        BY <1>1, <2>1, <2>3, <3>1
      <4>2. op = "started" <=> mirror.started
        BY <1>1, <3>1, <4>1 DEF OfStart
      <4>3. QED  BY <1>1, <3>1, <4>2 DEF Starts
    <3>2. CASE op \notin Starts
      <4>1. ~HasAny(news, Starts)
        BY <1>1, <2>3, <3>2
      <4>2. QED  BY <1>2, <3>2, <4>1 DEF StartTold, Starts
    <3>3. QED  BY <3>1, <3>2
  <2>4. QED  BY <1>3, <2>2, <2>3 DEF StartTold
<1>7. QED  BY <1>4, <1>5, <1>6 DEF NewsInv, Told

\* The last notification of a volume or a start finds the service with the range it is for.
LEMMA LastNews ==
  ASSUME AudioInv, NEW op, News(op), op # "range", mirror.started, "volume" \notin adrift,
         ~HasAny(news', Retold)
  PROVE  range = mirror.max /\ Divides(range)
<1>1. /\ ~Closed
      /\ \A ops : HasAny(news, ops) <=> op \in ops \/ HasAny(news', ops)
      /\ IsCovered(news) => IsCovered(news')
  BY NewsFacts
<1>2. IsCovered(news')
  BY <1>1 DEF AudioInv, VolumeInv
<1>3. ~HasAny(news', {"range"})
  BY <1>2 DEF IsCovered, HasAny
<1>4. mirror.max \in {0, range}
  BY <1>1, <1>3 DEF AudioInv, NewsInv, Told, RangeTold, State
<1>5. mirror.max = MaxOf[mic] /\ MaxOf[mic] \in 1..Whole
  BY <1>1, AudioModuleAssumption DEF AudioInv, MirrorInv, AudioTypeOK
<1>6. QED  BY <1>4, <1>5, AudioModuleAssumption DEF AudioInv, PartsInv

LEMMA OnVolumeChangedInv ==
  ASSUME AudioInv, OnVolumeChanged PROVE AudioInv'
<1>1. /\ News("volume") /\ level' = Level(Head(news).volume, range)
      /\ UNCHANGED <<muted, range, heard, doing, holder, worker, telling, mic, recording, hw, mirror, broken,
                     hooked, transport, adrift, late, changes, starts>>
  BY DEF OnVolumeChanged, deviceVars, callbackVars
<1>2. /\ ~Closed /\ news' \in Seq(SaneNews) /\ news' \in Seq(NewsType)
      /\ Head(news) \in SaneNews /\ Head(news).op = "volume"
      /\ \A ops, good : EndsIn(news, ops, good) =>
           ("volume" \in ops /\ ~HasAny(news', ops) => Head(news) \in good)
      /\ IsCovered(news) => IsCovered(news')
  BY <1>1, NewsFacts
<1> DEFINE v == Head(news).volume
<1>3. v \in Levels
  BY <1>2 DEF SaneNews, NewsType
<1>4. Level(v, range) \in Levels /\ Volume(Level(v, range), range) = Capped(range, v)
  BY <1>3, VolumeFacts DEF AudioInv, PartsInv
<1>5. AudioTypeOK'
  BY <1>1, <1>2, <1>4 DEF AudioInv, AudioTypeOK
<1>6. PartsInv'
  BY <1>1, <1>2 DEF AudioInv, PartsInv
<1>7. MuteInv' /\ MirrorInv'
  BY <1>1, MuteKept, MirrorKept DEF AudioInv
<1>8. NewsInv'
  BY <1>1, NewsTold
<1>9. VolumeInv'
  <2> SUFFICES ASSUME mirror.started, "volume" \notin adrift
               PROVE  IsCovered(news') /\ (Retelling' \/ Volume(level', range) = Capped(mirror.max, mirror.volume))
    BY <1>1 DEF VolumeInv
  <2>1. IsCovered(news')
    BY <1>2 DEF AudioInv, VolumeInv
  <2>2. CASE ~HasAny(news', Retold)
    <3>1. range = mirror.max
      BY <1>1, <2>2, LastNews
    <3>2. EndsIn(news, {"volume"}, OfVolume(mirror.volume)) /\ ~HasAny(news', {"volume"})
      BY <1>2, <2>2 DEF AudioInv, NewsInv, Told, VolumeTold, State, HasAny, Retold
    <3>3. v = mirror.volume
      BY <1>2, <3>2 DEF OfVolume
    <3>4. QED  BY <1>1, <1>4, <2>1, <3>1, <3>3
  <2>3. QED  BY <2>1, <2>2 DEF Retelling
<1>10. QED  BY <1>5, <1>6, <1>7, <1>8, <1>9 DEF AudioInv

LEMMA OnMinMaxVolumeChangedInv ==
  ASSUME AudioInv, OnMinMaxVolumeChanged PROVE AudioInv'
<1>1. /\ News("range") /\ range' = Head(news).max
      /\ UNCHANGED <<muted, level, heard, doing, holder, worker, telling, mic, recording, hw, mirror, broken,
                     hooked, transport, adrift, late, changes, starts>>
  BY DEF OnMinMaxVolumeChanged, deviceVars, callbackVars
<1>2. /\ ~Closed /\ news' \in Seq(SaneNews) /\ news' \in Seq(NewsType)
      /\ Head(news) \in SaneNews /\ Head(news).op = "range"
      /\ IsCovered(news) => IsCovered(news') /\ HasAny(news', Retold)
  BY <1>1, NewsFacts
<1>3. Divides(range')
  BY <1>1, <1>2 DEF SaneNews
<1>4. AudioTypeOK'
  BY <1>1, <1>2, <1>3 DEF AudioInv, AudioTypeOK, Divides
<1>5. PartsInv'
  BY <1>1, <1>2, <1>3 DEF AudioInv, PartsInv
<1>6. MuteInv' /\ MirrorInv'
  BY <1>1, MuteKept, MirrorKept DEF AudioInv
<1>7. NewsInv'
  BY <1>1, NewsTold
<1>8. VolumeInv'
  BY <1>1, <1>2 DEF AudioInv, VolumeInv, Retelling
<1>9. QED  BY <1>4, <1>5, <1>6, <1>7, <1>8 DEF AudioInv

\* News that leave the volume of the service alone.
LEMMA PassedNewsInv ==
  ASSUME AudioInv, NEW op \in {"mute", "stopped"}, News(op), heard' = IF op = "mute" THEN heard ELSE "stopped",
         UNCHANGED <<muted, level, range, doing, holder, worker, telling, mic, recording, hw, mirror, broken,
                     hooked, transport, adrift, late, changes, starts>>
  PROVE  AudioInv'
<1>1. /\ ~Closed /\ news' \in Seq(SaneNews) /\ news' \in Seq(NewsType)
      /\ \A ops : HasAny(news, ops) <=> op \in ops \/ HasAny(news', ops)
      /\ IsCovered(news) => IsCovered(news')
  BY NewsFacts
<1>2. AudioTypeOK'
  BY <1>1 DEF AudioInv, AudioTypeOK
<1>3. PartsInv'
  BY <1>1 DEF AudioInv, PartsInv
<1>4. MuteInv' /\ MirrorInv'
  BY MuteKept, MirrorKept DEF AudioInv
<1>5. NewsInv'
  BY NewsTold
<1>6. VolumeInv'
  <2>1. OtherVolume' = OtherVolume /\ Closed' = Closed
    BY DEF OtherVolume, Posts, Closed
  <2>2. Retelling => Retelling'
    BY <1>1, <2>1 DEF Retelling, Retold
  <2>3. QED  BY <1>1, <2>1, <2>2 DEF AudioInv, VolumeInv
<1>7. QED  BY <1>2, <1>3, <1>4, <1>5, <1>6 DEF AudioInv

LEMMA OnStartedInv ==
  ASSUME AudioInv, OnStarted PROVE AudioInv'
<1> DEFINE v == Volume(level, range)
<1>1. /\ News("started") /\ telling' = [step |-> "volume", value |-> v]
      /\ UNCHANGED <<muted, level, range, heard, doing, holder, worker, mic, recording, hw, mirror, broken,
                     hooked, transport, adrift, late, changes, starts>>
  BY DEF OnStarted, serviceVars, deviceVars, callbackVars
<1>2. /\ ~Closed /\ telling = Quiet /\ news' \in Seq(SaneNews) /\ news' \in Seq(NewsType)
      /\ IsCovered(news) => IsCovered(news')
  BY <1>1, NewsFacts
<1>3. v \in 0..range /\ v \in Levels
  BY VolumeFacts DEF AudioInv, AudioTypeOK, PartsInv
<1> HIDE DEF v
<1>4. telling'.step = "volume" /\ telling'.value = v /\ telling.step = "idle" /\ telling' # Quiet
  BY <1>1, <1>2 DEF Quiet
<1>5. AudioTypeOK'
  BY <1>1, <1>2, <1>3 DEF AudioInv, AudioTypeOK
<1>6. PartsInv'
  BY <1>1, <1>2 DEF AudioInv, PartsInv
<1>7. MuteInv'
  <2>1. MuteToPost' = MuteToPost /\ Closed' = Closed
    BY <1>1, <1>4 DEF MuteToPost, Posts, Closed
  <2>2. QED  BY <1>1, <2>1 DEF AudioInv, MuteInv
<1>8. MirrorInv'
  BY <1>1, MirrorKept DEF AudioInv
<1>9. NewsInv'
  BY <1>1, <1>4, NewsTold
<1>10. VolumeInv'
  <2> SUFFICES ASSUME mirror.started, "volume" \notin adrift
               PROVE  IsCovered(news') /\ (Retelling' \/ v = Capped(mirror.max, mirror.volume))
    BY <1>1 DEF VolumeInv, v
  <2>1. IsCovered(news')
    BY <1>2 DEF AudioInv, VolumeInv
  <2>2. CASE ~HasAny(news', Retold) /\ v = mirror.volume
    <3>1. range = mirror.max /\ range \in Nat
      BY <1>1, <2>2, LastNews, AudioModuleAssumption DEF Divides
    <3>2. QED  BY <1>3, <2>1, <2>2, <3>1 DEF Capped
  <2>3. CASE v # mirror.volume
    <3>1. OtherVolume'
      BY <1>1, <1>4, <2>3 DEF OtherVolume
    <3>2. QED  BY <2>1, <3>1 DEF Retelling
  <2>4. QED  BY <2>1, <2>2, <2>3 DEF Retelling
<1>11. QED  BY <1>5, <1>6, <1>7, <1>8, <1>9, <1>10 DEF AudioInv

LEMMA UpdateRecordingVolumeInv ==
  ASSUME AudioInv, UpdateRecordingVolume PROVE AudioInv'
<1> DEFINE c == [op |-> "volume", value |-> telling.value]
<1>1. /\ telling.step = "volume" /\ telling' = [step |-> "mute", value |-> muted]
      /\ worker' = IF Closed THEN worker ELSE Append(worker, c)
      /\ UNCHANGED <<muted, level, range, heard, doing, holder, news, mic, recording, hw, mirror, broken,
                     hooked, transport, adrift, late, changes, starts>>
  BY DEF UpdateRecordingVolume, serviceVars, deviceVars, callbackVars
<1>2. telling \in [step: {"volume"}, value: Levels] /\ muted \in BOOLEAN /\ worker \in Seq(TaskType)
  BY <1>1 DEF AudioInv, AudioTypeOK, Quiet
<1>3. c \in TaskType /\ c.op = "volume" /\ c.value = telling.value
  BY <1>2 DEF TaskType
<1> HIDE DEF c
<1>4. /\ Append(worker, c) \in Seq(TaskType)
      /\ \A w : HasOther(Append(worker, c), w) <=> HasOther(worker, w) \/ c.value # w
  BY <1>2, <1>3, QueueAppend
<1>5. telling'.step = "mute" /\ telling # Quiet /\ telling' # Quiet
  BY <1>1 DEF Quiet
<1>6. AudioTypeOK'
  <2>1. worker' \in Seq(TaskType)
    BY <1>1, <1>2, <1>4
  <2>2. telling' \in [step: {"mute"}, value: BOOLEAN]
    BY <1>1, <1>2
  <2>3. QED  BY <1>1, <2>1, <2>2 DEF AudioInv, AudioTypeOK
<1>7. PartsInv'
  BY <1>1 DEF AudioInv, PartsInv
<1>8. CASE Closed
  <2>1. Closed'
    BY <1>1, <1>8 DEF Closed
  <2>2. QED  BY <1>6, <1>7, <2>1, ClosedKeeps DEF AudioInv
<1>9. CASE ~Closed
  <2>1. MuteInv'
    BY <1>5 DEF MuteInv, MuteToPost
  <2>2. NewsInv'
    <3>1. State' = State
      BY <1>1 DEF State
    <3>2. RangeTold(State)' = RangeTold(State) /\ VolumeTold(State)' = VolumeTold(State)
      BY <1>1, <3>1 DEF RangeTold, VolumeTold
    <3>3. StartTold(State) => StartTold(State)'
      BY <1>1, <1>5, <3>1 DEF StartTold
    <3>4. QED  BY <1>9, <3>2, <3>3 DEF AudioInv, NewsInv, Told
  <2>3. MirrorInv'
    BY <1>1, MirrorKept DEF AudioInv
  <2>4. VolumeInv'
    <3>1. OtherVolume => OtherVolume'
      BY <1>1, <1>3, <1>4, <1>9 DEF OtherVolume, Posts
    <3>2. Retelling => Retelling'
      BY <1>1, <3>1 DEF Retelling
    <3>3. QED  BY <1>1, <1>9, <3>2 DEF AudioInv, VolumeInv
  <2>5. QED  BY <1>6, <1>7, <2>1, <2>2, <2>3, <2>4 DEF AudioInv
<1>10. QED  BY <1>8, <1>9

LEMMA UpdateRecordingMuteInv ==
  ASSUME AudioInv, UpdateRecordingMute PROVE AudioInv'
<1> DEFINE c == [op |-> "mute", value |-> telling.value]
<1>1. /\ telling.step = "mute" /\ telling' = Quiet /\ heard' = "started"
      /\ worker' = IF Closed THEN worker ELSE Append(worker, c)
      /\ late' = (telling.value # muted)
      /\ UNCHANGED <<muted, level, range, doing, holder, news, mic, recording, hw, mirror, broken,
                     hooked, transport, adrift, changes, starts>>
  BY DEF UpdateRecordingMute, Late, deviceVars, callbackVars
<1>2. telling \in [step: {"mute"}, value: BOOLEAN] /\ worker \in Seq(TaskType)
  BY <1>1 DEF AudioInv, AudioTypeOK, Quiet
<1>3. c \in TaskType /\ c.op = "mute" /\ c.value = telling.value
  BY <1>2 DEF TaskType
<1> HIDE DEF c
<1>4. /\ Append(worker, c) \in Seq(TaskType)
      /\ HasAny(Append(worker, c), {"mute"})
      /\ \A good : c \in good => EndsIn(Append(worker, c), {"mute"}, good)
      /\ \A w : HasOther(Append(worker, c), w) <=> HasOther(worker, w)
  BY <1>2, <1>3, QueueAppend
<1>5. AudioTypeOK'
  <2>1. worker' \in Seq(TaskType)
    BY <1>1, <1>2, <1>4
  <2>2. late' \in BOOLEAN
    BY <1>1
  <2>3. QED  BY <1>1, <2>1, <2>2 DEF AudioInv, AudioTypeOK
<1>6. PartsInv'
  BY <1>1 DEF AudioInv, PartsInv
<1>7. CASE Closed
  <2>1. Closed'
    BY <1>1, <1>7 DEF Closed
  <2>2. QED  BY <1>5, <1>6, <2>1, ClosedKeeps DEF AudioInv
<1>8. CASE ~Closed
  <2>1. MuteInv'
    <3>1. ASSUME ~late' PROVE c \in OfMute(muted)
      BY <1>1, <1>3, <3>1 DEF OfMute
    <3>2. QED  BY <1>1, <1>4, <1>8, <3>1 DEF MuteInv
  <2>2. NewsInv'
    <3>1. State' = State /\ telling # Quiet
      BY <1>1 DEF State, Quiet
    <3>2. RangeTold(State)' = RangeTold(State) /\ VolumeTold(State)' = VolumeTold(State)
      BY <1>1, <3>1 DEF RangeTold, VolumeTold
    <3>3. StartTold(State) => StartTold(State)'
      BY <1>1, <3>1 DEF StartTold
    <3>4. QED  BY <1>8, <3>2, <3>3 DEF AudioInv, NewsInv, Told
  <2>3. MirrorInv'
    BY <1>1, MirrorKept DEF AudioInv
  <2>4. VolumeInv'
    <3>1. OtherVolume => OtherVolume'
      BY <1>1, <1>4, <1>8 DEF OtherVolume, Posts
    <3>2. Retelling => Retelling'
      BY <1>1, <3>1 DEF Retelling
    <3>3. QED  BY <1>1, <1>8, <3>2 DEF AudioInv, VolumeInv
  <2>5. QED  BY <1>5, <1>6, <2>1, <2>2, <2>3, <2>4 DEF AudioInv
<1>9. QED  BY <1>7, <1>8

LEMMA SignalingInv ==
  ASSUME AudioInv, Signaling PROVE AudioInv'
<1>1. OnMuteChanged \/ OnStopped => AudioInv'
  BY PassedNewsInv DEF OnMuteChanged, OnStopped, serviceVars, deviceVars, callbackVars
<1>2. QED
  BY <1>1, DropNews, OnVolumeChangedInv, OnMinMaxVolumeChangedInv, OnStartedInv, UpdateRecordingVolumeInv,
     UpdateRecordingMuteInv DEF Signaling

(***************************************************************************)
(* The theorems of the microphone.                                         *)
(***************************************************************************)

LEMMA EmptyFacts ==
  /\ \A ops : ~HasAny(<<>>, ops)
  /\ \A ops, good : EndsIn(<<>>, ops, good)
  /\ \A v : ~HasOther(<<>>, v)
BY DEF HasAny, EndsIn, HasOther

LEMMA AudioInitInv == AudioInit => AudioInv
<1> SUFFICES ASSUME AudioInit PROVE AudioInv
  OBVIOUS
<1>1. PICK m \in [Mics -> BOOLEAN] : hw = [d \in Mics |-> [mute |-> m[d], volume |-> MaxOf[d]]]
  BY DEF AudioInit
<1>2. /\ hw \in [Mics -> [mute: BOOLEAN, volume: Levels]]
      /\ \A d \in Mics : hw[d].volume <= MaxOf[d]
  BY <1>1, AudioModuleAssumption DEF Levels
<1>3. /\ mirror.mic = Unset /\ mirror.started = FALSE /\ mirror.max = 0
      /\ mirror \in MirrorType
  BY AudioModuleAssumption DEF AudioInit, MirrorType, Levels
<1>4. news = <<>> /\ worker = <<>> /\ telling = Quiet
  BY DEF AudioInit
<1>5. AudioTypeOK
  <2>1. \A t \in Threads : doing[t] = Free
    BY DEF AudioInit
  <2>2. level \in Levels /\ range \in 1..Whole /\ mic \in Mics /\ changes \in 0..MaxChanges /\ starts \in 0..MaxStarts
    BY AudioModuleAssumption DEF AudioInit, Levels
  <2>3. worker \in Seq(TaskType) /\ news \in Seq(NewsType)
    BY <1>4
  <2>4. QED  BY <1>2, <1>3, <2>1, <2>2, <2>3 DEF AudioInit, AudioTypeOK, MirrorType
<1>6. PartsInv
  <2>1. Divides(range)
    BY AudioModuleAssumption DEF AudioInit, Divides
  <2>2. news \in Seq(SaneNews)
    BY <1>4
  <2>3. QED  BY <1>2, <2>1, <2>2 DEF AudioInit, PartsInv
<1>7. MuteInv
  BY <1>4, EmptyFacts DEF AudioInit, MuteInv, Settings
<1>8. NewsInv
  <2>1. State.mirror = mirror /\ State.news = news
    BY DEF State
  <2>2. QED  BY <1>3, <1>4, <2>1, EmptyFacts DEF AudioInit, NewsInv, Told, RangeTold, VolumeTold, StartTold
<1>9. MirrorInv /\ VolumeInv
  BY <1>3 DEF AudioInit, MirrorInv, VolumeInv
<1>10. QED  BY <1>5, <1>6, <1>7, <1>8, <1>9 DEF AudioInv

LEMMA AudioStepInv == AudioInv /\ [AudioNext]_audioVars => AudioInv'
<1> SUFFICES ASSUME AudioInv, [AudioNext]_audioVars PROVE AudioInv'
  OBVIOUS
<1>1. CASE \E t \in Threads : User(t)
  BY <1>1, UserInv
<1>2. CASE Worker
  BY <1>2, WorkerInv
<1>3. CASE Signaling
  BY <1>3, SignalingInv
<1>4. CASE UNCHANGED audioVars
  <2>1. UNCHANGED <<muted, level, range, heard, doing, holder, worker, news, telling, mic, recording, hw, mirror,
                    broken, hooked, transport, adrift, late, changes, starts>>
    BY <1>4 DEF audioVars, serviceVars, deviceVars, callbackVars
  <2>2. AudioTypeOK'
    BY <2>1 DEF AudioInv, AudioTypeOK
  <2>3. PartsInv'
    BY <2>1 DEF AudioInv, PartsInv
  <2>4. QED  BY <2>1, <2>2, <2>3, MuteKept, NewsKept, MirrorKept, VolumeKept DEF AudioInv
<1>5. QED  BY <1>1, <1>2, <1>3, <1>4 DEF AudioNext

LEMMA AudioInvariant == AudioSpec => []AudioInv
<1>1. QED  BY AudioInitInv, AudioStepInv, PTL DEF AudioSpec

\* Service::Impl, AdmProxy and AdmProxyState: whatever number of threads sets mute, volume
\* and device while WebRTC starts and stops recording, once everything posted is done the
\* device has the mute of the service, the service shows the volume of the device, and the
\* application has heard whether the device records.
THEOREM AudioAgrees == AudioSpec => []AgreedAtRest
<1>1. AudioInv => AgreedAtRest
  <2> SUFFICES ASSUME AudioInv, AtEase PROVE AgreedAtRest
    BY DEF AgreedAtRest, MuteIsApplied, VolumeIsTold, RecordingIsTold
  <2>1. /\ ~Closed /\ worker = <<>> /\ news = <<>> /\ telling = Quiet
        /\ \A t \in Threads : doing[t].step = "idle"
    BY DEF AtEase, Free
  <2>2. telling.step = "idle"
    BY <2>1 DEF Quiet
  <2>3. MuteIsApplied
    <3>1. ~MuteToPost
      BY <2>1, <2>2 DEF MuteToPost, Posts
    <3>2. QED  BY <2>1, <3>1, EmptyFacts DEF MuteIsApplied, AudioInv, MuteInv
  <2>4. VolumeIsTold
    <3>1. ~Retelling
      BY <2>1, <2>2, EmptyFacts DEF Retelling, OtherVolume, Posts
    <3>2. QED  BY <2>1, <3>1 DEF VolumeIsTold, AudioInv, VolumeInv, MirrorInv
  <2>5. RecordingIsTold
    <3>1. heard = "started" <=> mirror.started
      BY <2>1, StateFacts, EmptyFacts DEF AudioInv, NewsInv, Told, StartTold
    <3>2. QED  BY <2>1, <3>1 DEF RecordingIsTold, AudioInv, MirrorInv
  <2>6. QED  BY <2>3, <2>4, <2>5 DEF AgreedAtRest
<1>2. QED  BY <1>1, AudioInvariant, PTL

\* AdmProxy::close and AdmProxyTransport: whatever the threads do, the device gives its
\* callback back before the transport goes, so it never calls one that is gone.
THEOREM CallbackStaysAlive == AudioSpec => []CallbackIsAlive
<1>1. AudioInit => CallbackIsAlive
  BY DEF AudioInit, CallbackIsAlive
<1>2. CallbackIsAlive /\ [AudioNext]_audioVars => CallbackIsAlive'
  <2> SUFFICES ASSUME CallbackIsAlive, [AudioNext]_audioVars PROVE CallbackIsAlive'
    OBVIOUS
  <2>1. ASSUME UNCHANGED callbackVars PROVE CallbackIsAlive'
    BY <2>1 DEF CallbackIsAlive, callbackVars
  <2>2. CASE \E t \in Threads : User(t)
    <3> PICK t \in Threads : User(t)
      BY <2>2
    <3>1. CASE Close(t)
      BY <3>1 DEF Close, CallbackIsAlive
    <3>2. CASE ~Close(t)
      BY <2>1, <3>2 DEF User, SetRecordingMute, SetRecordingAudioVolume, PostAdmTask, SetAudioRecordingDevice
    <3>3. QED  BY <3>1, <3>2
  <2>3. CASE RegisterAudioCallback \/ Release
    BY <2>3 DEF RegisterAudioCallback, Release, CallbackIsAlive
  <2>4. CASE Worker /\ ~(RegisterAudioCallback \/ Release)
    BY <2>1, <2>4 DEF Worker, RefuseSetting, SetMicrophoneMute, SetMicrophoneVolume, StartRecording,
       StopRecording, Select, RefuseSelect
  <2>5. CASE Signaling
    BY <2>1, <2>5 DEF Signaling, Drop, OnVolumeChanged, OnMinMaxVolumeChanged, OnMuteChanged, OnStopped, OnStarted,
       UpdateRecordingVolume, UpdateRecordingMute
  <2>6. CASE UNCHANGED audioVars
    BY <2>1, <2>6 DEF audioVars
  <2>7. QED  BY <2>2, <2>3, <2>4, <2>5, <2>6 DEF AudioNext, Worker
<1>3. QED  BY <1>1, <1>2, PTL DEF AudioSpec

(***************************************************************************)
(* ScreenSource: the invariant.                                            *)
(***************************************************************************)

\* The step of a plan at a place, and what may follow a step; at the end there is "rest".
StepAt(q, i) == IF i \in DOMAIN q THEN q[i] ELSE "rest"
After(op) ==
  IF op \in {"reset", "drop"} THEN {"rest", "request", "end"}
  ELSE IF op \in {"stop", "stopped"} THEN {"drop", "switch"}
  ELSE IF op = "stopping" THEN {"drop", "switch", "stopBase"}
  ELSE IF op \in {"stopBase", "silence"} THEN {"stopped", "drop", "switch"}
  ELSE {"rest"}
Chained(q) == \A i \in DOMAIN q : StepAt(q, i + 1) \in After(q[i])
Plans(q, op) == \E i \in DOMAIN q : q[i] = op
First == StepAt(todo, 1)

Lives == phase \in {"Starting", "Started"}

\* A task goes through its steps in order; each finds the capturer it is for.
PlanInv ==
  /\ Chained(todo)
  /\ Plans(todo, "end") \/ capturing.at = "closing" => ~sharing
  /\ held = "none" => First \in {"rest", "reset", "request", "end", "create"}
  /\ First = "create" => held = "none"
  /\ First \in {"stopBase", "silence", "stopped"} => Timed
  /\ First = "stopping" => Kind # "cg" /\ (StepAt(todo, 2) = "stopBase" <=> Kind = "webrtc")

\* A capturer that is gone leaves nothing behind but its own end.
OnlyEnds == tasks = <<>> \/ (tasks = <<"end">> /\ platform # "mac")
NoneInv ==
  /\ held = "none" =>
       /\ phase = "Stopped" /\ selected = "nothing" /\ ~ticking /\ ~listening /\ beats = NoBeats
       /\ replies = <<>> /\ capturing = NotCapturing
  /\ Kind # "webrtc" => OnlyEnds
  /\ Kind \in {"none", "cg"} /\ running => tasks # <<>>
  /\ replies # <<>> => Kind = "sck"

\* A capturer nobody wants is to be taken away, and one that is wanted is made after that.
WantInv ==
  /\ ~ScreenWanted /\ (held # "none" \/ First = "create") =>
       Has(asked, "reset") \/ Plans(todo, "reset") \/ Plans(todo, "drop") \/ capturing.at = "closing"
  /\ ScreenWanted =>
       /\ ResetsAreAnswered(asked)
       /\ Plans(todo, "reset") \/ Plans(todo, "drop") \/ (held = "none" /\ First # "create") =>
            Plans(todo, "request") \/ Has(asked, "request")

\* A timer that runs has a callback, and a task that is to call it.
TimerInv ==
  /\ ticking \/ First = "retime" => listening /\ Timed
  /\ capturing.at = "tick" => Timed
  /\ ticking => beats # NoBeats \/ capturing.at \in {"tick", "repost"}

\* A capturer is up as long as its timer runs, but in the midst of a task.
TimedInv ==
  sharing /\ ~slipped /\ Timed =>
    /\ First = "stopBase" => ticking /\ phase # "Stopped"
    /\ First = "silence" => ticking /\ phase = "Stopped"
    /\ First = "retime" => ~ticking /\ Lives
    /\ First = "stopping" => ticking /\ Lives
    /\ First \notin {"stopBase", "silence", "retime", "stopping"} => phase # "Stopping" /\ (ticking <=> Lives)
    /\ First \in {"stopped", "switch", "drop", "start", "begin"} => ~ticking

\* What captures will do so when its tasks are done.
WillRun(q, b) ==
  IF \A i \in DOMAIN q : q[i] = "capture" THEN b
  ELSE \E i \in DOMAIN q : q[i] = "begin" /\ \A j \in DOMAIN q : j > i => q[j] = "capture"
RunInv ==
  sharing /\ ~slipped =>
    /\ Kind = "webrtc" /\ Lives => WillRun(tasks, running)
    /\ Kind = "sck" => /\ running => Lives
                       /\ Lives => running \/ capturing.at = "error"
                       /\ First = "begin" => ~Lives

\* The source of the capturer is the one that was chosen, or it is being replaced.
ChosenInv ==
  /\ First \in {"start", "begin"} => held = TypeOf(device)
  /\ First = "begin" => selected = device
  /\ First \in {"rest", "request", "retime"} /\ held # "none" /\ sharing /\ ~slipped /\ ~unstarted =>
       Has(asked, "reset") \/ (held = TypeOf(device) /\ selected = device /\ Lives)

ScreenInv ==
  /\ ScreenTypeOK /\ PlanInv /\ NoneInv /\ WantInv /\ TimerInv /\ TimedInv /\ RunInv /\ ChosenInv

(***************************************************************************)
(* Plans.                                                                  *)
(***************************************************************************)

\* A step before the rest of a plan.
LEMMA StepFacts ==
  ASSUME NEW t \in Seq(StepNames), NEW a \in StepNames
  PROVE  LET q == <<a>> \o t IN
         /\ q \in Seq(StepNames) /\ q # <<>>
         /\ StepAt(q, 1) = a /\ StepAt(q, 2) = StepAt(t, 1)
         /\ Chained(t) /\ StepAt(t, 1) \in After(a) => Chained(q)
         /\ \A x : Plans(q, x) <=> x = a \/ Plans(t, x)
<1> DEFINE q == <<a>> \o t
<1>1. /\ q \in Seq(StepNames) /\ Len(q) = Len(t) + 1 /\ Len(t) \in Nat
      /\ DOMAIN q = 1..(Len(t) + 1) /\ DOMAIN t = 1..Len(t)
      /\ q[1] = a /\ \A i \in 1..Len(t) : q[i + 1] = t[i]
  OBVIOUS
<1> HIDE DEF q
<1>2. StepAt(q, 1) = a
  BY <1>1 DEF StepAt
<1>3. \A i \in DOMAIN t : i + 1 \in DOMAIN q /\ q[i + 1] = t[i]
  BY <1>1
<1>4. ASSUME NEW i \in Nat \ {0} PROVE StepAt(q, i + 1) = StepAt(t, i)
  BY <1>1, <1>3 DEF StepAt
<1>5. ASSUME NEW i \in DOMAIN q, i # 1 PROVE i - 1 \in DOMAIN t /\ q[i] = t[i - 1] /\ i - 1 \in Nat \ {0}
  <2>1. i \in 1..(Len(t) + 1)
    BY <1>1
  <2>2. i - 1 \in 1..Len(t) /\ (i - 1) + 1 = i
    BY <1>1, <1>5, <2>1
  <2>3. QED  BY <1>1, <2>2
<1>6. StepAt(q, 2) = StepAt(t, 1)
  BY <1>4
<1>7. ASSUME Chained(t), StepAt(t, 1) \in After(a) PROVE Chained(q)
  <2> SUFFICES ASSUME NEW i \in DOMAIN q PROVE StepAt(q, i + 1) \in After(q[i])
    BY DEF Chained
  <2>1. CASE i = 1
    BY <1>1, <1>6, <1>7, <2>1
  <2>2. CASE i # 1
    <3>1. i - 1 \in DOMAIN t /\ q[i] = t[i - 1] /\ i - 1 \in Nat \ {0}
      BY <1>5, <2>2
    <3>2. StepAt(t, (i - 1) + 1) \in After(t[i - 1])
      BY <1>7, <3>1 DEF Chained
    <3>3. i - 1 + 1 = i /\ i \in Nat \ {0}
      BY <3>1, <1>1
    <3>4. StepAt(q, i + 1) = StepAt(t, i)
      BY <1>4, <3>3
    <3>5. QED  BY <3>1, <3>2, <3>3, <3>4
  <2>3. QED  BY <2>1, <2>2
<1>8. ASSUME NEW x PROVE Plans(q, x) <=> x = a \/ Plans(t, x)
  <2>1. Plans(q, x) => x = a \/ Plans(t, x)
    BY <1>1, <1>5 DEF Plans
  <2>2. x = a => Plans(q, x)
    BY <1>1 DEF Plans
  <2>3. Plans(t, x) => Plans(q, x)
    BY <1>3 DEF Plans
  <2>4. QED  BY <2>1, <2>2, <2>3
<1>9. q # <<>>
  BY <1>1
<1>10. QED  BY <1>1, <1>2, <1>6, <1>7, <1>8, <1>9 DEF q

\* The rest of a plan.
LEMMA RestFacts ==
  ASSUME NEW q \in Seq(StepNames), q # <<>>
  PROVE  LET t == Tail(q) IN
         /\ t \in Seq(StepNames) /\ Head(q) \in StepNames /\ Head(q) = StepAt(q, 1)
         /\ StepAt(t, 1) = StepAt(q, 2)
         /\ Chained(q) => Chained(t) /\ StepAt(t, 1) \in After(Head(q))
         /\ \A x : Plans(q, x) <=> x = Head(q) \/ Plans(t, x)
         /\ <<>> \o t = t
<1> DEFINE t == Tail(q)
<1>1. /\ t \in Seq(StepNames) /\ Head(q) \in StepNames /\ Head(q) = q[1] /\ Len(q) = Len(t) + 1 /\ Len(t) \in Nat
      /\ DOMAIN q = 1..(Len(t) + 1) /\ DOMAIN t = 1..Len(t)
      /\ \A i \in 1..Len(t) : t[i] = q[i + 1]
      /\ <<>> \o t = t
  OBVIOUS
<1> HIDE DEF t
<1>2. StepAt(q, 1) = Head(q)
  BY <1>1 DEF StepAt
<1>3. \A i \in DOMAIN t : i + 1 \in DOMAIN q /\ q[i + 1] = t[i]
  BY <1>1
<1>4. ASSUME NEW i \in Nat \ {0} PROVE StepAt(q, i + 1) = StepAt(t, i)
  BY <1>1, <1>3 DEF StepAt
<1>5. ASSUME NEW i \in DOMAIN q, i # 1 PROVE i - 1 \in DOMAIN t /\ q[i] = t[i - 1] /\ i - 1 \in Nat \ {0}
  <2>1. i \in 1..(Len(t) + 1)
    BY <1>1
  <2>2. i - 1 \in 1..Len(t) /\ (i - 1) + 1 = i
    BY <1>1, <1>5, <2>1
  <2>3. QED  BY <1>1, <2>2
<1>6. StepAt(q, 2) = StepAt(t, 1)
  BY <1>4
<1>7. ASSUME Chained(q) PROVE Chained(t) /\ StepAt(t, 1) \in After(Head(q))
  <2>1. ASSUME NEW i \in DOMAIN t PROVE StepAt(t, i + 1) \in After(t[i])
    <3>1. i + 1 \in DOMAIN q /\ q[i + 1] = t[i] /\ i + 1 \in Nat \ {0}
      BY <1>1, <1>3
    <3>2. StepAt(q, i + 1 + 1) \in After(q[i + 1])
      BY <1>7, <3>1 DEF Chained
    <3>3. QED  BY <1>4, <3>1, <3>2
  <2>2. StepAt(q, 1 + 1) \in After(q[1])
    BY <1>1, <1>7 DEF Chained
  <2>3. QED  BY <1>1, <1>6, <2>1, <2>2 DEF Chained
<1>8. ASSUME NEW x PROVE Plans(q, x) <=> x = Head(q) \/ Plans(t, x)
  <2>1. Plans(q, x) => x = Head(q) \/ Plans(t, x)
    BY <1>1, <1>5 DEF Plans
  <2>2. x = Head(q) => Plans(q, x)
    BY <1>1 DEF Plans
  <2>3. Plans(t, x) => Plans(q, x)
    BY <1>3 DEF Plans
  <2>4. QED  BY <2>1, <2>2, <2>3
<1>9. QED  BY <1>1, <1>2, <1>6, <1>7, <1>8 DEF t

LEMMA SameSteps ==
  ASSUME NEW p \in Seq(StepNames), NEW q \in Seq(StepNames), Len(p) = Len(q), \A i \in 1..Len(p) : p[i] = q[i]
  PROVE  p = q
OBVIOUS

LEMMA PutBefore ==
  ASSUME NEW p \in Seq(StepNames), NEW t \in Seq(StepNames)
  PROVE  /\ p \o t \in Seq(StepNames) /\ Len(p \o t) = Len(p) + Len(t) /\ Len(p) \in Nat /\ Len(t) \in Nat
         /\ \A i \in 1..Len(p) : (p \o t)[i] = p[i]
         /\ \A i \in 1..Len(t) : (p \o t)[Len(p) + i] = t[i]
OBVIOUS

\* Steps before a plan come one after the other.
LEMMA StepsInOrder ==
  ASSUME NEW p \in Seq(StepNames), NEW q \in Seq(StepNames), NEW t \in Seq(StepNames)
  PROVE  (p \o q) \o t = p \o (q \o t)
<1> DEFINE u == q \o t
           v == p \o q
           x == v \o t
           y == p \o u
<1>1. /\ u \in Seq(StepNames) /\ Len(u) = Len(q) + Len(t) /\ Len(q) \in Nat /\ Len(t) \in Nat
      /\ \A i \in 1..Len(q) : u[i] = q[i]
      /\ \A i \in 1..Len(t) : u[Len(q) + i] = t[i]
  BY PutBefore
<1>2. /\ v \in Seq(StepNames) /\ Len(v) = Len(p) + Len(q) /\ Len(p) \in Nat
      /\ \A i \in 1..Len(p) : v[i] = p[i]
      /\ \A i \in 1..Len(q) : v[Len(p) + i] = q[i]
  BY PutBefore
<1> HIDE DEF u, v
<1>3. /\ x \in Seq(StepNames) /\ Len(x) = Len(v) + Len(t)
      /\ \A i \in 1..Len(v) : x[i] = v[i]
      /\ \A i \in 1..Len(t) : x[Len(v) + i] = t[i]
  BY <1>2, PutBefore
<1>4. /\ y \in Seq(StepNames) /\ Len(y) = Len(p) + Len(u)
      /\ \A i \in 1..Len(p) : y[i] = p[i]
      /\ \A i \in 1..Len(u) : y[Len(p) + i] = u[i]
  BY <1>1, PutBefore
<1> HIDE DEF x, y
<1>5. Len(x) = Len(y)
  BY <1>1, <1>2, <1>3, <1>4
<1>6. ASSUME NEW i \in 1..Len(x) PROVE x[i] = y[i]
  <2>1. CASE i \in 1..Len(p)
    <3>1. i \in 1..Len(v)
      BY <1>1, <1>2, <2>1
    <3>2. QED  BY <1>2, <1>3, <1>4, <2>1, <3>1
  <2>2. CASE i \in (Len(p) + 1)..(Len(p) + Len(q))
    <3> DEFINE j == i - Len(p)
    <3>1. j \in 1..Len(q) /\ i = Len(p) + j
      BY <1>1, <1>2, <2>2
    <3> HIDE DEF j
    <3>2. j \in 1..Len(u) /\ i \in 1..Len(v)
      BY <1>1, <1>2, <3>1
    <3>3. QED  BY <1>1, <1>2, <1>3, <1>4, <3>1, <3>2
  <2>3. CASE i > Len(p) + Len(q)
    <3> DEFINE j == i - Len(v)
    <3>1. j \in 1..Len(t) /\ i = Len(v) + j
      BY <1>1, <1>2, <1>3, <1>6, <2>3
    <3> HIDE DEF j
    <3>2. Len(q) + j \in 1..Len(u) /\ i = Len(p) + (Len(q) + j)
      BY <1>1, <1>2, <3>1
    <3>3. QED  BY <1>1, <1>2, <1>3, <1>4, <3>1, <3>2
  <2>4. QED  BY <1>1, <1>2, <2>1, <2>2, <2>3
<1>7. x = y
  BY <1>3, <1>4, <1>5, <1>6, SameSteps
<1>8. QED  BY <1>7 DEF x, y, u, v

LEMMA PairFacts ==
  ASSUME NEW t \in Seq(StepNames), NEW a \in StepNames, NEW b \in StepNames
  PROVE  <<a, b>> \o t = <<a>> \o (<<b>> \o t)
<1> DEFINE p == <<a>>
           q == <<b>>
           r == <<a, b>>
<1>1. /\ p \in Seq(StepNames) /\ q \in Seq(StepNames) /\ Len(p) = 1 /\ Len(q) = 1 /\ p[1] = a /\ q[1] = b
      /\ r \in Seq(StepNames) /\ Len(r) = 2 /\ r[1] = a /\ r[2] = b
  OBVIOUS
<1> HIDE DEF p, q, r
<1>2. r = p \o q
  <2> DEFINE x == p \o q
  <2>1. x \in Seq(StepNames) /\ Len(x) = 2 /\ x[1] = a /\ x[1 + 1] = b
    BY <1>1, PutBefore
  <2> HIDE DEF x
  <2>2. \A i \in 1..Len(r) : r[i] = x[i]
    BY <1>1, <2>1
  <2>3. r = x
    BY <1>1, <2>1, <2>2, SameSteps
  <2>4. QED  BY <2>3 DEF x
<1>3. (p \o q) \o t = p \o (q \o t)
  BY <1>1, StepsInOrder
<1>4. QED  BY <1>2, <1>3 DEF p, q, r

LEMMA TripleFacts ==
  ASSUME NEW t \in Seq(StepNames), NEW a \in StepNames, NEW b \in StepNames, NEW c \in StepNames
  PROVE  <<a, b, c>> \o t = <<a>> \o (<<b, c>> \o t)
<1> DEFINE p == <<a>>
           q == <<b, c>>
           r == <<a, b, c>>
<1>1. /\ p \in Seq(StepNames) /\ q \in Seq(StepNames) /\ Len(p) = 1 /\ Len(q) = 2
      /\ p[1] = a /\ q[1] = b /\ q[2] = c
      /\ r \in Seq(StepNames) /\ Len(r) = 3 /\ r[1] = a /\ r[2] = b /\ r[3] = c
  OBVIOUS
<1> HIDE DEF p, q, r
<1>2. r = p \o q
  <2> DEFINE x == p \o q
  <2>1. x \in Seq(StepNames) /\ Len(x) = 3 /\ x[1] = a /\ x[1 + 1] = b /\ x[1 + 2] = c
    <3>1. 1 \in 1..Len(p) /\ 1 \in 1..Len(q) /\ 2 \in 1..Len(q)
      BY <1>1
    <3>2. /\ x \in Seq(StepNames) /\ Len(x) = Len(p) + Len(q)
          /\ \A i \in 1..Len(p) : x[i] = p[i]
          /\ \A i \in 1..Len(q) : x[Len(p) + i] = q[i]
      BY <1>1, PutBefore
    <3> HIDE DEF x
    <3>3. x[1] = p[1] /\ x[Len(p) + 1] = q[1] /\ x[Len(p) + 2] = q[2]
      BY <3>1, <3>2
    <3>4. QED  BY <1>1, <3>2, <3>3
  <2> HIDE DEF x
  <2>2. \A i \in 1..Len(r) : r[i] = x[i]
    BY <1>1, <2>1
  <2>3. r = x
    BY <1>1, <2>1, <2>2, SameSteps
  <2>4. QED  BY <2>3 DEF x
<1>3. (p \o q) \o t = p \o (q \o t)
  BY <1>1, StepsInOrder
<1>4. QED  BY <1>2, <1>3 DEF p, q, r

\* The next step is done, and nothing, or one, two or three steps come in its place.
LEMMA GoesNone ==
  ASSUME todo \in Seq(StepNames), Chained(todo), NEW op, todo # <<>>, Head(todo) = op, Goes(<<>>)
  PROVE  /\ First = op /\ First' = StepAt(todo, 2) /\ First' \in After(op)
         /\ todo' \in Seq(StepNames) /\ Chained(todo')
         /\ \A x : Plans(todo, x) <=> x = op \/ Plans(todo', x)
<1>1. todo' = Tail(todo)
  BY RestFacts DEF Goes
<1>2. QED  BY <1>1, RestFacts DEF First

LEMMA GoesOne ==
  ASSUME todo \in Seq(StepNames), Chained(todo), NEW op, todo # <<>>, Head(todo) = op,
         NEW a \in StepNames, Goes(<<a>>), After(op) \subseteq After(a)
  PROVE  /\ First = op /\ First' = a /\ StepAt(todo', 2) = StepAt(todo, 2)
         /\ StepAt(todo, 2) \in After(op)
         /\ todo' \in Seq(StepNames) /\ Chained(todo')
         /\ \A x : Plans(todo', x) => x = a \/ Plans(todo, x)
         /\ \A x : Plans(todo, x) => x = op \/ Plans(todo', x)
         /\ Plans(todo', a)
<1> DEFINE t == Tail(todo)
<1>1. todo' = <<a>> \o t
  BY DEF Goes
<1>2. /\ t \in Seq(StepNames) /\ StepAt(todo, 1) = op /\ StepAt(t, 1) = StepAt(todo, 2)
      /\ Chained(t) /\ StepAt(t, 1) \in After(op)
      /\ \A x : Plans(todo, x) <=> x = op \/ Plans(t, x)
  BY RestFacts
<1> HIDE DEF t
<1>3. StepAt(t, 1) \in After(a)
  BY <1>2
<1>4. QED  BY <1>1, <1>2, <1>3, StepFacts DEF First

LEMMA GoesTwo ==
  ASSUME todo \in Seq(StepNames), Chained(todo), NEW op, todo # <<>>, Head(todo) = op,
         NEW a \in StepNames, NEW b \in StepNames, Goes(<<a, b>>),
         b \in After(a), After(op) \subseteq After(b)
  PROVE  /\ First = op /\ First' = a /\ StepAt(todo', 2) = b
         /\ todo' \in Seq(StepNames) /\ Chained(todo')
         /\ \A x : Plans(todo', x) => x \in {a, b} \/ Plans(todo, x)
         /\ \A x : Plans(todo, x) => x = op \/ Plans(todo', x)
         /\ Plans(todo', a) /\ Plans(todo', b)
<1> DEFINE t == Tail(todo)
           u == <<b>> \o t
<1>1. /\ t \in Seq(StepNames) /\ StepAt(todo, 1) = op /\ StepAt(t, 1) = StepAt(todo, 2)
      /\ Chained(t) /\ StepAt(t, 1) \in After(op)
      /\ \A x : Plans(todo, x) <=> x = op \/ Plans(t, x)
  BY RestFacts
<1>2. todo' = <<a>> \o u
  BY <1>1, PairFacts DEF Goes
<1>3. StepAt(t, 1) \in After(b)
  BY <1>1
<1>4. /\ u \in Seq(StepNames) /\ StepAt(u, 1) = b /\ Chained(u)
      /\ \A x : Plans(u, x) <=> x = b \/ Plans(t, x)
  <2> HIDE DEF t
  <2>1. QED  BY <1>1, <1>3, StepFacts
<1> HIDE DEF t, u
<1>5. QED  BY <1>1, <1>2, <1>4, StepFacts DEF First

LEMMA GoesThree ==
  ASSUME todo \in Seq(StepNames), Chained(todo), NEW op, todo # <<>>, Head(todo) = op,
         NEW a \in StepNames, NEW b \in StepNames, NEW c \in StepNames, Goes(<<a, b, c>>),
         b \in After(a), c \in After(b), After(op) \subseteq After(c)
  PROVE  /\ First = op /\ First' = a /\ StepAt(todo', 2) = b
         /\ todo' \in Seq(StepNames) /\ Chained(todo')
         /\ \A x : Plans(todo', x) => x \in {a, b, c} \/ Plans(todo, x)
         /\ \A x : Plans(todo, x) => x = op \/ Plans(todo', x)
<1> DEFINE t == Tail(todo)
           u == <<c>> \o t
           v == <<b>> \o u
<1>1. /\ t \in Seq(StepNames) /\ StepAt(todo, 1) = op /\ StepAt(t, 1) = StepAt(todo, 2)
      /\ Chained(t) /\ StepAt(t, 1) \in After(op)
      /\ \A x : Plans(todo, x) <=> x = op \/ Plans(t, x)
  BY RestFacts
<1>2. todo' = <<a>> \o v
  <2>1. todo' = <<a, b, c>> \o t
    BY DEF Goes
  <2> HIDE DEF t
  <2>2. t \in Seq(StepNames)
    BY <1>1
  <2>3. <<a, b, c>> \o t = <<a>> \o (<<b, c>> \o t)
    BY <2>2, TripleFacts
  <2>4. <<b, c>> \o t = <<b>> \o (<<c>> \o t)
    BY <2>2, PairFacts
  <2>5. QED  BY <2>1, <2>3, <2>4
<1>3. StepAt(t, 1) \in After(c)
  BY <1>1
<1>4. /\ u \in Seq(StepNames) /\ StepAt(u, 1) = c /\ Chained(u)
      /\ \A x : Plans(u, x) <=> x = c \/ Plans(t, x)
  <2> HIDE DEF t
  <2>1. QED  BY <1>1, <1>3, StepFacts
<1>5. /\ v \in Seq(StepNames) /\ StepAt(v, 1) = b /\ Chained(v)
      /\ \A x : Plans(v, x) <=> x = b \/ Plans(u, x)
  <2> HIDE DEF u
  <2>1. QED  BY <1>4, StepFacts
<1> HIDE DEF t, u, v
<1>6. QED  BY <1>1, <1>2, <1>4, <1>5, StepFacts DEF First

\* No plan, and a plan of one or two steps.
LEMMA NoPlan ==
  /\ <<>> \in Seq(StepNames) /\ Chained(<<>>) /\ StepAt(<<>>, 1) = "rest"
  /\ \A x : ~Plans(<<>>, x)
BY DEF Chained, StepAt, Plans

LEMMA OneStep ==
  ASSUME NEW a \in StepNames, "rest" \in After(a)
  PROVE  LET q == <<a>> IN
         /\ q \in Seq(StepNames) /\ Chained(q) /\ StepAt(q, 1) = a /\ StepAt(q, 2) = "rest"
         /\ \A x : Plans(q, x) <=> x = a
<1>1. <<a>> \in Seq(StepNames) /\ Len(<<a>>) = 1 /\ <<a>>[1] = a /\ DOMAIN <<a>> = {1}
  OBVIOUS
<1>2. StepAt(<<a>>, 1) = a /\ StepAt(<<a>>, 2) = "rest"
  BY <1>1 DEF StepAt
<1>3. Chained(<<a>>)
  BY <1>1, <1>2 DEF Chained
<1>4. \A x : Plans(<<a>>, x) <=> x = a
  BY <1>1 DEF Plans
<1>5. QED  BY <1>1, <1>2, <1>3, <1>4

LEMMA TwoSteps ==
  ASSUME NEW a \in StepNames, NEW b \in StepNames, b \in After(a), "rest" \in After(b)
  PROVE  LET q == <<a, b>> IN
         /\ q \in Seq(StepNames) /\ Chained(q) /\ StepAt(q, 1) = a /\ StepAt(q, 2) = b
         /\ \A x : Plans(q, x) <=> x \in {a, b}
<1>1. /\ <<a, b>> \in Seq(StepNames) /\ Len(<<a, b>>) = 2 /\ DOMAIN <<a, b>> = {1, 2}
      /\ <<a, b>>[1] = a /\ <<a, b>>[2] = b
  OBVIOUS
<1>2. StepAt(<<a, b>>, 1) = a /\ StepAt(<<a, b>>, 2) = b /\ StepAt(<<a, b>>, 3) = "rest"
  BY <1>1 DEF StepAt
<1>3. Chained(<<a, b>>)
  BY <1>1, <1>2 DEF Chained
<1>4. \A x : Plans(<<a, b>>, x) <=> x \in {a, b}
  BY <1>1 DEF Plans
<1>5. QED  BY <1>1, <1>2, <1>3, <1>4

(***************************************************************************)
(* Types and kinds.                                                        *)
(***************************************************************************)

CapturingType == [at: {"idle", "error", "closing"}] \cup [at: {"tick", "repost"}, rate: Rates]
ReplyType == [of: Nat, what: {"started", "stopped"}]
TypesOK ==
  /\ platform \in {"mac", "oldMac", "other"}
  /\ sharing \in BOOLEAN /\ allowed \in BOOLEAN /\ watched \in BOOLEAN
  /\ device \in Screens \cup Windows /\ fps \in Rates /\ rate \in Rates
  /\ asked \in Seq(AskType) /\ todo \in Seq(StepNames)
  /\ held \in {"none", "screen", "window"} /\ selected \in Screens \cup Windows \cup {"nothing"}
  /\ phase \in {"Stopped", "Starting", "Started", "Stopping"}
  /\ ticking \in BOOLEAN /\ listening \in BOOLEAN /\ beats \in [Rates -> Nat]
  /\ running \in BOOLEAN /\ tasks \in Seq({"begin", "capture", "end"})
  /\ stream \in Nat /\ replies \in Seq(ReplyType)
  /\ capturing \in CapturingType
  /\ slipped \in BOOLEAN /\ unstarted \in BOOLEAN /\ asks \in 0..MaxAsks

LEMMA TypesAre == ScreenTypeOK <=> TypesOK
<1>1. {sharing, allowed, watched, ticking, listening, running, slipped, unstarted} \subseteq BOOLEAN
      <=> /\ sharing \in BOOLEAN /\ allowed \in BOOLEAN /\ watched \in BOOLEAN
          /\ ticking \in BOOLEAN /\ listening \in BOOLEAN /\ running \in BOOLEAN
          /\ slipped \in BOOLEAN /\ unstarted \in BOOLEAN
  BY Zenon
<1>2. {fps, rate} \subseteq Rates <=> fps \in Rates /\ rate \in Rates
  OBVIOUS
<1>3. QED  BY <1>1, <1>2 DEF ScreenTypeOK, TypesOK, CapturingType, ReplyType

LEMMA TypesAreNext == ScreenTypeOK' <=> TypesOK'
<1>1. {sharing', allowed', watched', ticking', listening', running', slipped', unstarted'} \subseteq BOOLEAN
      <=> /\ sharing' \in BOOLEAN /\ allowed' \in BOOLEAN /\ watched' \in BOOLEAN
          /\ ticking' \in BOOLEAN /\ listening' \in BOOLEAN /\ running' \in BOOLEAN
          /\ slipped' \in BOOLEAN /\ unstarted' \in BOOLEAN
  BY Zenon
<1>2. {fps', rate'} \subseteq Rates <=> fps' \in Rates /\ rate' \in Rates
  OBVIOUS
<1>3. QED  BY <1>1, <1>2 DEF ScreenTypeOK, TypesOK, CapturingType, ReplyType

LEMMA CapturingFacts ==
  /\ NotCapturing \in CapturingType /\ NotCapturing.at = "idle"
  /\ \A c \in CapturingType : /\ c.at \in {"idle", "error", "closing", "tick", "repost"}
                              /\ c.at = "idle" <=> c = NotCapturing
                              /\ c.at \in {"tick", "repost"} => c.rate \in Rates
  /\ \A a \in {"idle", "error", "closing"} : [at |-> a] \in CapturingType /\ [at |-> a].at = a
  /\ \A a \in {"tick", "repost"}, r \in Rates :
       [at |-> a, rate |-> r] \in CapturingType /\ [at |-> a, rate |-> r].at = a
<1>1. NotCapturing \in CapturingType /\ NotCapturing.at = "idle"
  BY DEF NotCapturing, CapturingType
<1>2. ASSUME NEW c \in CapturingType
      PROVE  /\ c.at \in {"idle", "error", "closing", "tick", "repost"}
             /\ c.at = "idle" <=> c = NotCapturing
             /\ c.at \in {"tick", "repost"} => c.rate \in Rates
  BY DEF NotCapturing, CapturingType
<1>3. QED  BY <1>1, <1>2 DEF CapturingType

LEMMA KindFacts ==
  ASSUME TypesOK
  PROVE  /\ Kind \in {"none", "cg", "webrtc", "sck"}
         /\ held = "none" <=> Kind = "none"
         /\ Kind = "sck" <=> platform = "mac" /\ held # "none"
         /\ Timed <=> Kind \in {"cg", "webrtc"}
<1>1. platform \in {"mac", "oldMac", "other"} /\ held \in {"none", "screen", "window"}
  BY DEF TypesOK
<1>2. CASE held = "none"
  BY <1>2 DEF Kind, Timed
<1>3. CASE held # "none" /\ platform = "mac"
  BY <1>3 DEF Kind, Timed
<1>4. CASE held # "none" /\ platform # "mac"
  BY <1>1, <1>4 DEF Kind, Timed
<1>5. QED  BY <1>2, <1>3, <1>4


LEMMA KindKept == ASSUME UNCHANGED <<held, platform>> PROVE Kind' = Kind /\ (Timed' <=> Timed)
BY DEF Kind, Timed

(***************************************************************************)
(* What a step leaves alone.                                               *)
(***************************************************************************)

LEMMA PlanKept ==
  ASSUME PlanInv, UNCHANGED <<todo, held, platform>>,
         sharing' => sharing, capturing'.at = "closing" => capturing.at = "closing" \/ ~sharing'
  PROVE  PlanInv'
<1>1. Kind' = Kind /\ (Timed' <=> Timed) /\ First' = First
  BY KindKept DEF First
<1>2. QED  BY <1>1 DEF PlanInv

LEMMA NoneKept ==
  ASSUME NoneInv, UNCHANGED <<held, platform, phase, selected, ticking, listening, beats, replies, capturing, tasks, running>>
  PROVE  NoneInv'
<1>1. Kind' = Kind /\ (OnlyEnds' <=> OnlyEnds)
  BY KindKept DEF OnlyEnds
<1>2. QED  BY <1>1 DEF NoneInv

LEMMA TimerKept ==
  ASSUME TimerInv, UNCHANGED <<held, platform, ticking, listening, beats, capturing>>,
         First' = "retime" => First = "retime" \/ (listening /\ Timed)
  PROVE  TimerInv'
<1>1. Timed' <=> Timed
  BY KindKept
<1>2. QED  BY <1>1 DEF TimerInv

LEMMA TimedKept ==
  ASSUME TimedInv, UNCHANGED <<held, platform, ticking, phase, slipped>>, First' = First, sharing' => sharing
  PROVE  TimedInv'
<1>1. (Timed' <=> Timed) /\ (Lives' <=> Lives)
  BY KindKept DEF Lives
<1>2. QED  BY <1>1 DEF TimedInv

LEMMA RunKept ==
  ASSUME RunInv, UNCHANGED <<held, platform, phase, slipped, tasks, running, capturing>>, sharing' => sharing,
         First' = "begin" => First = "begin"
  PROVE  RunInv'
<1>1. Kind' = Kind /\ (Lives' <=> Lives) /\ (WillRun(tasks, running)' <=> WillRun(tasks, running))
  BY KindKept DEF Lives, WillRun
<1>2. QED  BY <1>1 DEF RunInv

LEMMA SelectKept ==
  ASSUME ChosenInv, UNCHANGED <<held, device, selected, phase, slipped, unstarted>>, First' = First, sharing' => sharing,
         Has(asked, "reset") => Has(asked', "reset")
  PROVE  ChosenInv'
<1>1. Lives' <=> Lives
  BY DEF Lives
<1>2. QED  BY <1>1 DEF ChosenInv, TypeOf

LEMMA WantKept ==
  ASSUME WantInv, UNCHANGED <<todo, held, asked>>, ScreenWanted' <=> ScreenWanted,
         capturing.at = "closing" => capturing'.at = "closing"
  PROVE  WantInv'
BY DEF WantInv, First

(***************************************************************************)
(* The application.                                                        *)
(***************************************************************************)

\* A call of the application: a source that is wanted no more is reset, one that is wanted
\* again is requested.
LEMMA AskStep ==
  ASSUME ScreenInv, NEW c \in AskType, AskFor(c), UNCHANGED <<sharing, device, fps>>,
         allowed' \in BOOLEAN, watched' \in BOOLEAN,
         ScreenWanted /\ ~ScreenWanted' => c.op = "reset",
         ~ScreenWanted /\ ScreenWanted' => c.op = "request",
         ScreenWanted /\ ScreenWanted' => c.op # "reset"
  PROVE  ScreenInv'
<1>1. /\ asks < MaxAsks /\ asks' = asks + 1 /\ asked' = Append(asked, c)
      /\ UNCHANGED <<platform, sharing, device, fps, todo, held, phase, selected, rate, ticking, listening, beats,
                     tasks, running, stream, replies, capturing, slipped, unstarted>>
  BY DEF AskFor, timerState, streamVars
<1>2. TypesOK
  BY TypesAre DEF ScreenInv
<1>3. /\ asked' \in Seq(AskType)
      /\ \A op : Has(asked', op) <=> Has(asked, op) \/ c.op = op
      /\ ResetsAreAnswered(asked) /\ c.op # "reset" => ResetsAreAnswered(asked')
      /\ c.op = "request" => ResetsAreAnswered(asked')
  BY <1>1, <1>2, PostFacts DEF TypesOK
<1>4. First' = First
  BY <1>1 DEF First
<1>5. TypesOK'
  <2>1. asks' \in 0..MaxAsks
    BY <1>1, <1>2, ScreenSourceAssumption DEF TypesOK
  <2>2. QED  BY <1>1, <1>2, <1>3, <2>1 DEF TypesOK
<1>6. PlanInv'
  BY <1>1, PlanKept DEF ScreenInv
<1>7. NoneInv'
  BY <1>1, NoneKept DEF ScreenInv
<1>8. TimerInv' /\ TimedInv'
  BY <1>1, <1>4, TimerKept, TimedKept DEF ScreenInv
<1>9. RunInv'
  BY <1>1, <1>4, RunKept DEF ScreenInv
<1>10. ChosenInv'
  BY <1>1, <1>3, <1>4, SelectKept DEF ScreenInv
<1>11. WantInv'
  <2>1. \A x : Plans(todo', x) <=> Plans(todo, x)
    BY <1>1 DEF Plans
  <2>2. ASSUME ~ScreenWanted', held' # "none" \/ First' = "create"
        PROVE  Has(asked', "reset") \/ Plans(todo', "reset") \/ Plans(todo', "drop") \/ capturing'.at = "closing"
    BY <1>1, <1>3, <1>4, <2>1, <2>2 DEF ScreenInv, WantInv
  <2>3. ASSUME ScreenWanted'
        PROVE  /\ ResetsAreAnswered(asked')
               /\ Plans(todo', "reset") \/ Plans(todo', "drop") \/ (held' = "none" /\ First' # "create") =>
                    Plans(todo', "request") \/ Has(asked', "request")
    BY <1>1, <1>3, <1>4, <2>1, <2>3 DEF ScreenInv, WantInv
  <2>4. QED  BY <2>2, <2>3 DEF WantInv
<1>12. QED  BY <1>5, <1>6, <1>7, <1>8, <1>9, <1>10, <1>11, TypesAreNext DEF ScreenInv

LEMMA SharerInv == ASSUME ScreenInv, Sharer PROVE ScreenInv'
<1>1. sharing \in BOOLEAN /\ allowed \in BOOLEAN /\ watched \in BOOLEAN
  BY TypesAre DEF ScreenInv, TypesOK
<1>2. ASSUME Watch PROVE ScreenInv'
  <2> DEFINE c == [op |-> "request"]
  <2>1. c \in AskType /\ c.op = "request"
    BY DEF AskType
  <2>2. AskFor(c) /\ UNCHANGED <<sharing, allowed, device, fps>> /\ watched' = TRUE /\ ~watched
    BY <1>2 DEF Watch
  <2>3. ~ScreenWanted
    BY <2>2 DEF ScreenWanted
  <2> HIDE DEF c
  <2>4. QED  BY <1>1, <2>1, <2>2, <2>3, AskStep
<1>3. ASSUME Unwatch PROVE ScreenInv'
  <2> DEFINE c == [op |-> "reset"]
  <2>1. c \in AskType /\ c.op = "reset"
    BY DEF AskType
  <2>2. AskFor(c) /\ UNCHANGED <<sharing, allowed, device, fps>> /\ watched' = FALSE
    BY <1>3 DEF Unwatch
  <2>3. ~ScreenWanted'
    BY <2>2 DEF ScreenWanted
  <2> HIDE DEF c
  <2>4. QED  BY <1>1, <2>1, <2>2, <2>3, AskStep
<1>4. ASSUME Allow PROVE ScreenInv'
  <2> DEFINE c == [op |-> IF allowed THEN "reset" ELSE "request"]
  <2>1. c \in AskType /\ (allowed => c.op = "reset") /\ (~allowed => c.op = "request")
    BY DEF AskType
  <2>2. AskFor(c) /\ UNCHANGED <<sharing, watched, device, fps>> /\ allowed' = ~allowed
    BY <1>4 DEF Allow
  <2>3. ScreenWanted => allowed
    BY DEF ScreenWanted
  <2>4. ScreenWanted' => ~allowed
    BY <2>2 DEF ScreenWanted
  <2> HIDE DEF c
  <2>5. QED  BY <1>1, <2>1, <2>2, <2>3, <2>4, AskStep
<1>5. ASSUME NEW d \in Screens \cup Windows, ShareOther(d) PROVE ScreenInv'
  <2> DEFINE c == [op |-> "device", device |-> d]
  <2>1. c \in AskType /\ c.op = "device"
    BY DEF AskType
  <2>2. AskFor(c) /\ UNCHANGED <<sharing, watched, allowed, device, fps>>
    BY <1>5 DEF ShareOther, wishVars
  <2>3. ScreenWanted' <=> ScreenWanted
    BY <2>2 DEF ScreenWanted
  <2> HIDE DEF c
  <2>4. QED  BY <1>1, <2>1, <2>2, <2>3, AskStep
<1>6. ASSUME NEW r \in Rates, SetRate(r) PROVE ScreenInv'
  <2> DEFINE c == [op |-> "rate", rate |-> r]
  <2>1. c \in AskType /\ c.op = "rate"
    BY DEF AskType
  <2>2. AskFor(c) /\ UNCHANGED <<sharing, watched, allowed, device, fps>>
    BY <1>6 DEF SetRate, wishVars
  <2>3. ScreenWanted' <=> ScreenWanted
    BY <2>2 DEF ScreenWanted
  <2> HIDE DEF c
  <2>4. QED  BY <1>1, <2>1, <2>2, <2>3, AskStep
<1>7. ASSUME CloseShare PROVE ScreenInv'
  <2> DEFINE c == [op |-> "close"]
  <2>1. c \in AskType /\ c.op = "close"
    BY DEF AskType
  <2>2. AskFor(c) /\ UNCHANGED <<sharing, watched, allowed, device, fps>>
    BY <1>7 DEF CloseShare, wishVars
  <2>3. ScreenWanted' <=> ScreenWanted
    BY <2>2 DEF ScreenWanted
  <2> HIDE DEF c
  <2>4. QED  BY <1>1, <2>1, <2>2, <2>3, AskStep
<1>8. QED  BY <1>2, <1>3, <1>4, <1>5, <1>6, <1>7 DEF Sharer

(***************************************************************************)
(* The signaling queue: tasks begin.                                       *)
(***************************************************************************)

\* The next task of the queue.
LEMMA TakeStep ==
  ASSUME TypesOK, NEW op, Takes(op)
  PROVE  /\ First = "rest" /\ (\A x : ~Plans(todo, x))
         /\ asked' \in Seq(AskType) /\ Head(asked) \in AskType /\ Head(asked).op = op
         /\ \A x : Has(asked, x) <=> x = op \/ Has(asked', x)
         /\ ResetsAreAnswered(asked) => ResetsAreAnswered(asked')
         /\ ResetsAreAnswered(asked) /\ op = "reset" => Has(asked', "request")
<1>1. /\ todo = <<>> /\ asked # <<>> /\ Head(asked).op = op /\ asked' = Tail(asked) /\ asked \in Seq(AskType)
  BY DEF Takes, TypesOK
<1>2. First = "rest" /\ \A x : ~Plans(todo, x)
  BY <1>1, NoPlan DEF First
<1>3. QED  BY <1>1, <1>2, TakeFacts

LEMMA RunTaskInv ==
  ASSUME ScreenInv, NEW op \in {"request", "reset"}, RunTask(op) PROVE ScreenInv'
<1>1. /\ todo' = <<op>>
      /\ UNCHANGED <<platform, sharing, allowed, watched, device, fps, held, phase, selected, rate, ticking, listening,
                     beats, tasks, running, stream, replies, capturing, slipped, unstarted, asks>>
  BY DEF RunTask, wishVars, timerState, streamVars, historyVars
<1>2. TypesOK
  BY TypesAre DEF ScreenInv
<1>3. /\ First = "rest" /\ (\A x : ~Plans(todo, x))
      /\ asked' \in Seq(AskType) /\ \A x : Has(asked, x) <=> x = op \/ Has(asked', x)
      /\ ResetsAreAnswered(asked) => ResetsAreAnswered(asked')
      /\ ResetsAreAnswered(asked) /\ op = "reset" => Has(asked', "request")
  BY <1>2, TakeStep DEF RunTask
<1>4. todo' \in Seq(StepNames) /\ Chained(todo') /\ First' = op /\ \A x : Plans(todo', x) <=> x = op
  BY <1>1, OneStep DEF First, StepNames, After
<1>5. TypesOK'
  BY <1>1, <1>2, <1>3, <1>4 DEF TypesOK
<1>6. Kind' = Kind /\ (Timed' <=> Timed) /\ (ScreenWanted' <=> ScreenWanted) /\ (Lives' <=> Lives)
  BY <1>1, KindKept DEF ScreenWanted, Lives
<1>7. PlanInv'
  BY <1>1, <1>4, <1>6 DEF ScreenInv, PlanInv
<1>8. NoneInv' /\ TimerInv' /\ RunInv'
  BY <1>1, <1>4, NoneKept, TimerKept, RunKept DEF ScreenInv
<1>9. TimedInv'
  BY <1>1, <1>3, <1>4, <1>6 DEF ScreenInv, TimedInv
<1>10. ChosenInv'
  BY <1>1, <1>3, <1>4, <1>6 DEF ScreenInv, ChosenInv
<1>11. WantInv'
  BY <1>1, <1>3, <1>4, <1>6 DEF ScreenInv, WantInv
<1>12. QED  BY <1>5, <1>7, <1>8, <1>9, <1>10, <1>11, TypesAreNext DEF ScreenInv

\* A source of another type is made anew.
LEMMA RunOtherInv == ASSUME ScreenInv, RunOther PROVE ScreenInv'
<1> DEFINE d == Head(asked).device
<1>1. /\ IF sharing /\ d # device
         THEN /\ device' = d
              /\ todo' = IF held # "none" /\ SameType(d, selected) THEN <<"stop", "switch">> ELSE <<"reset", "request">>
         ELSE UNCHANGED <<device, todo>>
      /\ UNCHANGED <<platform, sharing, allowed, watched, fps, held, phase, selected, rate, ticking, listening,
                     beats, tasks, running, stream, replies, capturing, slipped, unstarted, asks>>
  BY DEF RunOther, timerState, streamVars, historyVars
<1>2. TypesOK
  BY TypesAre DEF ScreenInv
<1>3. /\ First = "rest" /\ (\A x : ~Plans(todo, x))
      /\ asked' \in Seq(AskType) /\ Head(asked) \in AskType /\ Head(asked).op = "device"
      /\ \A x : Has(asked, x) <=> x = "device" \/ Has(asked', x)
      /\ ResetsAreAnswered(asked) => ResetsAreAnswered(asked')
  BY <1>2, TakeStep DEF RunOther
<1>4. d \in Screens \cup Windows
  BY <1>3 DEF AskType
<1> HIDE DEF d
<1>5. Kind' = Kind /\ (Timed' <=> Timed) /\ (ScreenWanted' <=> ScreenWanted) /\ (Lives' <=> Lives)
  BY <1>1, KindKept DEF ScreenWanted, Lives
<1>6. NoneInv'
  BY <1>1, NoneKept DEF ScreenInv
<1>7. CASE UNCHANGED <<device, todo>>
  <2>1. First' = First /\ \A x : Plans(todo', x) <=> Plans(todo, x)
    BY <1>7 DEF First, Plans
  <2>2. TypesOK'
    BY <1>1, <1>2, <1>3, <1>7 DEF TypesOK
  <2>3. PlanInv'
    BY <1>1, <1>7, PlanKept DEF ScreenInv
  <2>4. TimerInv' /\ TimedInv' /\ RunInv'
    BY <1>1, <2>1, TimerKept, TimedKept, RunKept DEF ScreenInv
  <2>5. ChosenInv'
    BY <1>1, <1>3, <1>7, <2>1, SelectKept DEF ScreenInv
  <2>6. WantInv'
    BY <1>1, <1>3, <1>5, <2>1 DEF ScreenInv, WantInv
  <2>7. QED  BY <1>6, <2>2, <2>3, <2>4, <2>5, <2>6, TypesAreNext DEF ScreenInv
<1>8. CASE sharing /\ d # device /\ held # "none" /\ SameType(d, selected)
  <2>1. /\ device' = d /\ todo' \in Seq(StepNames) /\ Chained(todo') /\ First' = "stop"
        /\ \A x : Plans(todo', x) <=> x \in {"stop", "switch"}
    <3>1. device' = d /\ todo' = <<"stop", "switch">>
      BY <1>1, <1>8
    <3>2. QED  BY <3>1, TwoSteps DEF First, StepNames, After
  <2>2. TypesOK'
    BY <1>1, <1>2, <1>3, <1>4, <2>1 DEF TypesOK
  <2>3. PlanInv'
    BY <1>1, <1>5, <1>8, <2>1 DEF ScreenInv, PlanInv
  <2>4. TimerInv' /\ RunInv'
    BY <1>1, <2>1, TimerKept, RunKept DEF ScreenInv
  <2>5. TimedInv'
    BY <1>1, <1>3, <1>5, <2>1 DEF ScreenInv, TimedInv
  <2>6. ChosenInv'
    BY <2>1 DEF ChosenInv
  <2>7. WantInv'
    BY <1>1, <1>3, <1>5, <1>8, <2>1 DEF ScreenInv, WantInv
  <2>8. QED  BY <1>6, <2>2, <2>3, <2>4, <2>5, <2>6, <2>7, TypesAreNext DEF ScreenInv
<1>9. CASE sharing /\ d # device /\ ~(held # "none" /\ SameType(d, selected))
  <2>1. /\ device' = d /\ todo' \in Seq(StepNames) /\ Chained(todo') /\ First' = "reset"
        /\ \A x : Plans(todo', x) <=> x \in {"reset", "request"}
    <3>1. device' = d /\ todo' = <<"reset", "request">>
      BY <1>1, <1>9
    <3>2. QED  BY <3>1, TwoSteps DEF First, StepNames, After
  <2>2. TypesOK'
    BY <1>1, <1>2, <1>3, <1>4, <2>1 DEF TypesOK
  <2>3. PlanInv'
    BY <1>1, <1>5, <1>9, <2>1 DEF ScreenInv, PlanInv
  <2>4. TimerInv' /\ RunInv'
    BY <1>1, <2>1, TimerKept, RunKept DEF ScreenInv
  <2>5. TimedInv'
    BY <1>1, <1>3, <1>5, <2>1 DEF ScreenInv, TimedInv
  <2>6. ChosenInv'
    BY <2>1 DEF ChosenInv
  <2>7. WantInv'
    BY <1>1, <1>3, <1>5, <2>1 DEF ScreenInv, WantInv
  <2>8. QED  BY <1>6, <2>2, <2>3, <2>4, <2>5, <2>6, <2>7, TypesAreNext DEF ScreenInv
<1>10. QED  BY <1>1, <1>7, <1>8, <1>9

\* A timer that ran is to be started again.
LEMMA RunRateInv == ASSUME ScreenInv, RunRate PROVE ScreenInv'
<1> DEFINE r == Head(asked).rate
           again == ticking /\ sharing /\ r # fps /\ r # rate
<1>1. /\ fps' = IF sharing /\ r # fps THEN r ELSE fps
      /\ rate' = IF sharing /\ r # fps /\ Timed THEN r ELSE rate
      /\ ticking' = (ticking /\ ~(sharing /\ r # fps /\ r # rate))
      /\ todo' = IF ticking /\ sharing /\ r # fps /\ r # rate THEN <<"retime">> ELSE <<>>
      /\ UNCHANGED <<platform, sharing, allowed, watched, device, held, phase, selected, listening,
                     beats, tasks, running, stream, replies, capturing, slipped, unstarted, asks>>
  BY DEF RunRate, streamVars, historyVars
<1>2. TypesOK
  BY TypesAre DEF ScreenInv
<1>3. /\ First = "rest" /\ (\A x : ~Plans(todo, x)) /\ todo = <<>>
      /\ asked' \in Seq(AskType) /\ Head(asked) \in AskType /\ Head(asked).op = "rate"
      /\ \A x : Has(asked, x) <=> x = "rate" \/ Has(asked', x)
      /\ ResetsAreAnswered(asked) => ResetsAreAnswered(asked')
  BY <1>2, TakeStep DEF RunRate, Takes
<1>4. r \in Rates
  BY <1>3 DEF AskType
<1> HIDE DEF r
<1>5. Kind' = Kind /\ (Timed' <=> Timed) /\ (ScreenWanted' <=> ScreenWanted) /\ (Lives' <=> Lives)
  BY <1>1, KindKept DEF ScreenWanted, Lives
<1>6. /\ todo' \in Seq(StepNames) /\ Chained(todo') /\ First' = (IF again THEN "retime" ELSE "rest")
      /\ \A x : Plans(todo', x) => x = "retime"
  <2>1. CASE again
    BY <1>1, <2>1, OneStep DEF First, StepNames, After
  <2>2. CASE ~again
    BY <1>1, <2>2, NoPlan DEF First
  <2>3. QED  BY <2>1, <2>2
<1>7. (again => ticking /\ ~ticking') /\ (~again => ticking' = ticking) /\ ticking' \in BOOLEAN
  BY <1>1, <1>2 DEF TypesOK
<1> HIDE DEF again
<1>8. fps' \in Rates /\ rate' \in Rates
  BY <1>1, <1>2, <1>4 DEF TypesOK
<1>9. TypesOK'
  BY <1>1, <1>2, <1>3, <1>6, <1>7, <1>8 DEF TypesOK
<1>10. PlanInv'
  BY <1>1, <1>3, <1>5, <1>6, <1>7 DEF ScreenInv, PlanInv, NoneInv
<1>11. NoneInv'
  BY <1>1, <1>5, <1>7 DEF ScreenInv, NoneInv, OnlyEnds
<1>12. TimerInv'
  BY <1>1, <1>3, <1>5, <1>6, <1>7 DEF ScreenInv, TimerInv
<1>13. TimedInv'
  BY <1>1, <1>3, <1>5, <1>6, <1>7 DEF ScreenInv, TimedInv
<1>14. RunInv'
  BY <1>1, <1>6, RunKept DEF ScreenInv
<1>15. ChosenInv'
  BY <1>1, <1>3, <1>5, <1>6 DEF ScreenInv, ChosenInv
<1>16. WantInv'
  BY <1>1, <1>3, <1>5, <1>6 DEF ScreenInv, WantInv
<1>17. QED  BY <1>9, <1>10, <1>11, <1>12, <1>13, <1>14, <1>15, <1>16, TypesAreNext DEF ScreenInv

\* The source is closed.
LEMMA RunClosingInv == ASSUME ScreenInv, RunClosing PROVE ScreenInv'
<1>1. /\ sharing' = FALSE /\ todo' = IF sharing THEN <<"reset", "end">> ELSE <<>>
      /\ UNCHANGED <<platform, allowed, watched, device, fps, held, phase, selected, rate, ticking, listening,
                     beats, tasks, running, stream, replies, capturing, slipped, unstarted, asks>>
  BY DEF RunClosing, timerState, streamVars, historyVars
<1>2. TypesOK
  BY TypesAre DEF ScreenInv
<1>3. /\ First = "rest" /\ (\A x : ~Plans(todo, x))
      /\ asked' \in Seq(AskType) /\ \A x : Has(asked, x) <=> x = "close" \/ Has(asked', x)
  BY <1>2, TakeStep DEF RunClosing
<1>4. Kind' = Kind /\ (Timed' <=> Timed) /\ ~ScreenWanted'
  BY <1>1, KindKept DEF ScreenWanted
<1>5. /\ todo' \in Seq(StepNames) /\ Chained(todo') /\ First' = (IF sharing THEN "reset" ELSE "rest")
      /\ \A x : Plans(todo', x) <=> sharing /\ x \in {"reset", "end"}
  <2>1. CASE sharing
    BY <1>1, <2>1, TwoSteps DEF First, StepNames, After
  <2>2. CASE ~sharing
    BY <1>1, <2>2, NoPlan DEF First
  <2>3. QED  BY <1>2, <2>1, <2>2 DEF TypesOK
<1>6. TypesOK'
  <2>1. sharing' \in BOOLEAN
    BY <1>1
  <2>2. QED  BY <1>1, <1>2, <1>3, <1>5, <2>1 DEF TypesOK
<1>7. PlanInv'
  BY <1>1, <1>4, <1>5 DEF ScreenInv, PlanInv
<1>8. NoneInv' /\ TimerInv'
  BY <1>1, <1>5, NoneKept, TimerKept DEF ScreenInv
<1>9. TimedInv' /\ RunInv' /\ ChosenInv'
  BY <1>1, <1>5 DEF TimedInv, RunInv, ChosenInv
<1>10. WantInv'
  <2>1. ~sharing => ~ScreenWanted
    BY DEF ScreenWanted
  <2>2. QED  BY <1>1, <1>3, <1>4, <1>5, <2>1 DEF ScreenInv, WantInv
<1>11. QED  BY <1>6, <1>7, <1>8, <1>9, <1>10, TypesAreNext DEF ScreenInv

(***************************************************************************)
(* The signaling queue: the steps of a task.                               *)
(***************************************************************************)

\* A step that is the last of its plan.
LEMMA LastStep ==
  ASSUME TypesOK, todo # <<>>, StepAt(todo, 2) = "rest"
  PROVE  \A x : Plans(todo, x) => x = Head(todo)
<1>1. /\ todo \in Seq(StepNames) /\ Head(todo) = todo[1] /\ DOMAIN todo = 1..Len(todo) /\ Len(todo) \in Nat
      /\ \A i \in DOMAIN todo : todo[i] \in StepNames
  BY DEF TypesOK
<1>2. "rest" \notin StepNames
  BY DEF StepNames
<1>3. 2 \notin DOMAIN todo
  BY <1>1, <1>2 DEF StepAt
<1>4. \A i \in DOMAIN todo : i = 1
  BY <1>1, <1>3
<1>5. QED  BY <1>1, <1>4 DEF Plans

\* What the invariant says of the plan whose next step is taken.
LEMMA DoesStep ==
  ASSUME ScreenInv, NEW op, Does(op)
  PROVE  /\ TypesOK /\ todo \in Seq(StepNames) /\ Chained(todo) /\ todo # <<>> /\ Head(todo) = op
         /\ First = op /\ Plans(todo, op) /\ asked' = asked
         /\ After(op) = {"rest"} => \A x : Plans(todo, x) => x = op
<1>1. TypesOK /\ todo \in Seq(StepNames) /\ Chained(todo) /\ todo # <<>> /\ Head(todo) = op /\ asked' = asked
  BY TypesAre DEF ScreenInv, TypesOK, PlanInv, Does
<1>2. First = op /\ Plans(todo, op) /\ StepAt(todo, 2) \in After(op)
  BY <1>1, RestFacts DEF First
<1>3. QED  BY <1>1, <1>2, LastStep

LEMMA RetimeInv == ASSUME ScreenInv, Retime PROVE ScreenInv'
<1>1. /\ Does("retime") /\ Goes(<<>>) /\ ticking' = TRUE /\ beats' = Beat(rate)
      /\ UNCHANGED <<platform, sharing, allowed, watched, device, fps, held, phase, selected, rate, listening,
                     tasks, running, stream, replies, capturing, slipped, unstarted, asks>>
  BY DEF Retime, wishVars, streamVars, historyVars
<1>2. /\ TypesOK /\ First = "retime" /\ asked' = asked /\ \A x : Plans(todo, x) => x = "retime"
  BY <1>1, DoesStep DEF After
<1>3. /\ First' = "rest" /\ todo' \in Seq(StepNames) /\ Chained(todo')
      /\ \A x : Plans(todo, x) <=> x = "retime" \/ Plans(todo', x)
  BY <1>1, DoesStep, GoesNone DEF After
<1>4. Kind' = Kind /\ (Timed' <=> Timed) /\ (ScreenWanted' <=> ScreenWanted) /\ (Lives' <=> Lives)
  BY <1>1, KindKept DEF ScreenWanted, Lives
<1>5. beats' \in [Rates -> Nat] /\ beats'[rate] > 0 /\ rate \in Rates
  BY <1>1, <1>2 DEF TypesOK, Beat
<1>6. beats' # NoBeats
  BY <1>5 DEF NoBeats
<1>7. TypesOK'
  <2>1. ticking' \in BOOLEAN
    BY <1>1
  <2>2. QED  BY <1>1, <1>2, <1>3, <1>5, <2>1 DEF TypesOK
<1>8. PlanInv'
  BY <1>1, <1>2, <1>3, <1>4 DEF ScreenInv, PlanInv
<1>9. NoneInv'
  BY <1>1, <1>2, <1>4 DEF ScreenInv, NoneInv, PlanInv, OnlyEnds
<1>10. TimerInv'
  BY <1>1, <1>2, <1>4, <1>6 DEF ScreenInv, TimerInv
<1>11. TimedInv'
  BY <1>1, <1>2, <1>3, <1>4 DEF ScreenInv, TimedInv, Lives
<1>12. RunInv'
  BY <1>1, <1>3, RunKept DEF ScreenInv
<1>13. ChosenInv'
  BY <1>1, <1>2, <1>3, <1>4 DEF ScreenInv, ChosenInv
<1>14. WantInv'
  BY <1>1, <1>2, <1>3, <1>4 DEF ScreenInv, WantInv
<1>15. QED  BY <1>7, <1>8, <1>9, <1>10, <1>11, <1>12, <1>13, <1>14, TypesAreNext DEF ScreenInv

LEMMA ShareEndsInv == ASSUME ScreenInv, ShareEnds PROVE ScreenInv'
<1>1. /\ Does("end") /\ Goes(<<>>) /\ watched' = FALSE
      /\ UNCHANGED <<platform, sharing, allowed, device, fps, held, phase, selected, rate, ticking, listening, beats,
                     tasks, running, stream, replies, capturing, slipped, unstarted, asks>>
  BY DEF ShareEnds, timerState, streamVars, historyVars
<1>2. TypesOK /\ First = "end" /\ Plans(todo, "end") /\ asked' = asked
  BY <1>1, DoesStep
<1>3. /\ First' = "rest" /\ todo' \in Seq(StepNames) /\ Chained(todo')
      /\ \A x : Plans(todo, x) <=> x = "end" \/ Plans(todo', x)
  BY <1>1, DoesStep, GoesNone DEF After
<1>4. Kind' = Kind /\ (Timed' <=> Timed) /\ ~sharing /\ ~ScreenWanted /\ ~ScreenWanted'
  BY <1>1, <1>2, KindKept DEF ScreenWanted, ScreenInv, PlanInv
<1>5. TypesOK'
  <2>1. watched' \in BOOLEAN
    BY <1>1
  <2>2. QED  BY <1>1, <1>2, <1>3, <2>1 DEF TypesOK
<1>6. PlanInv'
  BY <1>1, <1>2, <1>3, <1>4 DEF ScreenInv, PlanInv
<1>7. NoneInv' /\ TimerInv'
  BY <1>1, <1>3, NoneKept, TimerKept DEF ScreenInv
<1>8. TimedInv' /\ RunInv' /\ ChosenInv'
  BY <1>1, <1>3, <1>4 DEF TimedInv, RunInv, ChosenInv
<1>9. WantInv'
  BY <1>1, <1>2, <1>3, <1>4 DEF ScreenInv, WantInv
<1>10. QED  BY <1>5, <1>6, <1>7, <1>8, <1>9, TypesAreNext DEF ScreenInv

LEMMA DecideInv == ASSUME ScreenInv, Decide PROVE ScreenInv'
<1>1. UNCHANGED <<platform, sharing, allowed, watched, device, fps, held, phase, selected, rate, ticking, listening, beats,
                  tasks, running, stream, replies, capturing, slipped, unstarted, asks>>
  BY DEF Decide, wishVars, timerState, streamVars, historyVars
<1>2. Kind' = Kind /\ (Timed' <=> Timed) /\ (ScreenWanted' <=> ScreenWanted) /\ (Lives' <=> Lives)
  BY <1>1, KindKept DEF ScreenWanted, Lives
<1>3. NoneInv'
  BY <1>1, NoneKept DEF ScreenInv
<1>4. CASE Does("reset") /\ held # "none" /\ Goes(<<"stop", "drop">>)
  <2>1. TypesOK /\ First = "reset" /\ Plans(todo, "reset") /\ asked' = asked
    BY <1>4, DoesStep
  <2>2. /\ First' = "stop" /\ todo' \in Seq(StepNames) /\ Chained(todo') /\ Plans(todo', "drop")
        /\ \A x : Plans(todo', x) => x \in {"stop", "drop"} \/ Plans(todo, x)
        /\ \A x : Plans(todo, x) => x = "reset" \/ Plans(todo', x)
    BY <1>4, DoesStep, GoesTwo DEF After, StepNames
  <2>3. TypesOK'
    BY <1>1, <2>1, <2>2 DEF TypesOK
  <2>4. PlanInv'
    BY <1>1, <1>2, <1>4, <2>1, <2>2 DEF ScreenInv, PlanInv
  <2>5. TimerInv' /\ RunInv'
    BY <1>1, <2>2, TimerKept, RunKept DEF ScreenInv
  <2>6. TimedInv'
    BY <1>1, <1>2, <2>1, <2>2 DEF ScreenInv, TimedInv
  <2>7. ChosenInv'
    BY <2>2 DEF ChosenInv
  <2>8. WantInv'
    BY <1>1, <1>2, <1>4, <2>1, <2>2 DEF ScreenInv, WantInv
  <2>9. QED  BY <1>3, <2>3, <2>4, <2>5, <2>6, <2>7, <2>8, TypesAreNext DEF ScreenInv
<1>5. CASE Does("reset") /\ held = "none" /\ Goes(<<>>)
  <2>1. TypesOK /\ First = "reset" /\ Plans(todo, "reset") /\ asked' = asked
    BY <1>5, DoesStep
  <2>2. /\ First' \in {"rest", "request", "end"} /\ todo' \in Seq(StepNames) /\ Chained(todo')
        /\ \A x : Plans(todo, x) <=> x = "reset" \/ Plans(todo', x)
    BY <1>5, DoesStep, GoesNone DEF After
  <2>3. TypesOK'
    BY <1>1, <2>1, <2>2 DEF TypesOK
  <2>4. PlanInv'
    BY <1>1, <1>2, <1>5, <2>1, <2>2 DEF ScreenInv, PlanInv
  <2>5. TimerInv' /\ RunInv'
    BY <1>1, <2>2, TimerKept, RunKept DEF ScreenInv
  <2>6. TimedInv' /\ ChosenInv'
    BY <1>1, <1>2, <1>5, <2>1, <2>2, KindFacts DEF ScreenInv, TimedInv, ChosenInv
  <2>7. WantInv'
    BY <1>1, <1>2, <1>5, <2>1, <2>2 DEF ScreenInv, WantInv
  <2>8. QED  BY <1>3, <2>3, <2>4, <2>5, <2>6, <2>7, TypesAreNext DEF ScreenInv
<1>6. CASE Does("request") /\ ScreenWanted /\ held = "none" /\ Goes(<<"create">>)
  <2>1. TypesOK /\ First = "request" /\ asked' = asked /\ \A x : Plans(todo, x) => x = "request"
    BY <1>6, DoesStep DEF After
  <2>2. /\ First' = "create" /\ todo' \in Seq(StepNames) /\ Chained(todo')
        /\ \A x : Plans(todo', x) => x = "create" \/ Plans(todo, x)
    BY <1>6, DoesStep, GoesOne DEF After, StepNames
  <2>3. TypesOK'
    BY <1>1, <2>1, <2>2 DEF TypesOK
  <2>4. PlanInv'
    BY <1>1, <1>2, <1>6, <2>1, <2>2 DEF ScreenInv, PlanInv
  <2>5. TimerInv' /\ RunInv'
    BY <1>1, <2>2, TimerKept, RunKept DEF ScreenInv
  <2>6. TimedInv' /\ ChosenInv'
    BY <1>1, <1>2, <1>6, <2>1, <2>2, KindFacts DEF ScreenInv, TimedInv, ChosenInv
  <2>7. WantInv'
    BY <1>1, <1>2, <1>6, <2>1, <2>2 DEF ScreenInv, WantInv
  <2>8. QED  BY <1>3, <2>3, <2>4, <2>5, <2>6, <2>7, TypesAreNext DEF ScreenInv
<1>7. CASE Does("request") /\ ~(ScreenWanted /\ held = "none") /\ Goes(<<>>)
  <2>1. TypesOK /\ First = "request" /\ asked' = asked /\ \A x : Plans(todo, x) => x = "request"
    BY <1>7, DoesStep DEF After
  <2>2. /\ First' = "rest" /\ todo' \in Seq(StepNames) /\ Chained(todo')
        /\ \A x : Plans(todo, x) <=> x = "request" \/ Plans(todo', x)
    BY <1>7, DoesStep, GoesNone DEF After
  <2>3. TypesOK'
    BY <1>1, <2>1, <2>2 DEF TypesOK
  <2>4. PlanInv'
    BY <1>1, <1>2, <1>7, <2>1, <2>2 DEF ScreenInv, PlanInv
  <2>5. TimerInv' /\ RunInv'
    BY <1>1, <2>2, TimerKept, RunKept DEF ScreenInv
  <2>6. TimedInv'
    BY <1>1, <1>2, <2>1, <2>2 DEF ScreenInv, TimedInv
  <2>7. ChosenInv'
    BY <1>1, <1>2, <2>1, <2>2 DEF ScreenInv, ChosenInv
  <2>8. WantInv'
    BY <1>1, <1>2, <1>7, <2>1, <2>2 DEF ScreenInv, WantInv
  <2>9. QED  BY <1>3, <2>3, <2>4, <2>5, <2>6, <2>7, <2>8, TypesAreNext DEF ScreenInv
<1>8. QED  BY <1>4, <1>5, <1>6, <1>7 DEF Decide

LEMMA CreateCapturerInv == ASSUME ScreenInv, CreateCapturer PROVE ScreenInv'
<1>1. /\ Does("create") /\ Goes(<<"start">>) /\ held' = TypeOf(device) /\ rate' = fps
      /\ slipped' = FALSE /\ unstarted' = FALSE
      /\ UNCHANGED <<platform, sharing, allowed, watched, device, fps, phase, selected, ticking, listening, beats,
                     tasks, running, stream, replies, capturing, asks>>
  BY DEF CreateCapturer, wishVars, timerState, streamVars
<1>2. TypesOK /\ First = "create" /\ asked' = asked /\ \A x : Plans(todo, x) => x = "create"
  BY <1>1, DoesStep DEF After
<1>3. /\ First' = "start" /\ todo' \in Seq(StepNames) /\ Chained(todo')
      /\ \A x : Plans(todo', x) => x = "start" \/ Plans(todo, x)
      /\ \A x : Plans(todo, x) => x = "create" \/ Plans(todo', x)
  BY <1>1, DoesStep, GoesOne DEF After, StepNames
<1>4. held = "none" /\ held' \in {"screen", "window"} /\ Kind = "none"
  BY <1>1, <1>2, KindFacts DEF ScreenInv, PlanInv, TypeOf
<1>5. TypesOK'
  <2>1. slipped' \in BOOLEAN /\ unstarted' \in BOOLEAN
    BY <1>1
  <2>2. QED  BY <1>1, <1>2, <1>3, <1>4, <2>1 DEF TypesOK
<1>6. (Kind' = "sck" => platform = "mac") /\ Kind' # "none"
  BY <1>1, <1>4 DEF Kind
<1>7. /\ phase = "Stopped" /\ selected = "nothing" /\ ~ticking /\ ~listening /\ beats = NoBeats
      /\ replies = <<>> /\ capturing = NotCapturing /\ OnlyEnds /\ (running => tasks # <<>>)
  BY <1>4 DEF ScreenInv, NoneInv
<1>8. (ScreenWanted' <=> ScreenWanted) /\ ~Lives' /\ (OnlyEnds' <=> OnlyEnds)
  BY <1>1, <1>7 DEF ScreenWanted, Lives, OnlyEnds
<1>9. PlanInv'
  <2>1. capturing'.at # "closing"
    BY <1>1, <1>7 DEF NotCapturing
  <2>2. QED  BY <1>1, <1>2, <1>3, <1>4, <2>1 DEF PlanInv
<1>10. NoneInv'
  BY <1>1, <1>4, <1>7, <1>8 DEF NoneInv
<1>11. TimerInv' /\ TimedInv'
  BY <1>1, <1>3, <1>7, <1>8, CapturingFacts DEF TimerInv, TimedInv
<1>12. RunInv'
  <2>1. platform = "mac" => ~running
    BY <1>7 DEF OnlyEnds
  <2>2. QED  BY <1>1, <1>6, <1>8, <2>1 DEF RunInv
<1>13. ChosenInv'
  BY <1>1, <1>3 DEF ChosenInv, TypeOf
<1>14. WantInv'
  BY <1>1, <1>2, <1>3, <1>4, <1>8 DEF ScreenInv, WantInv
<1>15. QED  BY <1>5, <1>9, <1>10, <1>11, <1>12, <1>13, <1>14, TypesAreNext DEF ScreenInv

LEMMA StopCapturerInv == ASSUME ScreenInv, StopCapturer PROVE ScreenInv'
<1>1. UNCHANGED <<platform, sharing, allowed, watched, device, fps, held, phase, selected, rate, ticking, listening, beats,
                  tasks, running, stream, replies, capturing, slipped, unstarted, asks>>
  BY DEF StopCapturer, wishVars, timerState, streamVars, historyVars
<1>2. TypesOK /\ Does("stop") /\ First = "stop" /\ asked' = asked
  BY DoesStep DEF StopCapturer
<1>3. Kind' = Kind /\ (Timed' <=> Timed) /\ (ScreenWanted' <=> ScreenWanted) /\ (Lives' <=> Lives)
  BY <1>1, KindKept DEF ScreenWanted, Lives
<1>4. held # "none" /\ Kind \in {"cg", "webrtc", "sck"} /\ (Timed <=> Kind \in {"cg", "webrtc"})
  BY <1>2, KindFacts DEF ScreenInv, PlanInv
<1>5. NoneInv'
  BY <1>1, NoneKept DEF ScreenInv
<1>6. ASSUME todo' \in Seq(StepNames), Chained(todo'), First' \in {"drop", "switch", "stopBase", "stopping"},
             \A x \in {"reset", "drop", "request"} : Plans(todo', x) <=> Plans(todo, x),
             Plans(todo', "end") => Plans(todo, "end"),
             First' \in {"drop", "switch"} /\ Timed => ~ticking,
             First' \in {"stopBase", "stopping"} /\ Timed => ticking,
             First' = "stopBase" => Timed,
             First' = "stopping" => Kind # "cg" /\ (StepAt(todo', 2) = "stopBase" <=> Kind = "webrtc")
      PROVE  ScreenInv'
  <2>1. TypesOK'
    BY <1>1, <1>2, <1>6 DEF TypesOK
  <2>2. PlanInv'
    BY <1>1, <1>2, <1>3, <1>4, <1>6 DEF ScreenInv, PlanInv
  <2>3. TimerInv' /\ RunInv'
    BY <1>1, <1>6, TimerKept, RunKept DEF ScreenInv
  <2>4. TimedInv'
    BY <1>1, <1>2, <1>3, <1>6 DEF ScreenInv, TimedInv, Lives
  <2>5. ChosenInv'
    BY <1>6 DEF ChosenInv
  <2>6. WantInv'
    BY <1>1, <1>2, <1>3, <1>4, <1>6 DEF ScreenInv, WantInv
  <2>7. QED  BY <1>5, <2>1, <2>2, <2>3, <2>4, <2>5, <2>6, TypesAreNext DEF ScreenInv
<1>7. CASE ~IsStarted
  <2>1. Goes(<<>>)
    BY <1>7 DEF StopCapturer
  <2>2. /\ First' \in {"drop", "switch"} /\ todo' \in Seq(StepNames) /\ Chained(todo')
        /\ \A x : Plans(todo, x) <=> x = "stop" \/ Plans(todo', x)
    BY <1>2, <2>1, DoesStep, GoesNone DEF After
  <2>3. Timed => ~ticking
    BY <1>4, <1>7 DEF IsStarted
  <2>4. QED  BY <1>6, <2>2, <2>3
<1>8. CASE IsStarted /\ Kind = "cg"
  <2>1. Goes(<<"stopBase">>)
    BY <1>8 DEF StopCapturer
  <2>2. /\ First' = "stopBase" /\ todo' \in Seq(StepNames) /\ Chained(todo')
        /\ \A x : Plans(todo', x) => x = "stopBase" \/ Plans(todo, x)
        /\ \A x : Plans(todo, x) => x = "stop" \/ Plans(todo', x)
    BY <1>2, <2>1, DoesStep, GoesOne DEF After, StepNames
  <2>3. ticking /\ Timed
    BY <1>4, <1>8 DEF IsStarted
  <2>4. QED  BY <1>6, <2>2, <2>3
<1>9. CASE IsStarted /\ Kind = "webrtc"
  <2>1. Goes(<<"stopping", "stopBase", "stopped">>)
    BY <1>9 DEF StopCapturer
  <2>2. /\ First' = "stopping" /\ StepAt(todo', 2) = "stopBase" /\ todo' \in Seq(StepNames) /\ Chained(todo')
        /\ \A x : Plans(todo', x) => x \in {"stopping", "stopBase", "stopped"} \/ Plans(todo, x)
        /\ \A x : Plans(todo, x) => x = "stop" \/ Plans(todo', x)
    BY <1>2, <2>1, DoesStep, GoesThree DEF After, StepNames
  <2>3. ticking
    BY <1>9 DEF IsStarted
  <2>4. QED  BY <1>6, <1>9, <2>2, <2>3
<1>10. CASE IsStarted /\ Kind = "sck"
  <2>1. Goes(<<"stopping">>)
    BY <1>10 DEF StopCapturer
  <2>2. /\ First' = "stopping" /\ StepAt(todo', 2) \in {"drop", "switch"}
        /\ todo' \in Seq(StepNames) /\ Chained(todo')
        /\ \A x : Plans(todo', x) => x = "stopping" \/ Plans(todo, x)
        /\ \A x : Plans(todo, x) => x = "stop" \/ Plans(todo', x)
    BY <1>2, <2>1, DoesStep, GoesOne DEF After, StepNames
  <2>3. QED  BY <1>4, <1>6, <1>10, <2>2
<1>11. QED  BY <1>4, <1>7, <1>8, <1>9, <1>10

\* What a stream that is asked to stop becomes.
LEMMA AskStopFacts ==
  ASSUME TypesOK, AskStop
  PROVE  /\ phase' \in {"Stopped", "Stopping"} /\ replies' \in Seq(ReplyType)
         /\ AcceptsPhase("Stopping") <=> Lives
         /\ ~AcceptsPhase("Stopping") => phase' = phase
<1>1. phase \in {"Stopped", "Starting", "Started", "Stopping"} /\ replies \in Seq(ReplyType) /\ stream \in Nat
  BY DEF TypesOK
<1>2. AcceptsPhase("Stopping") <=> Lives
  BY <1>1 DEF AcceptsPhase, Lives
<1>3. CASE AcceptsPhase("Stopping")
  <2> DEFINE r == [of |-> stream, what |-> "stopped"]
  <2>1. phase' = "Stopping" /\ replies' = Append(replies, r)
    BY <1>3 DEF AskStop
  <2>2. r \in ReplyType
    BY <1>1 DEF ReplyType
  <2> HIDE DEF r
  <2>3. QED  BY <1>1, <1>2, <1>3, <2>1, <2>2
<1>4. CASE ~AcceptsPhase("Stopping")
  BY <1>1, <1>2, <1>4 DEF AskStop, Lives
<1>5. QED  BY <1>3, <1>4

\* What the phase of a capturer becomes.
LEMMA PhaseFacts ==
  ASSUME TypesOK, NEW s \in {"Stopped", "Starting", "Started", "Stopping"}, ChangePhase(s)
  PROVE  /\ phase' \in {"Stopped", "Starting", "Started", "Stopping"}
         /\ s = "Stopped" => phase' = "Stopped"
         /\ s = "Stopping" => phase' = IF Lives THEN "Stopping" ELSE phase
         /\ s = "Starting" => phase' = IF Lives THEN phase ELSE "Starting"
         /\ s = "Started" => phase' = "Started"
         /\ AcceptsPhase("Started") <=> phase # "Started"
         /\ AcceptsPhase("Stopped") <=> phase # "Stopped"
         /\ AcceptsPhase("Starting") <=> ~Lives
BY DEF TypesOK, ChangePhase, AcceptsPhase, Lives

\* What captures when the tasks of its queue are done.
LEMMA WorkFacts ==
  ASSUME NEW q \in Seq({"begin", "capture", "end"}), NEW b
  PROVE  /\ \A c \in {"begin", "capture", "end"} : Append(q, c) \in Seq({"begin", "capture", "end"}) /\ Append(q, c) # <<>>
         /\ WillRun(Append(q, "begin"), b)
         /\ ~WillRun(Append(q, "end"), b)
         /\ WillRun(Append(q, "capture"), b) <=> WillRun(q, b)
         /\ q # <<>> => /\ Tail(q) \in Seq({"begin", "capture", "end"})
                        /\ Head(q) = "begin" => (WillRun(q, b) => WillRun(Tail(q), TRUE))
                        /\ Head(q) = "capture" => (WillRun(q, b) => WillRun(Tail(q), b))
                        /\ Head(q) = "end" => (WillRun(q, b) => WillRun(Tail(q), FALSE))
<1> DEFINE S == {"begin", "capture", "end"}
<1>1. ASSUME NEW c \in S
      PROVE  /\ Append(q, c) \in Seq(S) /\ Append(q, c) # <<>> /\ Len(q) \in Nat
             /\ DOMAIN q = 1..Len(q) /\ DOMAIN Append(q, c) = 1..(Len(q) + 1)
             /\ \A i \in 1..Len(q) : Append(q, c)[i] = q[i]
             /\ Append(q, c)[Len(q) + 1] = c
  OBVIOUS
<1>2. ASSUME NEW c \in S
      PROVE  /\ Len(q) + 1 \in DOMAIN Append(q, c) /\ Append(q, c)[Len(q) + 1] = c
             /\ \A i \in DOMAIN q : i \in DOMAIN Append(q, c) /\ i < Len(q) + 1 /\ Append(q, c)[i] = q[i]
             /\ \A i \in DOMAIN Append(q, c) : i \in DOMAIN q \/ i = Len(q) + 1
             /\ \A i \in DOMAIN Append(q, c) : ~(i > Len(q) + 1)
  BY <1>1
<1>3. WillRun(Append(q, "begin"), b)
  BY <1>2 DEF WillRun
<1>4. ~WillRun(Append(q, "end"), b)
  BY <1>2 DEF WillRun
<1>5. WillRun(Append(q, "capture"), b) <=> WillRun(q, b)
  <2> DEFINE p == Append(q, "capture")
  <2>1. (\A i \in DOMAIN p : p[i] = "capture") <=> (\A i \in DOMAIN q : q[i] = "capture")
    BY <1>2
  <2>2. ASSUME NEW i \in DOMAIN q, q[i] = "begin" /\ \A j \in DOMAIN q : j > i => q[j] = "capture"
        PROVE  i \in DOMAIN p /\ p[i] = "begin" /\ \A j \in DOMAIN p : j > i => p[j] = "capture"
    BY <1>2, <2>2
  <2>3. ASSUME NEW i \in DOMAIN p, p[i] = "begin" /\ \A j \in DOMAIN p : j > i => p[j] = "capture"
        PROVE  i \in DOMAIN q /\ q[i] = "begin" /\ \A j \in DOMAIN q : j > i => q[j] = "capture"
    <3>1. i \in DOMAIN q
      BY <1>2, <2>3
    <3>2. QED  BY <1>2, <2>3, <3>1
  <2> HIDE DEF p
  <2>4. QED  BY <2>1, <2>2, <2>3 DEF WillRun, p
<1>6. ASSUME q # <<>>
      PROVE  /\ Tail(q) \in Seq(S)
             /\ Head(q) = "begin" => (WillRun(q, b) => WillRun(Tail(q), TRUE))
             /\ Head(q) = "capture" => (WillRun(q, b) => WillRun(Tail(q), b))
             /\ Head(q) = "end" => (WillRun(q, b) => WillRun(Tail(q), FALSE))
  <2> DEFINE t == Tail(q)
  <2>1. /\ t \in Seq(S) /\ Head(q) = q[1] /\ Len(q) = Len(t) + 1 /\ Len(t) \in Nat
        /\ DOMAIN q = 1..(Len(t) + 1) /\ DOMAIN t = 1..Len(t)
        /\ \A i \in 1..Len(t) : t[i] = q[i + 1]
    BY <1>6
  <2> HIDE DEF t
  <2>2. 1 \in DOMAIN q /\ \A i \in DOMAIN t : i + 1 \in DOMAIN q /\ q[i + 1] = t[i]
    BY <2>1
  <2>3. ASSUME NEW i \in DOMAIN q, i # 1 PROVE i - 1 \in DOMAIN t /\ q[i] = t[i - 1]
    <3>1. i - 1 \in 1..Len(t) /\ (i - 1) + 1 = i
      BY <2>1, <2>3
    <3>2. QED  BY <2>1, <3>1
  <2>4. ASSUME \A i \in DOMAIN q : i # 1 => q[i] = "capture" PROVE \A i \in DOMAIN t : t[i] = "capture"
    <3> SUFFICES ASSUME NEW i \in DOMAIN t PROVE t[i] = "capture"
      OBVIOUS
    <3>1. i + 1 \in DOMAIN q /\ i + 1 # 1
      BY <2>1, <2>2
    <3>2. QED  BY <2>2, <2>4, <3>1
  <2>5. ASSUME NEW i \in DOMAIN q, i # 1, q[i] = "begin", \A j \in DOMAIN q : j > i => q[j] = "capture", NEW c
        PROVE  WillRun(t, c)
    <3>1. i - 1 \in DOMAIN t /\ t[i - 1] = "begin"
      BY <2>3, <2>5
    <3>2. ASSUME NEW j \in DOMAIN t, j > i - 1 PROVE t[j] = "capture"
      <4>1. j + 1 \in DOMAIN q /\ j + 1 > i
        BY <2>1, <2>2, <3>2
      <4>2. QED  BY <2>2, <2>5, <4>1
    <3>3. QED  BY <3>1, <3>2 DEF WillRun
  <2>6. ASSUME WillRun(q, b), Head(q) = "begin" PROVE WillRun(t, TRUE)
    <3>1. PICK i \in DOMAIN q : q[i] = "begin" /\ \A j \in DOMAIN q : j > i => q[j] = "capture"
      BY <2>1, <2>2, <2>6 DEF WillRun
    <3>2. CASE i = 1
      <4>1. \A j \in DOMAIN q : j # 1 => q[j] = "capture"
        BY <2>1, <3>1, <3>2
      <4>2. \A j \in DOMAIN t : t[j] = "capture"
        BY <2>4, <4>1
      <4>3. QED  BY <4>2 DEF WillRun
    <3>3. CASE i # 1
      BY <2>5, <3>1, <3>3
    <3>4. QED  BY <3>2, <3>3
  <2>7. ASSUME WillRun(q, b), Head(q) = "capture" PROVE WillRun(t, b)
    <3>1. CASE \A i \in DOMAIN q : q[i] = "capture"
      <4>1. b
        BY <2>7, <3>1 DEF WillRun
      <4>2. \A j \in DOMAIN t : t[j] = "capture"
        BY <2>4, <3>1
      <4>3. QED  BY <4>1, <4>2 DEF WillRun
    <3>2. CASE ~\A i \in DOMAIN q : q[i] = "capture"
      <4>1. PICK i \in DOMAIN q : q[i] = "begin" /\ \A j \in DOMAIN q : j > i => q[j] = "capture"
        BY <2>7, <3>2 DEF WillRun
      <4>2. i # 1
        BY <2>1, <2>7, <4>1
      <4>3. QED  BY <2>5, <4>1, <4>2
    <3>3. QED  BY <3>1, <3>2
  <2>8. ASSUME WillRun(q, b), Head(q) = "end" PROVE WillRun(t, FALSE)
    <3>1. PICK i \in DOMAIN q : q[i] = "begin" /\ \A j \in DOMAIN q : j > i => q[j] = "capture"
      BY <2>1, <2>2, <2>8 DEF WillRun
    <3>2. i # 1
      BY <2>1, <2>8, <3>1
    <3>3. QED  BY <2>5, <3>1, <3>2
  <2>9. QED  BY <2>1, <2>6, <2>7, <2>8 DEF t
<1>7. QED  BY <1>1, <1>3, <1>4, <1>5, <1>6

LEMMA StoppingInv == ASSUME ScreenInv, Stopping PROVE ScreenInv'
<1>1. /\ Does("stopping") /\ Goes(<<>>) /\ capturing.at # "closing"
      /\ UNCHANGED <<platform, sharing, allowed, watched, device, fps, held, selected, rate, ticking, listening, beats,
                     stream, capturing, slipped, unstarted, asks>>
  BY DEF Stopping, MayTell, wishVars, historyVars
<1>2. TypesOK /\ First = "stopping" /\ asked' = asked
  BY <1>1, DoesStep
<1>3. /\ First' = StepAt(todo, 2) /\ First' \in {"drop", "switch", "stopBase"}
      /\ todo' \in Seq(StepNames) /\ Chained(todo')
      /\ \A x : Plans(todo, x) <=> x = "stopping" \/ Plans(todo', x)
  BY <1>1, DoesStep, GoesNone DEF After
<1>4. Kind' = Kind /\ (Timed' <=> Timed) /\ (ScreenWanted' <=> ScreenWanted)
  BY <1>1, KindKept DEF ScreenWanted
<1>5. held # "none" /\ Kind \in {"webrtc", "sck"} /\ (First' = "stopBase" <=> Kind = "webrtc") /\ (Timed <=> Kind = "webrtc")
  BY <1>2, <1>3, KindFacts DEF ScreenInv, PlanInv
<1>6. PlanInv'
  BY <1>1, <1>2, <1>3, <1>4, <1>5 DEF ScreenInv, PlanInv
<1>7. TimerInv'
  BY <1>1, <1>3, TimerKept DEF ScreenInv
<1>8. ChosenInv'
  BY <1>3 DEF ChosenInv
<1>9. WantInv'
  BY <1>1, <1>2, <1>3, <1>4, <1>5 DEF ScreenInv, WantInv
<1>10. CASE Kind = "sck"
  <2>1. AskStop /\ running' = (running /\ ~AcceptsPhase("Stopping")) /\ tasks' = tasks
    BY <1>10 DEF Stopping
  <2>2. /\ phase' \in {"Stopped", "Stopping"} /\ replies' \in Seq(ReplyType)
        /\ AcceptsPhase("Stopping") <=> Lives
        /\ ~AcceptsPhase("Stopping") => phase' = phase
    BY <1>2, <2>1, AskStopFacts
  <2>3. running' \in BOOLEAN
    BY <2>1
  <2>4. TypesOK'
    BY <1>1, <1>2, <1>3, <2>1, <2>2, <2>3 DEF TypesOK
  <2>5. NoneInv'
    BY <1>1, <1>4, <1>5, <1>10, <2>1 DEF ScreenInv, NoneInv, OnlyEnds
  <2>6. TimedInv'
    BY <1>4, <1>5, <1>10 DEF TimedInv
  <2>7. RunInv'
    BY <1>1, <1>3, <1>4, <1>5, <1>10, <2>1, <2>2 DEF ScreenInv, RunInv, Lives
  <2>8. QED  BY <1>6, <1>7, <1>8, <1>9, <2>4, <2>5, <2>6, <2>7, TypesAreNext DEF ScreenInv
<1>11. CASE Kind = "webrtc"
  <2>1. ChangePhase("Stopping") /\ tasks' = Append(tasks, "end") /\ UNCHANGED <<running, replies>>
    BY <1>11 DEF Stopping
  <2>2. phase' \in {"Stopped", "Starting", "Started", "Stopping"} /\ phase' = IF Lives THEN "Stopping" ELSE phase
    BY <1>2, <2>1, PhaseFacts
  <2>3. tasks' \in Seq({"begin", "capture", "end"})
    BY <1>2, <2>1 DEF TypesOK
  <2>4. TypesOK'
    BY <1>1, <1>2, <1>3, <2>1, <2>2, <2>3 DEF TypesOK
  <2>5. NoneInv'
    BY <1>1, <1>4, <1>5, <1>11, <2>1 DEF ScreenInv, NoneInv
  <2>6. TimedInv'
    BY <1>1, <1>2, <1>3, <1>4, <1>5, <1>11, <2>2 DEF ScreenInv, TimedInv, Lives
  <2>7. RunInv'
    BY <1>1, <1>4, <1>11, <2>2 DEF ScreenInv, RunInv, Lives
  <2>8. QED  BY <1>6, <1>7, <1>8, <1>9, <2>4, <2>5, <2>6, <2>7, TypesAreNext DEF ScreenInv
<1>12. QED  BY <1>5, <1>10, <1>11

LEMMA StopBaseInv == ASSUME ScreenInv, StopBase PROVE ScreenInv'
<1>1. /\ ChangePhase("Stopped")
      /\ UNCHANGED <<platform, sharing, allowed, watched, device, fps, held, selected, rate, ticking, listening, beats,
                     tasks, running, stream, replies, capturing, slipped, unstarted, asks>>
  BY DEF StopBase, wishVars, timerState, streamVars, historyVars
<1>2. /\ TypesOK /\ asked' = asked /\ phase' = "Stopped" /\ ~Lives'
      /\ AcceptsPhase("Stopped") <=> phase # "Stopped"
  <2>1. TypesOK /\ asked' = asked
    BY DoesStep DEF StopBase
  <2>2. QED  BY <1>1, <2>1, PhaseFacts DEF Lives
<1>3. Kind' = Kind /\ (Timed' <=> Timed) /\ (ScreenWanted' <=> ScreenWanted)
  BY <1>1, KindKept DEF ScreenWanted
<1>4. ASSUME NEW op \in {"stopBase", "stopped"}, First = op,
             todo' \in Seq(StepNames), Chained(todo'), First' \in {"silence", "stopped", "drop", "switch"},
             \A x \in {"reset", "drop", "request"} : Plans(todo', x) <=> Plans(todo, x),
             Plans(todo', "end") => Plans(todo, "end"),
             op = "stopBase" /\ phase # "Stopped" => First' = "silence",
             op = "stopBase" /\ phase = "Stopped" => First' # "silence",
             op = "stopped" => First' \in {"drop", "switch"}
      PROVE  ScreenInv'
  <2>1. held # "none" /\ Timed /\ Kind \in {"cg", "webrtc"}
    BY <1>2, <1>4, KindFacts DEF ScreenInv, PlanInv
  <2>2. TypesOK'
    BY <1>1, <1>2, <1>4 DEF TypesOK
  <2>3. PlanInv'
    BY <1>1, <1>3, <1>4, <2>1 DEF ScreenInv, PlanInv
  <2>4. NoneInv'
    BY <1>1, <1>2, <1>3, <2>1 DEF ScreenInv, NoneInv, OnlyEnds
  <2>5. TimerInv'
    BY <1>1, <1>4, TimerKept DEF ScreenInv
  <2>6. TimedInv'
    BY <1>1, <1>2, <1>3, <1>4, <2>1 DEF ScreenInv, TimedInv, TypesOK, Lives
  <2>7. RunInv'
    BY <1>1, <1>2, <1>3, <2>1 DEF ScreenInv, RunInv
  <2>8. ChosenInv'
    BY <1>4 DEF ChosenInv
  <2>9. WantInv'
    BY <1>1, <1>2, <1>3, <1>4, <2>1 DEF ScreenInv, WantInv
  <2>10. QED  BY <2>2, <2>3, <2>4, <2>5, <2>6, <2>7, <2>8, <2>9, TypesAreNext DEF ScreenInv
<1>5. CASE Does("stopBase") /\ phase # "Stopped" /\ Goes(<<"silence">>)
  <2>1. /\ First = "stopBase" /\ First' = "silence" /\ todo' \in Seq(StepNames) /\ Chained(todo')
        /\ \A x : Plans(todo', x) => x = "silence" \/ Plans(todo, x)
        /\ \A x : Plans(todo, x) => x = "stopBase" \/ Plans(todo', x)
    BY <1>5, DoesStep, GoesOne DEF After, StepNames
  <2>2. QED  BY <1>4, <1>5, <2>1
<1>6. CASE Does("stopBase") /\ phase = "Stopped" /\ Goes(<<>>)
  <2>1. /\ First = "stopBase" /\ First' \in {"stopped", "drop", "switch"} /\ todo' \in Seq(StepNames) /\ Chained(todo')
        /\ \A x : Plans(todo, x) <=> x = "stopBase" \/ Plans(todo', x)
    BY <1>6, DoesStep, GoesNone DEF After
  <2>2. QED  BY <1>4, <1>6, <2>1
<1>7. CASE Does("stopped") /\ Goes(<<>>)
  <2>1. /\ First = "stopped" /\ First' \in {"drop", "switch"} /\ todo' \in Seq(StepNames) /\ Chained(todo')
        /\ \A x : Plans(todo, x) <=> x = "stopped" \/ Plans(todo', x)
    BY <1>7, DoesStep, GoesNone DEF After
  <2>2. QED  BY <1>4, <2>1
<1>8. QED  BY <1>2, <1>5, <1>6, <1>7 DEF StopBase

LEMMA SilenceInv == ASSUME ScreenInv, Silence PROVE ScreenInv'
<1>1. /\ Does("silence") /\ Goes(<<>>) /\ listening' = FALSE /\ ticking' = FALSE
      /\ UNCHANGED <<platform, sharing, allowed, watched, device, fps, held, phase, selected, rate, beats,
                     tasks, running, stream, replies, capturing, slipped, unstarted, asks>>
  BY DEF Silence, wishVars, streamVars, historyVars
<1>2. TypesOK /\ First = "silence" /\ asked' = asked
  BY <1>1, DoesStep
<1>3. /\ First' \in {"stopped", "drop", "switch"} /\ todo' \in Seq(StepNames) /\ Chained(todo')
      /\ \A x : Plans(todo, x) <=> x = "silence" \/ Plans(todo', x)
  BY <1>1, DoesStep, GoesNone DEF After
<1>4. Kind' = Kind /\ (Timed' <=> Timed) /\ (ScreenWanted' <=> ScreenWanted) /\ (Lives' <=> Lives)
  BY <1>1, KindKept DEF ScreenWanted, Lives
<1>5. held # "none" /\ Timed
  BY <1>2 DEF ScreenInv, PlanInv
<1>6. TypesOK'
  <2>1. listening' \in BOOLEAN /\ ticking' \in BOOLEAN
    BY <1>1
  <2>2. QED  BY <1>1, <1>2, <1>3, <2>1 DEF TypesOK
<1>7. PlanInv'
  BY <1>1, <1>2, <1>3, <1>4, <1>5 DEF ScreenInv, PlanInv
<1>8. NoneInv'
  BY <1>1, <1>4, <1>5 DEF ScreenInv, NoneInv, OnlyEnds
<1>9. TimerInv'
  BY <1>1, <1>3, <1>4 DEF ScreenInv, TimerInv
<1>10. TimedInv'
  BY <1>1, <1>2, <1>3, <1>4 DEF ScreenInv, TimedInv, Lives
<1>11. RunInv'
  BY <1>1, <1>3, RunKept DEF ScreenInv
<1>12. ChosenInv'
  BY <1>3 DEF ChosenInv
<1>13. WantInv'
  BY <1>1, <1>2, <1>3, <1>4, <1>5 DEF ScreenInv, WantInv
<1>14. QED  BY <1>6, <1>7, <1>8, <1>9, <1>10, <1>11, <1>12, <1>13, TypesAreNext DEF ScreenInv

\* A capturer that is gone.
LEMMA DroppedFacts ==
  ASSUME ScreenInv, DropCapturer, capturing' = NotCapturing, UNCHANGED platform
  PROVE  /\ held' = "none" /\ Kind' = "none" /\ ~Timed' /\ phase' = "Stopped" /\ selected' = "nothing"
         /\ ticking' \in BOOLEAN /\ listening' \in BOOLEAN /\ running' \in BOOLEAN
         /\ beats' \in [Rates -> Nat] /\ tasks' \in Seq({"begin", "capture", "end"}) /\ replies' \in Seq(ReplyType)
         /\ capturing' \in CapturingType /\ capturing'.at = "idle"
         /\ NoneInv' /\ ~ticking'
<1>1. /\ held' = "none" /\ phase' = "Stopped" /\ selected' = "nothing"
      /\ ticking' = FALSE /\ listening' = FALSE /\ beats' = NoBeats /\ replies' = <<>>
      /\ tasks' = IF Kind = "webrtc" /\ (running \/ tasks # <<>>) THEN <<"end">> ELSE tasks
      /\ running' = (running /\ Kind # "sck")
  BY DEF DropCapturer
<1>2. TypesOK
  BY TypesAre DEF ScreenInv
<1>3. Kind' = "none" /\ ~Timed'
  BY <1>1 DEF Kind, Timed
<1>4. /\ Kind \in {"none", "cg", "webrtc", "sck"} /\ (Kind = "webrtc" => platform # "mac")
      /\ Kind = "sck" => platform = "mac"
  <2>1. Kind = "webrtc" => platform # "mac"
    BY DEF Kind
  <2>2. QED  BY <1>2, <2>1, KindFacts
<1>5. OnlyEnds'
  <2>1. CASE Kind = "webrtc" /\ (running \/ tasks # <<>>)
    BY <1>1, <1>4, <2>1 DEF OnlyEnds
  <2>2. CASE Kind = "webrtc" /\ ~(running \/ tasks # <<>>)
    BY <1>1, <2>2 DEF OnlyEnds
  <2>3. CASE Kind # "webrtc"
    BY <1>1, <2>3 DEF ScreenInv, NoneInv, OnlyEnds
  <2>4. QED  BY <2>1, <2>2, <2>3
<1>6. running' => tasks' # <<>>
  <2>1. CASE Kind = "webrtc"
    BY <1>1, <2>1
  <2>2. CASE Kind # "webrtc"
    BY <1>1, <1>4, <2>2 DEF ScreenInv, NoneInv
  <2>3. QED  BY <2>1, <2>2
<1>7. NoneInv'
  BY <1>1, <1>3, <1>5, <1>6 DEF NoneInv
<1>8. tasks' \in Seq({"begin", "capture", "end"})
  <2>1. <<"end">> \in Seq({"begin", "capture", "end"})
    OBVIOUS
  <2>2. QED  BY <1>1, <1>2, <2>1 DEF TypesOK
<1>9. beats' \in [Rates -> Nat] /\ replies' \in Seq(ReplyType)
  BY <1>1 DEF NoBeats
<1>10. ticking' \in BOOLEAN /\ listening' \in BOOLEAN /\ running' \in BOOLEAN
  BY <1>1
<1>11. QED  BY <1>1, <1>3, <1>7, <1>8, <1>9, <1>10, CapturingFacts

LEMMA DropHeldInv == ASSUME ScreenInv, DropHeld PROVE ScreenInv'
<1>1. /\ Does("drop") /\ Goes(<<>>) /\ DropCapturer /\ capturing.at # "closing" /\ capturing' = NotCapturing
      /\ UNCHANGED <<platform, sharing, allowed, watched, device, fps, rate, stream, slipped, unstarted, asks>>
  BY DEF DropHeld, NotCapturing, wishVars, historyVars
<1>2. TypesOK /\ First = "drop" /\ Plans(todo, "drop") /\ asked' = asked
  BY <1>1, DoesStep
<1>3. /\ First' \in {"rest", "request", "end"} /\ todo' \in Seq(StepNames) /\ Chained(todo')
      /\ \A x : Plans(todo, x) <=> x = "drop" \/ Plans(todo', x)
  BY <1>1, DoesStep, GoesNone DEF After
<1>4. /\ held' = "none" /\ Kind' = "none" /\ ~Timed' /\ phase' = "Stopped" /\ selected' = "nothing"
      /\ ticking' \in BOOLEAN /\ listening' \in BOOLEAN /\ running' \in BOOLEAN
      /\ beats' \in [Rates -> Nat] /\ tasks' \in Seq({"begin", "capture", "end"}) /\ replies' \in Seq(ReplyType)
      /\ capturing' \in CapturingType /\ capturing'.at = "idle"
      /\ NoneInv' /\ ~ticking'
  BY <1>1, DroppedFacts
<1>5. ScreenWanted' <=> ScreenWanted
  BY <1>1 DEF ScreenWanted
<1>6. TypesOK'
  BY <1>1, <1>2, <1>3, <1>4 DEF TypesOK
<1>7. PlanInv'
  BY <1>1, <1>3, <1>4 DEF ScreenInv, PlanInv
<1>8. TimerInv' /\ TimedInv' /\ RunInv' /\ ChosenInv'
  BY <1>3, <1>4 DEF TimerInv, TimedInv, RunInv, ChosenInv
<1>9. WantInv'
  BY <1>1, <1>2, <1>3, <1>4, <1>5 DEF ScreenInv, WantInv
<1>10. QED  BY <1>4, <1>6, <1>7, <1>8, <1>9, TypesAreNext DEF ScreenInv

\* A source is selected: a stream ends, a timer that stands still is left alone.
LEMMA SelectedFacts ==
  ASSUME ScreenInv, ~CannotSelect, SelectDevice,
         UNCHANGED <<platform, sharing, held, rate, ticking, listening, beats, tasks, capturing, slipped, device>>
  PROVE  /\ held = TypeOf(device) /\ held # "none" /\ selected' = device
         /\ phase' \in {"Stopped", "Starting", "Started", "Stopping"} /\ stream' \in Nat
         /\ replies' \in Seq(ReplyType) /\ running' \in BOOLEAN
         /\ NoneInv' /\ RunInv'
         /\ Timed => phase' = phase
<1>1. TypesOK /\ held = TypeOf(device) /\ held # "none"
  BY TypesAre DEF ScreenInv, CannotSelect, TypeOf
<1>2. Kind' = Kind /\ (Timed' <=> Timed) /\ (OnlyEnds' <=> OnlyEnds)
  BY KindKept DEF OnlyEnds
<1>3. CASE Kind = "sck"
  <2>1. AskStop /\ selected' = device /\ stream' = stream + 1 /\ running' = FALSE
    BY <1>3 DEF SelectDevice
  <2>2. /\ phase' \in {"Stopped", "Stopping"} /\ replies' \in Seq(ReplyType)
        /\ AcceptsPhase("Stopping") <=> Lives
        /\ ~AcceptsPhase("Stopping") => phase' = phase
    BY <1>1, <2>1, AskStopFacts
  <2>3. stream' \in Nat
    BY <1>1, <2>1 DEF TypesOK
  <2>4. ~Timed /\ ~Lives'
    BY <1>3, <2>2 DEF Timed, Lives
  <2>5. NoneInv'
    BY <1>1, <1>2, <1>3, <2>1 DEF ScreenInv, NoneInv
  <2>6. RunInv'
    BY <1>2, <1>3, <2>1, <2>4 DEF RunInv
  <2>7. running' \in BOOLEAN
    BY <2>1
  <2>8. QED  BY <1>1, <2>1, <2>2, <2>3, <2>4, <2>5, <2>6, <2>7
<1>4. CASE Kind # "sck"
  <2>1. selected' = device /\ UNCHANGED <<phase, stream, replies, running>>
    BY <1>4 DEF SelectDevice
  <2>2. NoneInv'
    BY <1>1, <1>2, <1>4, <2>1 DEF ScreenInv, NoneInv
  <2>3. RunInv'
    BY <1>2, <1>4, <2>1 DEF ScreenInv, RunInv, Lives, WillRun
  <2>4. QED  BY <1>1, <2>1, <2>2, <2>3 DEF TypesOK
<1>5. QED  BY <1>3, <1>4

LEMMA SwitchInv == ASSUME ScreenInv, Switch PROVE ScreenInv'
<1>1. /\ Does("switch") /\ Goes(<<"start">>) /\ ~CannotSelect /\ SelectDevice
      /\ UNCHANGED <<platform, sharing, allowed, watched, device, fps, held, rate, ticking, listening, beats, tasks,
                     capturing, slipped, unstarted, asks>>
  BY DEF Switch, wishVars, timerState, historyVars
<1>2. TypesOK /\ First = "switch" /\ asked' = asked
  BY <1>1, DoesStep
<1>3. /\ First' = "start" /\ todo' \in Seq(StepNames) /\ Chained(todo')
      /\ \A x : Plans(todo', x) => x = "start" \/ Plans(todo, x)
      /\ \A x : Plans(todo, x) => x = "switch" \/ Plans(todo', x)
  BY <1>1, DoesStep, GoesOne DEF After, StepNames
<1>4. /\ held = TypeOf(device) /\ held # "none" /\ selected' = device
      /\ phase' \in {"Stopped", "Starting", "Started", "Stopping"} /\ stream' \in Nat
      /\ replies' \in Seq(ReplyType) /\ running' \in BOOLEAN
      /\ NoneInv' /\ RunInv'
      /\ Timed => phase' = phase
  BY <1>1, SelectedFacts
<1>5. Kind' = Kind /\ (Timed' <=> Timed) /\ (ScreenWanted' <=> ScreenWanted)
  BY <1>1, KindKept DEF ScreenWanted
<1>6. TypesOK'
  BY <1>1, <1>2, <1>3, <1>4 DEF TypesOK
<1>7. PlanInv'
  BY <1>1, <1>3, <1>4, <1>5 DEF ScreenInv, PlanInv
<1>8. TimerInv'
  BY <1>1, <1>3, TimerKept DEF ScreenInv
<1>9. TimedInv'
  BY <1>1, <1>2, <1>3, <1>4, <1>5 DEF ScreenInv, TimedInv, Lives
<1>10. ChosenInv'
  BY <1>1, <1>3, <1>4 DEF ChosenInv, TypeOf
<1>11. WantInv'
  BY <1>1, <1>2, <1>3, <1>4, <1>5 DEF ScreenInv, WantInv
<1>12. QED  BY <1>4, <1>6, <1>7, <1>8, <1>9, <1>10, <1>11, TypesAreNext DEF ScreenInv

LEMMA SwitchFailsInv == ASSUME ScreenInv, SwitchFails PROVE ScreenInv'
<1>1. /\ Does("switch") /\ Goes(<<"reset", "request">>)
      /\ UNCHANGED <<platform, sharing, allowed, watched, device, fps, held, phase, selected, rate, ticking, listening, beats,
                     tasks, running, stream, replies, capturing, slipped, unstarted, asks>>
  BY DEF SwitchFails, wishVars, timerState, streamVars, historyVars
<1>2. TypesOK /\ First = "switch" /\ asked' = asked
  BY <1>1, DoesStep
<1>3. /\ First' = "reset" /\ todo' \in Seq(StepNames) /\ Chained(todo')
      /\ \A x : Plans(todo', x) => x \in {"reset", "request"} \/ Plans(todo, x)
      /\ \A x : Plans(todo, x) => x = "switch" \/ Plans(todo', x)
      /\ Plans(todo', "reset") /\ Plans(todo', "request")
  BY <1>1, DoesStep, GoesTwo DEF After, StepNames
<1>4. Kind' = Kind /\ (Timed' <=> Timed) /\ (ScreenWanted' <=> ScreenWanted) /\ (Lives' <=> Lives)
  BY <1>1, KindKept DEF ScreenWanted, Lives
<1>5. TypesOK'
  BY <1>1, <1>2, <1>3 DEF TypesOK
<1>6. PlanInv'
  BY <1>1, <1>3, <1>4 DEF ScreenInv, PlanInv
<1>7. NoneInv' /\ TimerInv' /\ RunInv'
  BY <1>1, <1>3, NoneKept, TimerKept, RunKept DEF ScreenInv
<1>8. TimedInv'
  BY <1>1, <1>2, <1>3, <1>4 DEF ScreenInv, TimedInv
<1>9. ChosenInv'
  BY <1>3 DEF ChosenInv
<1>10. WantInv'
  BY <1>1, <1>2, <1>3, <1>4 DEF ScreenInv, WantInv
<1>11. QED  BY <1>5, <1>6, <1>7, <1>8, <1>9, <1>10, TypesAreNext DEF ScreenInv

LEMMA StartUnwantedInv == ASSUME ScreenInv, StartUnwanted PROVE ScreenInv'
<1>1. /\ Does("start") /\ Goes(<<>>) /\ ~ScreenWanted
      /\ UNCHANGED <<platform, sharing, allowed, watched, device, fps, held, phase, selected, rate, ticking, listening, beats,
                     tasks, running, stream, replies, capturing, slipped, unstarted, asks>>
  BY DEF StartUnwanted, wishVars, timerState, streamVars, historyVars
<1>2. TypesOK /\ First = "start" /\ asked' = asked /\ \A x : Plans(todo, x) => x = "start"
  BY <1>1, DoesStep DEF After
<1>3. /\ First' = "rest" /\ todo' \in Seq(StepNames) /\ Chained(todo')
      /\ \A x : Plans(todo, x) <=> x = "start" \/ Plans(todo', x)
  BY <1>1, DoesStep, GoesNone DEF After
<1>4. Kind' = Kind /\ (Timed' <=> Timed) /\ (ScreenWanted' <=> ScreenWanted) /\ (Lives' <=> Lives)
  BY <1>1, KindKept DEF ScreenWanted, Lives
<1>5. TypesOK'
  BY <1>1, <1>2, <1>3 DEF TypesOK
<1>6. PlanInv'
  BY <1>1, <1>3, <1>4 DEF ScreenInv, PlanInv
<1>7. NoneInv' /\ TimerInv' /\ RunInv'
  BY <1>1, <1>3, NoneKept, TimerKept, RunKept DEF ScreenInv
<1>8. TimedInv'
  BY <1>1, <1>2, <1>3, <1>4 DEF ScreenInv, TimedInv
<1>9. ChosenInv'
  <2>1. held # "none" /\ sharing => Has(asked, "reset")
    BY <1>1, <1>2 DEF ScreenInv, WantInv, PlanInv
  <2>2. QED  BY <1>1, <1>2, <1>3, <2>1 DEF ChosenInv
<1>10. WantInv'
  BY <1>1, <1>2, <1>3, <1>4 DEF ScreenInv, WantInv
<1>11. QED  BY <1>5, <1>6, <1>7, <1>8, <1>9, <1>10, TypesAreNext DEF ScreenInv

LEMMA StartSelectedInv == ASSUME ScreenInv, StartSelected PROVE ScreenInv'
<1>1. /\ Does("start") /\ Goes(<<"begin">>) /\ ScreenWanted /\ ~CannotSelect /\ SelectDevice
      /\ UNCHANGED <<platform, sharing, allowed, watched, device, fps, held, rate, ticking, listening, beats, tasks,
                     capturing, slipped, unstarted, asks>>
  BY DEF StartSelected, wishVars, timerState, historyVars
<1>2. TypesOK /\ First = "start" /\ asked' = asked /\ \A x : Plans(todo, x) => x = "start"
  BY <1>1, DoesStep DEF After
<1>3. /\ First' = "begin" /\ todo' \in Seq(StepNames) /\ Chained(todo')
      /\ \A x : Plans(todo', x) => x = "begin" \/ Plans(todo, x)
      /\ \A x : Plans(todo, x) => x = "start" \/ Plans(todo', x)
  BY <1>1, DoesStep, GoesOne DEF After, StepNames
<1>4. /\ held = TypeOf(device) /\ held # "none" /\ selected' = device
      /\ phase' \in {"Stopped", "Starting", "Started", "Stopping"} /\ stream' \in Nat
      /\ replies' \in Seq(ReplyType) /\ running' \in BOOLEAN
      /\ NoneInv' /\ RunInv'
      /\ Timed => phase' = phase
  BY <1>1, SelectedFacts
<1>5. Kind' = Kind /\ (Timed' <=> Timed) /\ (ScreenWanted' <=> ScreenWanted)
  BY <1>1, KindKept DEF ScreenWanted
<1>6. TypesOK'
  BY <1>1, <1>2, <1>3, <1>4 DEF TypesOK
<1>7. PlanInv'
  BY <1>1, <1>3, <1>4, <1>5 DEF ScreenInv, PlanInv
<1>8. TimerInv'
  BY <1>1, <1>3, TimerKept DEF ScreenInv
<1>9. TimedInv'
  BY <1>1, <1>2, <1>3, <1>4, <1>5 DEF ScreenInv, TimedInv, Lives
<1>10. ChosenInv'
  BY <1>1, <1>3, <1>4 DEF ChosenInv, TypeOf
<1>11. WantInv'
  BY <1>1, <1>2, <1>3, <1>4, <1>5 DEF ScreenInv, WantInv
<1>12. QED  BY <1>4, <1>6, <1>7, <1>8, <1>9, <1>10, <1>11, TypesAreNext DEF ScreenInv

LEMMA StartUnselectedInv == ASSUME ScreenInv, StartUnselected PROVE ScreenInv'
<1>1. /\ Does("start") /\ Goes(<<>>) /\ unstarted' = TRUE
      /\ UNCHANGED <<platform, sharing, allowed, watched, device, fps, held, phase, selected, rate, ticking, listening, beats,
                     tasks, running, stream, replies, capturing, slipped, asks>>
  BY DEF StartUnselected, wishVars, timerState, streamVars
<1>2. TypesOK /\ First = "start" /\ asked' = asked
  BY <1>1, DoesStep
<1>3. /\ First' = "rest" /\ todo' \in Seq(StepNames) /\ Chained(todo')
      /\ \A x : Plans(todo, x) <=> x = "start" \/ Plans(todo', x)
  BY <1>1, DoesStep, GoesNone DEF After
<1>4. Kind' = Kind /\ (Timed' <=> Timed) /\ (ScreenWanted' <=> ScreenWanted) /\ (Lives' <=> Lives)
  BY <1>1, KindKept DEF ScreenWanted, Lives
<1>5. TypesOK'
  <2>1. unstarted' \in BOOLEAN
    BY <1>1
  <2>2. QED  BY <1>1, <1>2, <1>3, <2>1 DEF TypesOK
<1>6. PlanInv'
  BY <1>1, <1>3, <1>4 DEF ScreenInv, PlanInv
<1>7. NoneInv' /\ TimerInv' /\ RunInv'
  BY <1>1, <1>3, NoneKept, TimerKept, RunKept DEF ScreenInv
<1>8. TimedInv'
  BY <1>1, <1>2, <1>3, <1>4 DEF ScreenInv, TimedInv
<1>9. ChosenInv'
  BY <1>1, <1>3 DEF ChosenInv
<1>10. WantInv'
  BY <1>1, <1>2, <1>3, <1>4 DEF ScreenInv, WantInv
<1>11. QED  BY <1>5, <1>6, <1>7, <1>8, <1>9, <1>10, TypesAreNext DEF ScreenInv

LEMMA BeginInv == ASSUME ScreenInv, Begin PROVE ScreenInv'
<1>1. /\ Does("begin") /\ Goes(<<>>) /\ ChangePhase("Starting")
      /\ UNCHANGED <<platform, sharing, allowed, watched, device, fps, held, selected, rate, stream,
                     capturing, slipped, unstarted, asks>>
  BY DEF Begin, wishVars, historyVars
<1>2. TypesOK /\ First = "begin" /\ asked' = asked /\ \A x : Plans(todo, x) => x = "begin"
  BY <1>1, DoesStep DEF After
<1>3. /\ First' = "rest" /\ todo' \in Seq(StepNames) /\ Chained(todo')
      /\ \A x : Plans(todo, x) <=> x = "begin" \/ Plans(todo', x)
  BY <1>1, DoesStep, GoesNone DEF After
<1>4. /\ phase' \in {"Stopped", "Starting", "Started", "Stopping"} /\ phase' = (IF Lives THEN phase ELSE "Starting") /\ Lives'
      /\ AcceptsPhase("Starting") <=> ~Lives
  BY <1>1, <1>2, PhaseFacts DEF Lives
<1>5. Kind' = Kind /\ (Timed' <=> Timed) /\ (ScreenWanted' <=> ScreenWanted)
  BY <1>1, KindKept DEF ScreenWanted
<1>6. held # "none" /\ Kind \in {"cg", "webrtc", "sck"} /\ (Timed <=> Kind \in {"cg", "webrtc"})
  BY <1>2, KindFacts DEF ScreenInv, PlanInv
<1>7. PlanInv'
  BY <1>1, <1>3, <1>5, <1>6 DEF ScreenInv, PlanInv
<1>8. ChosenInv'
  BY <1>1, <1>2, <1>3, <1>4 DEF ScreenInv, ChosenInv, TypeOf
<1>9. WantInv'
  BY <1>1, <1>2, <1>3, <1>5, <1>6 DEF ScreenInv, WantInv
<1>10. CASE Lives
  <2>1. UNCHANGED <<ticking, listening, beats, tasks, running, replies>> /\ phase' = phase
    BY <1>4, <1>10 DEF Begin, timerState
  <2>2. TypesOK'
    BY <1>1, <1>2, <1>3, <1>4, <2>1 DEF TypesOK
  <2>3. NoneInv' /\ TimerInv' /\ RunInv'
    BY <1>1, <1>3, <2>1, NoneKept, TimerKept, RunKept DEF ScreenInv
  <2>4. TimedInv'
    BY <1>1, <1>2, <1>3, <1>4, <1>5, <1>10, <2>1 DEF ScreenInv, TimedInv
  <2>5. QED  BY <1>7, <1>8, <1>9, <2>2, <2>3, <2>4, TypesAreNext DEF ScreenInv
<1>11. CASE ~Lives /\ Timed
  <2>1. /\ listening' = TRUE /\ ticking' = TRUE /\ beats' = Beat(rate)
        /\ tasks' = IF Kind = "webrtc" THEN Append(tasks, "begin") ELSE tasks
        /\ UNCHANGED <<running, replies>>
    BY <1>4, <1>11 DEF Begin
  <2>2. beats' \in [Rates -> Nat] /\ beats'[rate] > 0 /\ rate \in Rates
    BY <1>2, <2>1 DEF TypesOK, Beat
  <2>3. beats' # NoBeats
    BY <2>2 DEF NoBeats
  <2>4. tasks' \in Seq({"begin", "capture", "end"})
    BY <1>2, <2>1 DEF TypesOK
  <2>5. listening' \in BOOLEAN /\ ticking' \in BOOLEAN
    BY <2>1
  <2>6. TypesOK'
    BY <1>1, <1>2, <1>3, <1>4, <2>1, <2>2, <2>4, <2>5 DEF TypesOK
  <2>7. NoneInv'
    BY <1>1, <1>5, <1>6, <2>1 DEF ScreenInv, NoneInv, OnlyEnds
  <2>8. TimerInv'
    BY <1>1, <1>5, <1>11, <2>1, <2>3 DEF ScreenInv, TimerInv
  <2>9. TimedInv'
    BY <1>3, <1>4, <1>11, <2>1 DEF TimedInv
  <2>10. RunInv'
    <3>1. Kind = "webrtc" => WillRun(tasks, running)'
      <4>1. running \in BOOLEAN /\ tasks \in Seq({"begin", "capture", "end"})
        BY <1>2 DEF TypesOK
      <4>2. WillRun(Append(tasks, "begin"), running)
        BY <4>1, WorkFacts
      <4>3. QED  BY <2>1, <4>2
    <3>2. QED  BY <1>5, <1>6, <1>11, <3>1 DEF RunInv
  <2>11. QED  BY <1>7, <1>8, <1>9, <2>6, <2>7, <2>8, <2>9, <2>10, TypesAreNext DEF ScreenInv
<1>12. CASE ~Lives /\ ~Timed
  <2> DEFINE r == [of |-> stream, what |-> "started"]
  <2>1. /\ running' = TRUE /\ replies' = Append(replies, r)
        /\ UNCHANGED <<ticking, listening, beats, tasks>>
    BY <1>4, <1>12 DEF Begin, timerState
  <2>2. r \in ReplyType
    BY <1>2 DEF ReplyType, TypesOK
  <2> HIDE DEF r
  <2>3. replies' \in Seq(ReplyType)
    BY <1>2, <2>1, <2>2 DEF TypesOK
  <2>4. running' \in BOOLEAN
    BY <2>1
  <2>5. TypesOK'
    BY <1>1, <1>2, <1>3, <1>4, <2>1, <2>3, <2>4 DEF TypesOK
  <2>6. NoneInv'
    BY <1>1, <1>5, <1>6, <1>12, <2>1 DEF ScreenInv, NoneInv, OnlyEnds
  <2>7. TimerInv'
    BY <1>1, <1>3, <2>1, TimerKept DEF ScreenInv
  <2>8. TimedInv'
    BY <1>5, <1>12 DEF TimedInv
  <2>9. RunInv'
    BY <1>3, <1>4, <1>5, <1>6, <1>12, <2>1 DEF RunInv
  <2>10. QED  BY <1>7, <1>8, <1>9, <2>5, <2>6, <2>7, <2>8, <2>9, TypesAreNext DEF ScreenInv
<1>13. QED  BY <1>10, <1>11, <1>12

LEMMA SharingInv == ASSUME ScreenInv, Sharing PROVE ScreenInv'
BY RunTaskInv, RunOtherInv, RunRateInv, RetimeInv, RunClosingInv, ShareEndsInv, DecideInv, CreateCapturerInv,
   StopCapturerInv, StoppingInv, StopBaseInv, SilenceInv, DropHeldInv, SwitchInv, SwitchFailsInv, StartUnwantedInv,
   StartSelectedInv, StartUnselectedInv, BeginInv DEF Sharing

(***************************************************************************)
(* The queue of the timer.                                                 *)
(***************************************************************************)

\* Plans and tasks of the source stay what they are when only the capturer is at work.
LEMMA SourceKept ==
  ASSUME ScreenInv,
         UNCHANGED <<platform, sharing, allowed, watched, device, asked, todo, held, selected, unstarted>>,
         capturing.at # "closing", capturing'.at # "closing"
  PROVE  /\ TypesOK /\ PlanInv' /\ WantInv' /\ First' = First /\ Kind' = Kind /\ (Timed' <=> Timed)
         /\ (phase' = phase /\ slipped' = slipped) \/ (~slipped' => ~slipped /\ Lives /\ Lives') => ChosenInv'
<1>1. /\ TypesOK /\ First' = First /\ Kind' = Kind /\ (Timed' <=> Timed) /\ (ScreenWanted' <=> ScreenWanted)
      /\ Plans(todo', "reset") <=> Plans(todo, "reset")
  BY KindKept, TypesAre DEF ScreenInv, First, ScreenWanted
<1>2. PlanInv'
  BY PlanKept DEF ScreenInv
<1>3. WantInv'
  BY WantKept, <1>1 DEF ScreenInv
<1>4. ASSUME phase' = phase, slipped' = slipped PROVE ChosenInv'
  BY <1>1, <1>4, SelectKept DEF ScreenInv
<1>5. ASSUME ~slipped' => ~slipped /\ Lives /\ Lives' PROVE ChosenInv'
  BY <1>1, <1>5 DEF ScreenInv, ChosenInv, TypeOf
<1>6. QED  BY <1>1, <1>2, <1>3, <1>4, <1>5

LEMMA TickInv == ASSUME ScreenInv, NEW r \in Rates, Tick(r) PROVE ScreenInv'
<1>1. /\ capturing = NotCapturing /\ beats[r] > 0 /\ beats' = [beats EXCEPT ![r] = @ - 1]
      /\ capturing' = IF ticking THEN [at |-> IF listening THEN "tick" ELSE "repost", rate |-> r] ELSE NotCapturing
      /\ UNCHANGED <<platform, sharing, allowed, watched, device, fps, asked, todo, held, phase, selected, rate, ticking,
                     listening, tasks, running, stream, replies, slipped, unstarted, asks>>
  BY DEF Tick, wishVars, streamVars, historyVars
<1>2. TypesOK
  BY TypesAre DEF ScreenInv
<1>3. /\ capturing' \in CapturingType /\ capturing.at = "idle"
      /\ ticking => capturing'.at \in {"tick", "repost"}
      /\ ~ticking => capturing'.at = "idle"
  BY <1>1, CapturingFacts
<1>4. beats' \in [Rates -> Nat] /\ held # "none"
  <2>1. beats \in [Rates -> Nat] /\ beats[r] - 1 \in Nat
    BY <1>1, <1>2 DEF TypesOK
  <2>2. held # "none"
    BY <1>1 DEF ScreenInv, NoneInv, NoBeats
  <2>3. QED  BY <1>1, <2>1, <2>2
<1>5. PlanInv' /\ WantInv' /\ ChosenInv' /\ First' = First /\ Kind' = Kind /\ (Timed' <=> Timed)
  <2>1. capturing.at # "closing" /\ capturing'.at # "closing"
    BY <1>2, <1>3 DEF TypesOK
  <2>2. QED  BY <1>1, <2>1, SourceKept
<1>6. TypesOK'
  BY <1>1, <1>2, <1>3, <1>4 DEF TypesOK
<1>7. NoneInv'
  BY <1>1, <1>4, <1>5 DEF ScreenInv, NoneInv, OnlyEnds
<1>8. TimerInv'
  BY <1>1, <1>2, <1>3, <1>5 DEF ScreenInv, TimerInv, TypesOK
<1>9. TimedInv'
  BY <1>1, <1>5, TimedKept DEF ScreenInv
<1>10. RunInv'
  BY <1>1, <1>3, <1>5 DEF ScreenInv, RunInv, Lives
<1>11. QED  BY <1>5, <1>6, <1>7, <1>8, <1>9, <1>10, TypesAreNext DEF ScreenInv

\* A frame: the capturer was up, or slips.
LEMMA UpFacts ==
  ASSUME TypesOK, ComesUp
  PROVE  phase' = "Started" /\ slipped' \in BOOLEAN /\ Lives' /\ (~slipped' => ~slipped /\ Lives)
<1>1. ChangePhase("Started") /\ slipped' = (slipped \/ (AcceptsPhase("Started") /\ phase # "Starting"))
  BY DEF ComesUp
<1>2. phase' = "Started" /\ (AcceptsPhase("Started") <=> phase # "Started")
  BY <1>1, PhaseFacts
<1>3. slipped' \in BOOLEAN
  BY <1>1
<1>4. QED  BY <1>1, <1>2, <1>3 DEF Lives

LEMMA CaptureNextFrameInv == ASSUME ScreenInv, CaptureNextFrame PROVE ScreenInv'
<1>1. /\ capturing.at = "tick" /\ capturing' = [capturing EXCEPT !.at = "repost"]
      /\ UNCHANGED <<platform, sharing, allowed, watched, device, fps, asked, todo, held, selected, rate, ticking,
                     listening, beats, running, stream, replies, unstarted, asks>>
  BY DEF CaptureNextFrame, wishVars, streamVars
<1>2. TypesOK
  BY TypesAre DEF ScreenInv
<1>3. capturing' \in CapturingType /\ capturing'.at = "repost"
  BY <1>1, <1>2 DEF TypesOK, CapturingType
<1>4. Timed /\ Kind \in {"cg", "webrtc"} /\ held # "none"
  BY <1>1, <1>2, KindFacts DEF ScreenInv, TimerInv
<1>5. /\ PlanInv' /\ WantInv' /\ First' = First /\ Kind' = Kind /\ (Timed' <=> Timed)
      /\ (phase' = phase /\ slipped' = slipped) \/ (~slipped' => ~slipped /\ Lives /\ Lives') => ChosenInv'
  BY <1>1, <1>3, SourceKept
<1>6. TimerInv'
  BY <1>1, <1>3, <1>4, <1>5 DEF ScreenInv, TimerInv
<1>7. CASE Kind = "cg"
  <2>1. ComesUp /\ tasks' = tasks
    BY <1>7 DEF CaptureNextFrame
  <2>2. phase' = "Started" /\ slipped' \in BOOLEAN /\ Lives' /\ (~slipped' => ~slipped /\ Lives)
    BY <1>2, <2>1, UpFacts
  <2>3. TypesOK'
    BY <1>1, <1>2, <1>3, <2>1, <2>2 DEF TypesOK
  <2>4. NoneInv'
    BY <1>1, <1>4, <1>5, <2>1 DEF ScreenInv, NoneInv, OnlyEnds
  <2>5. TimedInv'
    BY <1>1, <1>4, <1>5, <2>2 DEF ScreenInv, TimedInv, Lives
  <2>6. RunInv'
    BY <1>5, <1>7 DEF RunInv
  <2>7. ChosenInv'
    BY <1>5, <2>2
  <2>8. QED  BY <1>5, <1>6, <2>3, <2>4, <2>5, <2>6, <2>7, TypesAreNext DEF ScreenInv
<1>8. CASE Kind = "webrtc"
  <2>1. tasks' = Append(tasks, "capture") /\ UNCHANGED <<phase, slipped>>
    BY <1>8 DEF CaptureNextFrame
  <2>2. tasks' \in Seq({"begin", "capture", "end"})
    BY <1>2, <2>1 DEF TypesOK
  <2>3. TypesOK'
    BY <1>1, <1>2, <1>3, <2>1, <2>2 DEF TypesOK
  <2>4. NoneInv'
    BY <1>1, <1>4, <1>5, <1>8, <2>1 DEF ScreenInv, NoneInv
  <2>5. TimedInv' /\ ChosenInv'
    BY <1>1, <1>5, <2>1, TimedKept DEF ScreenInv
  <2>6. WillRun(tasks, running) => WillRun(tasks, running)'
    <3>1. running \in BOOLEAN /\ tasks \in Seq({"begin", "capture", "end"})
      BY <1>2 DEF TypesOK
    <3>2. WillRun(Append(tasks, "capture"), running) <=> WillRun(tasks, running)
      BY <3>1, WorkFacts
    <3>3. QED  BY <1>1, <2>1, <3>2
  <2>7. RunInv'
    BY <1>1, <1>5, <1>8, <2>1, <2>6 DEF ScreenInv, RunInv, Lives
  <2>8. QED  BY <1>5, <1>6, <2>3, <2>4, <2>5, <2>7, TypesAreNext DEF ScreenInv
<1>9. QED  BY <1>4, <1>7, <1>8

LEMMA RepostInv == ASSUME ScreenInv, Repost PROVE ScreenInv'
<1>1. /\ capturing.at = "repost" /\ capturing' = NotCapturing
      /\ beats' = IF ticking THEN Beat(capturing.rate) ELSE beats
      /\ UNCHANGED <<platform, sharing, allowed, watched, device, fps, asked, todo, held, phase, selected, rate, ticking,
                     listening, tasks, running, stream, replies, slipped, unstarted, asks>>
  BY DEF Repost, wishVars, streamVars, historyVars
<1>2. TypesOK
  BY TypesAre DEF ScreenInv
<1>3. /\ capturing' \in CapturingType /\ capturing'.at = "idle" /\ capturing # NotCapturing /\ capturing.rate \in Rates
  BY <1>1, <1>2, CapturingFacts DEF TypesOK
<1>4. held # "none"
  BY <1>3 DEF ScreenInv, NoneInv
<1>5. beats' \in [Rates -> Nat] /\ (ticking => beats' # NoBeats)
  <2>1. CASE ticking
    <3>1. beats' \in [Rates -> Nat] /\ beats'[capturing.rate] > 0
      BY <1>1, <1>2, <1>3, <2>1 DEF TypesOK, Beat
    <3>2. QED  BY <1>3, <3>1 DEF NoBeats
  <2>2. CASE ~ticking
    BY <1>1, <1>2, <2>2 DEF TypesOK
  <2>3. QED  BY <2>1, <2>2
<1>6. PlanInv' /\ WantInv' /\ ChosenInv' /\ First' = First /\ Kind' = Kind /\ (Timed' <=> Timed)
  BY <1>1, <1>3, SourceKept
<1>7. TypesOK'
  BY <1>1, <1>2, <1>3, <1>5 DEF TypesOK
<1>8. NoneInv'
  BY <1>1, <1>4, <1>6 DEF ScreenInv, NoneInv, OnlyEnds
<1>9. TimerInv'
  BY <1>1, <1>3, <1>5, <1>6 DEF ScreenInv, TimerInv
<1>10. TimedInv'
  BY <1>1, <1>6, TimedKept DEF ScreenInv
<1>11. RunInv'
  BY <1>1, <1>3, <1>6 DEF ScreenInv, RunInv, Lives
<1>12. QED  BY <1>6, <1>7, <1>8, <1>9, <1>10, <1>11, TypesAreNext DEF ScreenInv

\* A task of the queue: only the capturer of WebRTC has others than its end.
LEMMA WorkStep ==
  ASSUME ScreenInv, NEW op \in {"begin", "capture", "end"}, Works(op)
  PROVE  /\ TypesOK /\ capturing = NotCapturing /\ capturing.at = "idle"
         /\ tasks # <<>> /\ Head(tasks) = op /\ tasks' = Tail(tasks) /\ tasks' \in Seq({"begin", "capture", "end"})
         /\ op # "end" => Kind = "webrtc"
         /\ Kind # "webrtc" => tasks' = <<>> /\ Kind # "sck"
<1>1. capturing = NotCapturing /\ tasks # <<>> /\ Head(tasks) = op /\ tasks' = Tail(tasks)
  BY DEF Works
<1>2. TypesOK /\ capturing.at = "idle"
  BY <1>1, TypesAre, CapturingFacts DEF ScreenInv
<1>3. tasks' \in Seq({"begin", "capture", "end"})
  BY <1>1, <1>2 DEF TypesOK
<1>4. ASSUME Kind # "webrtc" PROVE tasks' = <<>> /\ Kind # "sck" /\ op = "end"
  <2>1. tasks = <<"end">> /\ platform # "mac"
    BY <1>1, <1>4 DEF ScreenInv, NoneInv, OnlyEnds
  <2>2. Head(<<"end">>) = "end" /\ Tail(<<"end">>) = <<>>
    OBVIOUS
  <2>3. QED  BY <1>1, <1>2, <2>1, <2>2, KindFacts
<1>5. QED  BY <1>1, <1>2, <1>3, <1>4

LEMMA BeginCaptureInv == ASSUME ScreenInv, BeginCapture PROVE ScreenInv'
<1>1. /\ Works("begin") /\ running' = TRUE /\ capturing' \in {NotCapturing, [at |-> "error"]}
      /\ UNCHANGED <<platform, sharing, allowed, watched, device, fps, asked, todo, held, phase, selected, rate, ticking,
                     listening, beats, stream, replies, slipped, unstarted, asks>>
  BY DEF BeginCapture, wishVars, streamVars, historyVars
<1>2. /\ TypesOK /\ capturing.at = "idle" /\ tasks # <<>> /\ Head(tasks) = "begin" /\ tasks' = Tail(tasks)
      /\ tasks' \in Seq({"begin", "capture", "end"}) /\ Kind = "webrtc" /\ held # "none"
  BY <1>1, WorkStep, KindFacts
<1>3. capturing' \in CapturingType /\ capturing'.at \in {"idle", "error"}
  BY <1>1, CapturingFacts
<1>4. PlanInv' /\ WantInv' /\ ChosenInv' /\ First' = First /\ Kind' = Kind /\ (Timed' <=> Timed)
  BY <1>1, <1>2, <1>3, SourceKept
<1>5. TypesOK'
  <2>1. running' \in BOOLEAN
    BY <1>1
  <2>2. QED  BY <1>1, <1>2, <1>3, <2>1 DEF TypesOK
<1>6. NoneInv'
  BY <1>1, <1>2, <1>4 DEF ScreenInv, NoneInv
<1>7. TimerInv'
  BY <1>1, <1>2, <1>3, <1>4 DEF ScreenInv, TimerInv
<1>8. TimedInv'
  BY <1>1, <1>4, TimedKept DEF ScreenInv
<1>9. WillRun(tasks, running) => WillRun(tasks, running)'
  <2>1. tasks \in Seq({"begin", "capture", "end"})
    BY <1>2 DEF TypesOK
  <2>2. WillRun(tasks, running) => WillRun(Tail(tasks), TRUE)
    BY <1>2, <2>1, WorkFacts
  <2>3. QED  BY <1>1, <1>2, <2>2
<1>10. RunInv'
  BY <1>1, <1>2, <1>4, <1>9 DEF ScreenInv, RunInv, Lives
<1>11. QED  BY <1>4, <1>5, <1>6, <1>7, <1>8, <1>10, TypesAreNext DEF ScreenInv

LEMMA CaptureFrameInv == ASSUME ScreenInv, CaptureFrame PROVE ScreenInv'
<1>1. /\ Works("capture")
      /\ UNCHANGED <<platform, sharing, allowed, watched, device, fps, asked, todo, held, selected, rate, ticking,
                     listening, beats, running, stream, replies, unstarted, asks>>
  BY DEF CaptureFrame, wishVars, streamVars
<1>2. /\ TypesOK /\ capturing = NotCapturing /\ capturing.at = "idle" /\ tasks # <<>> /\ Head(tasks) = "capture"
      /\ tasks' = Tail(tasks)
      /\ tasks' \in Seq({"begin", "capture", "end"}) /\ Kind = "webrtc" /\ held # "none"
  BY <1>1, WorkStep, KindFacts
<1>3. /\ phase' \in {"Stopped", "Starting", "Started", "Stopping"} /\ slipped' \in BOOLEAN
      /\ (phase' = phase /\ slipped' = slipped) \/ ((~slipped' => ~slipped /\ Lives) /\ Lives')
      /\ capturing' \in CapturingType /\ capturing'.at \in {"idle", "error"}
  <2>1. CASE running
    <3>1. ComesUp /\ capturing' \in {NotCapturing, [at |-> "error"]}
      BY <2>1 DEF CaptureFrame
    <3>2. QED  BY <1>2, <3>1, UpFacts, CapturingFacts
  <2>2. CASE ~running
    BY <1>2, <2>2 DEF CaptureFrame, TypesOK
  <2>3. QED  BY <2>1, <2>2
<1>4. /\ PlanInv' /\ WantInv' /\ First' = First /\ Kind' = Kind /\ (Timed' <=> Timed) /\ ChosenInv'
  <2>1. capturing.at # "closing" /\ capturing'.at # "closing"
    BY <1>2, <1>3
  <2>2. QED  BY <1>1, <1>3, <2>1, SourceKept
<1>5. TypesOK'
  BY <1>1, <1>2, <1>3 DEF TypesOK
<1>6. NoneInv'
  BY <1>1, <1>2, <1>4 DEF ScreenInv, NoneInv
<1>7. TimerInv'
  BY <1>1, <1>2, <1>3, <1>4 DEF ScreenInv, TimerInv
<1>8. TimedInv'
  <2>1. CASE phase' = phase /\ slipped' = slipped
    BY <1>1, <1>4, <2>1, TimedKept DEF ScreenInv
  <2>2. CASE (~slipped' => ~slipped /\ Lives) /\ Lives'
    BY <1>1, <1>4, <2>2 DEF ScreenInv, TimedInv, Lives
  <2>3. QED  BY <1>3, <2>1, <2>2
<1>9. WillRun(tasks, running) => WillRun(tasks, running)'
  <2>1. tasks \in Seq({"begin", "capture", "end"})
    BY <1>2 DEF TypesOK
  <2>2. WillRun(tasks, running) => WillRun(Tail(tasks), running)
    BY <1>2, <2>1, WorkFacts
  <2>3. QED  BY <1>1, <1>2, <2>2
<1>10. RunInv'
  BY <1>1, <1>2, <1>3, <1>4, <1>9 DEF ScreenInv, RunInv, Lives
<1>11. QED  BY <1>4, <1>5, <1>6, <1>7, <1>8, <1>10, TypesAreNext DEF ScreenInv

LEMMA EndCaptureInv == ASSUME ScreenInv, EndCapture PROVE ScreenInv'
<1>1. /\ Works("end") /\ running' = FALSE
      /\ UNCHANGED <<platform, sharing, allowed, watched, device, fps, asked, todo, held, phase, selected, rate, ticking,
                     listening, beats, stream, replies, capturing, slipped, unstarted, asks>>
  BY DEF EndCapture, wishVars, streamVars, historyVars
<1>2. /\ TypesOK /\ capturing.at = "idle" /\ tasks # <<>> /\ Head(tasks) = "end" /\ tasks' = Tail(tasks)
      /\ tasks' \in Seq({"begin", "capture", "end"}) /\ (Kind # "webrtc" => tasks' = <<>> /\ Kind # "sck")
  BY <1>1, WorkStep
<1>3. PlanInv' /\ WantInv' /\ ChosenInv' /\ First' = First /\ Kind' = Kind /\ (Timed' <=> Timed)
  BY <1>1, <1>2, SourceKept
<1>4. TypesOK'
  <2>1. running' \in BOOLEAN
    BY <1>1
  <2>2. QED  BY <1>1, <1>2, <2>1 DEF TypesOK
<1>5. NoneInv'
  BY <1>1, <1>2, <1>3 DEF ScreenInv, NoneInv, OnlyEnds
<1>6. TimerInv'
  BY <1>1, <1>3 DEF ScreenInv, TimerInv
<1>7. TimedInv'
  BY <1>1, <1>3, TimedKept DEF ScreenInv
<1>8. WillRun(tasks, running) => WillRun(tasks, running)'
  <2>1. tasks \in Seq({"begin", "capture", "end"})
    BY <1>2 DEF TypesOK
  <2>2. WillRun(tasks, running) => WillRun(Tail(tasks), FALSE)
    BY <1>2, <2>1, WorkFacts
  <2>3. QED  BY <1>1, <1>2, <2>2
<1>9. RunInv'
  BY <1>1, <1>2, <1>3, <1>8 DEF ScreenInv, RunInv, Lives
<1>10. QED  BY <1>3, <1>4, <1>5, <1>6, <1>7, <1>9, TypesAreNext DEF ScreenInv

(***************************************************************************)
(* ScreenCaptureKit and errors.                                            *)
(***************************************************************************)

\* An answer of a stream.
LEMMA ReplyStep ==
  ASSUME ScreenInv, NEW i \in DOMAIN replies, NEW what, Replies(i, what)
  PROVE  /\ TypesOK /\ capturing = NotCapturing /\ capturing.at = "idle" /\ Kind = "sck" /\ ~Timed /\ held # "none"
         /\ replies' \in Seq(ReplyType) /\ ~ticking
<1>1. /\ capturing = NotCapturing
      /\ replies' = SubSeq(replies, 1, i - 1) \o SubSeq(replies, i + 1, Len(replies))
  BY DEF Replies
<1>2. TypesOK /\ capturing.at = "idle"
  BY <1>1, TypesAre, CapturingFacts DEF ScreenInv
<1>3. replies \in Seq(ReplyType) /\ i \in 1..Len(replies) /\ Len(replies) \in Nat
  BY <1>2 DEF TypesOK
<1>4. SubSeq(replies, 1, i - 1) \in Seq(ReplyType) /\ SubSeq(replies, i + 1, Len(replies)) \in Seq(ReplyType)
  BY <1>3
<1>5. replies' \in Seq(ReplyType)
  BY <1>1, <1>4
<1>6. Kind = "sck"
  BY <1>3 DEF ScreenInv, NoneInv
<1>7. ~Timed /\ held # "none"
  BY <1>2, <1>6, KindFacts
<1>8. QED  BY <1>1, <1>2, <1>5, <1>6, <1>7 DEF ScreenInv, TimerInv

LEMMA StreamStartedInv == ASSUME ScreenInv, NEW i \in DOMAIN replies, StreamStarted(i) PROVE ScreenInv'
<1>1. /\ Replies(i, "started") /\ ComesUp
      /\ UNCHANGED <<platform, sharing, allowed, watched, device, fps, asked, todo, held, selected, rate, ticking,
                     listening, beats, tasks, running, stream, capturing, unstarted, asks>>
  BY DEF StreamStarted, wishVars, timerState
<1>2. /\ TypesOK /\ capturing = NotCapturing /\ capturing.at = "idle" /\ Kind = "sck" /\ ~Timed /\ held # "none"
      /\ replies' \in Seq(ReplyType)
  BY <1>1, ReplyStep
<1>3. phase' = "Started" /\ slipped' \in BOOLEAN /\ Lives' /\ (~slipped' => ~slipped /\ Lives)
  BY <1>1, <1>2, UpFacts
<1>4. /\ PlanInv' /\ WantInv' /\ First' = First /\ Kind' = Kind /\ (Timed' <=> Timed) /\ ChosenInv'
  BY <1>1, <1>2, <1>3, SourceKept
<1>5. TypesOK'
  BY <1>1, <1>2, <1>3 DEF TypesOK
<1>6. NoneInv'
  BY <1>1, <1>2, <1>4 DEF ScreenInv, NoneInv, OnlyEnds
<1>7. TimerInv'
  BY <1>1, <1>4, TimerKept DEF ScreenInv
<1>8. TimedInv'
  BY <1>2, <1>4 DEF TimedInv
<1>9. RunInv'
  BY <1>1, <1>2, <1>3, <1>4 DEF ScreenInv, RunInv
<1>10. QED  BY <1>4, <1>5, <1>6, <1>7, <1>8, <1>9, TypesAreNext DEF ScreenInv

LEMMA StreamNotStartedInv == ASSUME ScreenInv, NEW i \in DOMAIN replies, StreamNotStarted(i) PROVE ScreenInv'
<1>1. /\ Replies(i, "started") /\ capturing' = [at |-> "error"] /\ running' = (running /\ replies[i].of # stream)
      /\ UNCHANGED <<platform, sharing, allowed, watched, device, fps, asked, todo, held, phase, selected, rate, ticking,
                     listening, beats, tasks, stream, slipped, unstarted, asks>>
  BY DEF StreamNotStarted, wishVars, timerState, historyVars
<1>2. /\ TypesOK /\ capturing.at = "idle" /\ Kind = "sck" /\ ~Timed /\ held # "none" /\ ~ticking
      /\ replies' \in Seq(ReplyType)
  BY <1>1, ReplyStep
<1>3. capturing' \in CapturingType /\ capturing'.at = "error"
  BY <1>1, CapturingFacts
<1>4. /\ PlanInv' /\ WantInv' /\ First' = First /\ Kind' = Kind /\ (Timed' <=> Timed) /\ ChosenInv'
  BY <1>1, <1>2, <1>3, SourceKept
<1>5. TypesOK'
  <2>1. running' \in BOOLEAN
    BY <1>1
  <2>2. QED  BY <1>1, <1>2, <1>3, <2>1 DEF TypesOK
<1>6. NoneInv'
  BY <1>1, <1>2, <1>4 DEF ScreenInv, NoneInv, OnlyEnds
<1>7. TimerInv'
  BY <1>1, <1>2, <1>3, <1>4 DEF ScreenInv, TimerInv
<1>8. TimedInv'
  BY <1>2, <1>4 DEF TimedInv
<1>9. RunInv'
  BY <1>1, <1>2, <1>3, <1>4 DEF ScreenInv, RunInv, Lives
<1>10. QED  BY <1>4, <1>5, <1>6, <1>7, <1>8, <1>9, TypesAreNext DEF ScreenInv

LEMMA StreamStoppedInv == ASSUME ScreenInv, NEW i \in DOMAIN replies, StreamStopped(i) PROVE ScreenInv'
<1>1. /\ Replies(i, "stopped")
      /\ \/ ChangePhase("Stopped") /\ slipped' = (slipped \/ (AcceptsPhase("Stopped") /\ running))
         \/ UNCHANGED <<phase, slipped>>
      /\ UNCHANGED <<platform, sharing, allowed, watched, device, fps, asked, todo, held, selected, rate, ticking,
                     listening, beats, tasks, running, stream, capturing, unstarted, asks>>
  BY DEF StreamStopped, wishVars, timerState
<1>2. /\ TypesOK /\ capturing = NotCapturing /\ capturing.at = "idle" /\ Kind = "sck" /\ ~Timed /\ held # "none"
      /\ replies' \in Seq(ReplyType)
  BY <1>1, ReplyStep
<1>3. /\ PlanInv' /\ WantInv' /\ First' = First /\ Kind' = Kind /\ (Timed' <=> Timed)
      /\ (phase' = phase /\ slipped' = slipped) => ChosenInv'
  BY <1>1, <1>2, SourceKept
<1>4. /\ phase' \in {"Stopped", "Starting", "Started", "Stopping"} /\ slipped' \in BOOLEAN
      /\ (phase' = phase /\ slipped' = slipped) \/ (~Lives' /\ (~slipped' => ~slipped /\ (phase = "Stopped" \/ ~running)))
  <2>1. CASE ChangePhase("Stopped") /\ slipped' = (slipped \/ (AcceptsPhase("Stopped") /\ running))
    <3>1. phase' = "Stopped" /\ (AcceptsPhase("Stopped") <=> phase # "Stopped")
      BY <1>2, <2>1, PhaseFacts
    <3>2. slipped' \in BOOLEAN
      BY <2>1
    <3>3. QED  BY <2>1, <3>1, <3>2 DEF Lives
  <2>2. CASE UNCHANGED <<phase, slipped>>
    BY <1>2, <2>2 DEF TypesOK
  <2>3. QED  BY <1>1, <2>1, <2>2
<1>5. TypesOK'
  BY <1>1, <1>2, <1>4 DEF TypesOK
<1>6. NoneInv'
  BY <1>1, <1>2, <1>3 DEF ScreenInv, NoneInv, OnlyEnds
<1>7. TimerInv'
  BY <1>1, <1>3, TimerKept DEF ScreenInv
<1>8. TimedInv'
  BY <1>2, <1>3 DEF TimedInv
<1>9. ASSUME ~(phase' = phase /\ slipped' = slipped), sharing, ~slipped' PROVE ~Lives /\ ~running
  BY <1>2, <1>4, <1>9 DEF ScreenInv, RunInv, Lives
<1>10. RunInv'
  BY <1>1, <1>2, <1>3, <1>4, <1>9 DEF ScreenInv, RunInv, Lives
<1>11. ChosenInv'
  BY <1>1, <1>3, <1>4, <1>9 DEF ScreenInv, ChosenInv, TypeOf
<1>12. QED  BY <1>3, <1>5, <1>6, <1>7, <1>8, <1>10, <1>11, TypesAreNext DEF ScreenInv

LEMMA StreamBreaksInv == ASSUME ScreenInv, StreamBreaks PROVE ScreenInv'
<1>1. /\ capturing = NotCapturing /\ Kind = "sck" /\ running' = FALSE /\ capturing' = [at |-> "error"]
      /\ UNCHANGED <<platform, sharing, allowed, watched, device, fps, asked, todo, held, phase, selected, rate, ticking,
                     listening, beats, tasks, stream, replies, slipped, unstarted, asks>>
  BY DEF StreamBreaks, wishVars, timerState, streamVars, historyVars
<1>2. TypesOK /\ ~Timed /\ held # "none"
  BY <1>1, TypesAre, KindFacts DEF ScreenInv
<1>3. capturing' \in CapturingType /\ capturing'.at = "error" /\ capturing.at = "idle"
  BY <1>1, CapturingFacts
<1>4. /\ PlanInv' /\ WantInv' /\ First' = First /\ Kind' = Kind /\ (Timed' <=> Timed) /\ ChosenInv'
  BY <1>1, <1>2, <1>3, SourceKept
<1>5. TypesOK'
  <2>1. running' \in BOOLEAN
    BY <1>1
  <2>2. QED  BY <1>1, <1>2, <1>3, <2>1 DEF TypesOK
<1>6. NoneInv'
  BY <1>1, <1>2, <1>4 DEF ScreenInv, NoneInv, OnlyEnds
<1>7. TimerInv'
  BY <1>1, <1>2, <1>3, <1>4 DEF ScreenInv, TimerInv
<1>8. TimedInv'
  BY <1>2, <1>4 DEF TimedInv
<1>9. RunInv'
  BY <1>1, <1>2, <1>3, <1>4 DEF ScreenInv, RunInv, Lives
<1>10. QED  BY <1>4, <1>5, <1>6, <1>7, <1>8, <1>9, TypesAreNext DEF ScreenInv

LEMMA FatalErrorInv == ASSUME ScreenInv, FatalError PROVE ScreenInv'
<1>1. /\ capturing.at = "error" /\ ChangePhase("Stopped") /\ sharing' = FALSE
      /\ capturing' = IF sharing THEN [at |-> "closing"] ELSE NotCapturing
      /\ UNCHANGED <<platform, allowed, watched, device, fps, asked, todo, held, selected, rate, ticking,
                     listening, beats, tasks, running, stream, replies, slipped, unstarted, asks>>
  BY DEF FatalError, timerState, streamVars, historyVars
<1>2. TypesOK /\ sharing \in BOOLEAN
  BY TypesAre DEF ScreenInv, TypesOK
<1>3. /\ phase' = "Stopped" /\ capturing' \in CapturingType /\ capturing'.at \in {"idle", "closing"}
      /\ sharing => capturing'.at = "closing"
      /\ held # "none"
  <2>1. phase' = "Stopped"
    BY <1>1, <1>2, PhaseFacts
  <2>2. capturing # NotCapturing
    BY <1>1, CapturingFacts
  <2>3. held # "none"
    BY <2>2 DEF ScreenInv, NoneInv
  <2>4. CASE sharing
    BY <1>1, <2>1, <2>3, <2>4, CapturingFacts
  <2>5. CASE ~sharing
    BY <1>1, <2>1, <2>3, <2>5, CapturingFacts
  <2>6. QED  BY <2>4, <2>5
<1>4. /\ First' = First /\ Kind' = Kind /\ (Timed' <=> Timed) /\ ~ScreenWanted'
      /\ \A x : Plans(todo', x) <=> Plans(todo, x)
  BY <1>1, KindKept DEF First, ScreenWanted, Plans
<1>5. TypesOK'
  <2>1. sharing' \in BOOLEAN
    BY <1>1
  <2>2. QED  BY <1>1, <1>2, <1>3, <2>1 DEF TypesOK
<1>6. PlanInv'
  BY <1>1, PlanKept DEF ScreenInv
<1>7. NoneInv'
  BY <1>1, <1>3, <1>4 DEF ScreenInv, NoneInv, OnlyEnds
<1>8. TimerInv'
  BY <1>1, <1>3, <1>4 DEF ScreenInv, TimerInv
<1>9. TimedInv' /\ RunInv'
  BY <1>1 DEF TimedInv, RunInv
<1>10. ChosenInv'
  BY <1>1, <1>4 DEF ScreenInv, ChosenInv, TypeOf
<1>11. WantInv'
  <2>1. ~sharing => ~ScreenWanted
    BY DEF ScreenWanted
  <2>2. QED  BY <1>1, <1>3, <1>4, <2>1 DEF ScreenInv, WantInv
<1>12. QED  BY <1>5, <1>6, <1>7, <1>8, <1>9, <1>10, <1>11, TypesAreNext DEF ScreenInv

LEMMA CloseOnErrorInv == ASSUME ScreenInv, CloseOnError PROVE ScreenInv'
<1>1. /\ capturing.at = "closing" /\ ~Locked /\ capturing' = NotCapturing /\ watched' = FALSE /\ DropCapturer
      /\ UNCHANGED <<platform, sharing, allowed, device, fps, asked, todo, rate, stream, slipped, unstarted, asks>>
  BY DEF CloseOnError, historyVars
<1>2. TypesOK /\ ~sharing
  BY <1>1, TypesAre DEF ScreenInv, PlanInv
<1>3. First \in {"rest", "reset", "request", "end"} /\ First' = First /\ \A x : Plans(todo', x) <=> Plans(todo, x)
  <2>1. CASE todo = <<>>
    BY <1>1, <2>1, NoPlan DEF First, Plans
  <2>2. CASE todo # <<>>
    <3>1. Head(todo) \in {"reset", "request", "end"}
      BY <1>1, <2>2 DEF Locked
    <3>2. Head(todo) = First
      BY <1>2, <2>2, RestFacts DEF First, TypesOK
    <3>3. QED  BY <1>1, <3>1, <3>2 DEF First, Plans
  <2>3. QED  BY <2>1, <2>2
<1>4. /\ held' = "none" /\ Kind' = "none" /\ ~Timed' /\ phase' = "Stopped" /\ selected' = "nothing"
      /\ ticking' \in BOOLEAN /\ listening' \in BOOLEAN /\ running' \in BOOLEAN
      /\ beats' \in [Rates -> Nat] /\ tasks' \in Seq({"begin", "capture", "end"}) /\ replies' \in Seq(ReplyType)
      /\ capturing' \in CapturingType /\ capturing'.at = "idle"
      /\ NoneInv' /\ ~ticking'
  BY <1>1, DroppedFacts
<1>5. ~ScreenWanted'
  BY <1>1 DEF ScreenWanted
<1>6. TypesOK'
  <2>1. watched' \in BOOLEAN
    BY <1>1
  <2>2. QED  BY <1>1, <1>2, <1>4, <2>1 DEF TypesOK
<1>7. PlanInv'
  BY <1>1, <1>2, <1>3, <1>4 DEF ScreenInv, PlanInv
<1>8. TimerInv' /\ TimedInv' /\ RunInv' /\ ChosenInv'
  BY <1>3, <1>4 DEF TimerInv, TimedInv, RunInv, ChosenInv
<1>9. WantInv'
  BY <1>3, <1>4, <1>5 DEF WantInv
<1>10. QED  BY <1>4, <1>6, <1>7, <1>8, <1>9, TypesAreNext DEF ScreenInv

LEMMA CapturingInv == ASSUME ScreenInv, Capturing PROVE ScreenInv'
BY TickInv, CaptureNextFrameInv, RepostInv, BeginCaptureInv, CaptureFrameInv, EndCaptureInv, StreamStartedInv,
   StreamNotStartedInv, StreamStoppedInv, StreamBreaksInv, FatalErrorInv, CloseOnErrorInv DEF Capturing

(***************************************************************************)
(* The theorems.                                                           *)
(***************************************************************************)

LEMMA ScreenInitInv == ScreenInit => ScreenInv
<1> SUFFICES ASSUME ScreenInit PROVE ScreenInv
  OBVIOUS
<1>1. /\ platform \in {"mac", "oldMac", "other"} /\ sharing = TRUE /\ allowed = TRUE /\ watched = FALSE
      /\ device = FirstScreen /\ fps \in Rates /\ asked = <<>> /\ todo = <<>>
      /\ held = "none" /\ phase = "Stopped" /\ selected = "nothing" /\ rate = fps
      /\ ticking = FALSE /\ listening = FALSE /\ beats = NoBeats
      /\ running = FALSE /\ tasks = <<>> /\ stream = 0 /\ replies = <<>>
      /\ capturing = NotCapturing /\ slipped = FALSE /\ unstarted = FALSE /\ asks = 0
  BY DEF ScreenInit
<1>2. /\ sharing \in BOOLEAN /\ allowed \in BOOLEAN /\ watched \in BOOLEAN /\ ticking \in BOOLEAN
      /\ listening \in BOOLEAN /\ running \in BOOLEAN /\ slipped \in BOOLEAN /\ unstarted \in BOOLEAN
  BY <1>1
<1>3. /\ asked \in Seq(AskType) /\ tasks \in Seq({"begin", "capture", "end"}) /\ replies \in Seq(ReplyType)
      /\ beats \in [Rates -> Nat] /\ asks \in 0..MaxAsks /\ device \in Screens \cup Windows
      /\ capturing \in CapturingType /\ capturing.at = "idle"
  BY <1>1, ScreenSourceAssumption, CapturingFacts DEF NoBeats
<1>4. todo \in Seq(StepNames) /\ Chained(todo) /\ First = "rest" /\ \A x : ~Plans(todo, x)
  BY <1>1, NoPlan DEF First
<1>5. TypesOK
  BY <1>1, <1>2, <1>3, <1>4 DEF TypesOK
<1>6. ~ScreenWanted /\ Kind = "none" /\ ~Timed /\ ~Lives
  BY <1>1 DEF ScreenWanted, Kind, Timed, Lives
<1>7. PlanInv /\ WantInv /\ TimerInv /\ TimedInv /\ RunInv /\ ChosenInv
  BY <1>1, <1>3, <1>4, <1>6 DEF PlanInv, WantInv, TimerInv, TimedInv, RunInv, ChosenInv
<1>8. NoneInv
  BY <1>1, <1>6 DEF NoneInv, OnlyEnds
<1>9. QED  BY <1>5, <1>7, <1>8, TypesAre DEF ScreenInv

LEMMA ScreenStepInv == ScreenInv /\ [ScreenNext]_screenVars => ScreenInv'
<1> SUFFICES ASSUME ScreenInv, [ScreenNext]_screenVars PROVE ScreenInv'
  OBVIOUS
<1>1. CASE Sharer
  BY <1>1, SharerInv
<1>2. CASE Sharing
  BY <1>2, SharingInv
<1>3. CASE Capturing
  BY <1>3, CapturingInv
<1>4. CASE UNCHANGED screenVars
  <2>1. UNCHANGED <<platform, sharing, allowed, watched, device, fps, asked, todo, held, phase, selected, rate, ticking,
                    listening, beats, tasks, running, stream, replies, capturing, slipped, unstarted, asks>>
    BY <1>4 DEF screenVars, wishVars, timerState, streamVars, historyVars
  <2>2. First' = First /\ (ScreenWanted' <=> ScreenWanted)
    BY <2>1 DEF First, ScreenWanted
  <2>3. TypesOK'
    BY <2>1, TypesAre DEF ScreenInv, TypesOK
  <2>4. PlanInv' /\ NoneInv' /\ TimerInv' /\ TimedInv' /\ RunInv' /\ ChosenInv' /\ WantInv'
    BY <2>1, <2>2, PlanKept, NoneKept, TimerKept, TimedKept, RunKept, SelectKept, WantKept DEF ScreenInv
  <2>5. QED  BY <2>3, <2>4, TypesAreNext DEF ScreenInv
<1>5. QED  BY <1>1, <1>2, <1>3, <1>4 DEF ScreenNext

LEMMA ScreenInvariant == ScreenSpec => []ScreenInv
<1>1. ScreenInit => ScreenInv
  BY ScreenInitInv
<1>2. ScreenInv /\ [ScreenNext]_screenVars => ScreenInv'
  BY ScreenStepInv
<1>3. QED  BY <1>1, <1>2, PTL DEF ScreenSpec

\* Every variable of the source and its capturer keeps its type.
THEOREM ScreenTypeCorrect == ScreenSpec => []ScreenTypeOK
<1>1. ScreenInv => ScreenTypeOK
  BY DEF ScreenInv
<1>2. QED  BY <1>1, ScreenInvariant, PTL

\* resetCapturer and startCapturer: however calls, switches, errors, ticks and answers of the
\* system cross, at rest a screen nobody wants is not captured, and the one that was chosen last
\* is captured for whoever watches, but for one that could not be selected and for a capturer
\* that came up, or went down, when it was not told to.
THEOREM ScreenIsFollowed == ScreenSpec => []ScreenFollowsWish
<1>1. ScreenInv => ScreenFollowsWish
  <2> SUFFICES ASSUME ScreenInv, ShareSettled PROVE ScreenFollowsWish
    BY DEF ScreenFollowsWish, ScreenIsReleased, ScreenIsCaptured
  <2>1. /\ asked = <<>> /\ todo = <<>> /\ replies = <<>> /\ capturing.at \notin {"error", "closing"}
        /\ \A i \in DOMAIN tasks : tasks[i] = "capture"
    BY DEF ShareSettled
  <2>2. First = "rest" /\ (\A x : ~Plans(todo, x)) /\ (\A op : ~Has(asked, op)) /\ TypesOK
    BY <2>1, NoPlan, TypesAre DEF First, Has, ScreenInv
  <2>3. ASSUME ~ScreenWanted PROVE held = "none" /\ ~running /\ beats = NoBeats
    <3>1. held = "none"
      BY <2>1, <2>2, <2>3 DEF ScreenInv, WantInv
    <3>2. Kind = "none" /\ beats = NoBeats
      BY <2>2, <3>1, KindFacts DEF ScreenInv, NoneInv
    <3>3. tasks # <<"end">>
      <4>1. 1 \in DOMAIN <<"end">> /\ <<"end">>[1] = "end"
        OBVIOUS
      <4>2. QED  BY <2>1, <4>1
    <3>4. ~running
      BY <3>2, <3>3 DEF ScreenInv, NoneInv, OnlyEnds
    <3>5. QED  BY <3>1, <3>2, <3>4
  <2>4. ASSUME ScreenWanted, ~slipped, ~unstarted
        PROVE  /\ held = TypeOf(device) /\ selected = device /\ phase \in {"Starting", "Started"}
               /\ Timed => ticking /\ listening /\ (capturing = NotCapturing => beats # NoBeats)
               /\ Kind # "cg" => running
    <3>1. sharing /\ held # "none"
      BY <2>2, <2>4 DEF ScreenInv, WantInv, ScreenWanted
    <3>2. held = TypeOf(device) /\ selected = device /\ Lives
      BY <2>2, <2>4, <3>1 DEF ScreenInv, ChosenInv
    <3>3. Timed => ticking
      BY <2>2, <2>4, <3>1, <3>2 DEF ScreenInv, TimedInv
    <3>4. ticking => listening /\ (capturing = NotCapturing => beats # NoBeats)
      BY CapturingFacts DEF ScreenInv, TimerInv
    <3>5. Kind = "webrtc" => running
      BY <2>1, <2>4, <3>1, <3>2 DEF ScreenInv, RunInv, WillRun
    <3>6. Kind = "sck" => running
      BY <2>1, <2>4, <3>1, <3>2 DEF ScreenInv, RunInv
    <3>7. Kind \in {"cg", "webrtc", "sck"}
      BY <2>2, <3>1, KindFacts
    <3>8. QED  BY <3>2, <3>3, <3>4, <3>5, <3>6, <3>7 DEF Lives
  <2>5. QED  BY <2>3, <2>4 DEF ScreenFollowsWish, ScreenIsReleased, ScreenIsCaptured
<1>2. QED  BY <1>1, ScreenInvariant, PTL

=============================================================================
