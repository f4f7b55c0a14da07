---------------------------- MODULE DataMessages ----------------------------
(***************************************************************************)
(* User packets and chat messages from one client to another. The sender's *)
(* threads: the user sends, the signaling thread makes and closes the data *)
(* channels that DataChannelsStorage keeps. The receiver's threads: one    *)
(* ends a session, another may have begun the next, the events queue hears *)
(* of it, the signaling thread opens and closes channels and hands the     *)
(* messages on.                                                            *)
(*                                                                         *)
(* External: the server between them and the transport of the channels.    *)
(***************************************************************************)
EXTENDS Naturals, Sequences

CONSTANTS
  Kinds,         \* kinds of messages
  MaxSending,    \* bound: sessions of the sender
  MaxReceiving,  \* bound: sessions of the receiver
  MaxMessages    \* bound: messages sent

\* A packet is misread if its bytes also parse as a response of the server.
ASSUME DataMessagesAssumption ==
  /\ Kinds \subseteq {"plain", "misread"}
  /\ MaxSending \in Nat /\ MaxReceiving \in Nat /\ MaxMessages \in Nat

VARIABLES
  out, outMade,   \* the sender's session, 0 for none; its sessions so far
  outClosing,     \* its peer connections with a task to close them
  local,          \* the session of the channel _localDcs has under a label, or 0
  open,           \* local channels that are open, by session and label
  hand,           \* the message the user's thread has a channel for, or Nothing
  in, inMade,     \* the receiver's session and its sessions so far
  transport,      \* what the receiver's transport is in
  news,           \* the Connecting it has not told its listener of yet
  ending,         \* what the thread that ends a session is in the middle of
  inClosing,      \* its peer connections with a task to close them
  remote,         \* the session of the channel _remoteDcs has under a label, or 0
  listening,      \* the storages have a listener
  up, down,       \* numbers of the messages on their way to and from the server
  sent,           \* history: the messages sent, and to which session they went
  got,            \* history: what the listener of the session was given
  unheard,        \* history: messages that came when nobody listened
  overlapped         \* history: sessions begun while an earlier one was ending

outVars == <<out, outMade, outClosing, local, open, hand>>
inVars == <<in, inMade, transport, news, ending, inClosing, remote, listening, overlapped>>
transitVars == <<up, down, sent, got, unheard>>
dataVars == <<outVars, inVars, transitVars>>

Labels == {"reliable", "lossy"}
Nothing == [label |-> "none"]

----------------------------------------------------------------------------
(* The sender.                                                             *)

\* onJoin: sid and identity are set, and a transport manager is made.
Begin ==
  /\ out = 0 /\ outMade < MaxSending
  /\ out' = outMade + 1 /\ outMade' = outMade + 1
  /\ UNCHANGED <<outClosing, local, open, hand, inVars, transitVars>>

\* The storage keeps one channel for each label: the new one takes the place of the old. A
\* channel is of use once it is open.
LocalChannelCreated(l) ==
  /\ out # 0 /\ local[l] # out /\ outClosing = {}
  /\ local' = [local EXCEPT ![l] = out] /\ open' = open \cup {<<out, l>>}
  /\ UNCHANGED <<out, outMade, outClosing, hand, inVars, transitVars>>

\* disconnect() closes the manager, which posts the closing of its peer connection.
End ==
  /\ out # 0
  /\ out' = 0 /\ outClosing' = outClosing \cup {out}
  /\ UNCHANGED <<outMade, local, open, hand, inVars, transitVars>>

CloseSending(s) ==
  /\ s \in outClosing
  /\ outClosing' = outClosing \ {s}
  /\ open' = {c \in open : c[1] # s}
  /\ up' = [l \in Labels |-> IF local[l] = s THEN <<>> ELSE up[l]]
  /\ UNCHANGED <<out, outMade, local, hand, inVars, down, sent, got, unheard>>

MutGetChannel(kind, l) ==
  /\ hand = Nothing /\ Len(sent) < MaxMessages
  /\ <<local["lossy"], "lossy">> \in open
  /\ hand' = [label |-> "lossy", session |-> local["lossy"], n |-> Len(sent) + 1]
  /\ sent' = Append(sent, [label |-> l, kind |-> kind, from |-> local["lossy"], to |-> 0])
  /\ UNCHANGED <<out, outMade, outClosing, local, open, inVars, up, down, got, unheard>>

\* getChannelForSend: the channel of the label, if there is one and it is open. Whose
\* session it belongs to is not asked. A chat message takes the reliable channel.
GetChannel(kind, l) ==
  /\ hand = Nothing /\ Len(sent) < MaxMessages
  /\ <<local[l], l>> \in open
  /\ hand' = [label |-> l, session |-> local[l], n |-> Len(sent) + 1]
  /\ sent' = Append(sent, [label |-> l, kind |-> kind, from |-> local[l], to |-> 0])
  /\ UNCHANGED <<out, outMade, outClosing, local, open, inVars, up, down, got, unheard>>

\* SendAsync: it fails if the channel is closed by now or its buffer is full, but the
\* callback of the error holds an empty reference, and the user is told of a success.
SendAsync(ok) ==
  /\ hand # Nothing /\ hand' = Nothing
  /\ ok => <<hand.session, hand.label>> \in open
  /\ up' = IF ok THEN [up EXCEPT ![hand.label] = Append(@, hand.n)]
           ELSE up
  /\ UNCHANGED <<out, outMade, outClosing, local, open, inVars, down, sent, got, unheard>>

----------------------------------------------------------------------------
(* The server and the network, external.                                   *)

\* The receiver gets the message if it has a channel for it.
Relay(l) ==
  /\ up[l] # <<>> /\ up' = [up EXCEPT ![l] = Tail(@)]
  /\ IF in # 0 /\ remote[l] = in
     THEN /\ down' = [down EXCEPT ![l] = Append(@, Head(up[l]))]
          /\ sent' = [sent EXCEPT ![Head(up[l])].to = in]
     ELSE UNCHANGED <<down, sent>>
  /\ UNCHANGED <<outVars, inVars, got, unheard>>

LoseLossy ==
  /\ down["lossy"] # <<>>
  /\ down' = [down EXCEPT !["lossy"] = Tail(@)]
  /\ UNCHANGED <<outVars, inVars, up, sent, got, unheard>>

----------------------------------------------------------------------------
(* The receiver.                                                           *)

Connect ==
  /\ transport = "down" /\ inMade < MaxReceiving
  /\ transport' = "connecting" /\ news' = TRUE
  /\ overlapped' = IF ending.step = "idle" THEN overlapped ELSE overlapped \cup {inMade + 1}
  /\ UNCHANGED <<in, inMade, ending, inClosing, remote, listening, outVars, transitVars>>

MutHearConnecting ==
  /\ news /\ news' = FALSE /\ listening' = (listening \/ inMade = 0)
  /\ UNCHANGED <<in, inMade, transport, ending, inClosing, remote, overlapped, outVars, transitVars>>

\* onTransportStateChanged(Connecting), on the events queue.
HearConnecting ==
  /\ news /\ news' = FALSE /\ listening' = TRUE
  /\ UNCHANGED <<in, inMade, transport, ending, inClosing, remote, overlapped, outVars, transitVars>>

Join ==
  /\ transport = "connecting" /\ transport' = "up"
  /\ in' = inMade + 1 /\ inMade' = inMade + 1
  /\ UNCHANGED <<news, ending, inClosing, remote, listening, overlapped, outVars, transitVars>>

\* disconnect(), step by step: the manager is taken, the socket closed, the manager
\* closed, the listeners are reset.
Take ==
  /\ ending.step = "idle" /\ in # 0
  /\ ending' = [step |-> "socket", session |-> in] /\ in' = 0
  /\ UNCHANGED <<inMade, transport, news, inClosing, remote, listening, overlapped, outVars, transitVars>>

CloseSocket ==
  /\ ending.step = "socket"
  /\ ending' = [ending EXCEPT !.step = "manager"] /\ transport' = "down"
  /\ UNCHANGED <<in, inMade, news, inClosing, remote, listening, overlapped, outVars, transitVars>>

MutCloseManager ==
  /\ ending.step = "manager"
  /\ ending' = [ending EXCEPT !.step = "release"]
  /\ UNCHANGED <<in, inMade, transport, news, inClosing, remote, listening, overlapped, outVars, transitVars>>

CloseManager ==
  /\ ending.step = "manager"
  /\ ending' = [ending EXCEPT !.step = "release"]
  /\ inClosing' = inClosing \cup {ending.session}
  /\ UNCHANGED <<in, inMade, transport, news, remote, listening, overlapped, outVars, transitVars>>

ResetListeners ==
  /\ ending.step = "release"
  /\ ending' = [step |-> "idle"] /\ listening' = FALSE
  /\ UNCHANGED <<in, inMade, transport, news, inClosing, remote, overlapped, outVars, transitVars>>

CloseReceiving(s) ==
  /\ s \in inClosing /\ inClosing' = inClosing \ {s}
  /\ down' = [l \in Labels |-> IF remote[l] = s THEN <<>> ELSE down[l]]
  /\ UNCHANGED <<in, inMade, transport, news, ending, remote, listening, overlapped, outVars,
                 up, sent, got, unheard>>

\* add: the channel takes the place of an earlier one, which is closed. The peer connection
\* is made on the signaling thread, after those whose closing has been posted.
RemoteChannelOpened(l) ==
  /\ in # 0 /\ remote[l] # in /\ inClosing = {}
  /\ remote' = [remote EXCEPT ![l] = in] /\ down' = [down EXCEPT ![l] = <<>>]
  /\ UNCHANGED <<in, inMade, transport, news, ending, inClosing, listening, overlapped, outVars,
                 up, sent, got, unheard>>

MutOnMessage(l) ==
  /\ down[l] # <<>> /\ UNCHANGED down
  /\ LET n == Head(down[l])
     IN  /\ got' = IF sent[n].kind # "misread" /\ listening
                   THEN Append(got, [n |-> n, session |-> remote[l]]) ELSE got
         /\ unheard' = IF listening THEN unheard ELSE unheard \cup {n}
  /\ UNCHANGED <<outVars, inVars, up, sent>>

\* onMessage: parseBinary takes the bytes for a response if it can, which the storage
\* ignores, else for a data packet, which goes to the listener there is.
OnMessage(l) ==
  /\ down[l] # <<>> /\ down' = [down EXCEPT ![l] = Tail(@)]
  /\ LET n == Head(down[l])
         heard == sent[n].kind # "misread" /\ listening
     IN  /\ got' = IF heard
                   THEN Append(got, [n |-> n, session |-> remote[l]]) ELSE got
         /\ unheard' = IF listening THEN unheard ELSE unheard \cup {n}
  /\ UNCHANGED <<outVars, inVars, up, sent>>

----------------------------------------------------------------------------
DataInit ==
  /\ out = 0 /\ outMade = 0 /\ outClosing = {} /\ open = {} /\ hand = Nothing
  /\ in = 0 /\ inMade = 0 /\ inClosing = {} /\ transport = "down" /\ news = FALSE
  /\ ending = [step |-> "idle"] /\ listening = FALSE /\ overlapped = {}
  /\ local = [l \in Labels |-> 0] /\ remote = [l \in Labels |-> 0]
  /\ up = [l \in Labels |-> <<>>] /\ down = [l \in Labels |-> <<>>]
  /\ sent = <<>> /\ got = <<>> /\ unheard = {}

Sender ==
  \/ Begin
  \/ End
  \/ \E l \in Labels : LocalChannelCreated(l)
  \/ \E s \in outClosing : CloseSending(s)
  \/ \E kind \in Kinds, l \in Labels : GetChannel(kind, l)
  \/ \E ok \in BOOLEAN : SendAsync(ok)

Network == LoseLossy \/ \E l \in Labels : Relay(l)

Receiver ==
  \/ Connect
  \/ HearConnecting
  \/ Join
  \/ Take
  \/ CloseSocket
  \/ CloseManager
  \/ ResetListeners
  \/ \E s \in inClosing : CloseReceiving(s)
  \/ \E l \in Labels : RemoteChannelOpened(l) \/ OnMessage(l)

DataNext == Sender \/ Network \/ Receiver

DataSpec == DataInit /\ [][DataNext]_dataVars

----------------------------------------------------------------------------
Sending == 0..MaxSending
Receiving == 0..MaxReceiving
Numbers == 1..MaxMessages
GotType == [n: Numbers, session: Receiving]
SentType == [label: Labels, kind: Kinds, from: Sending, to: Receiving]

\* Every variable of the data channels keeps its type.
DataTypeOK ==
  /\ outMade \in Sending /\ out \in {0, outMade} /\ outClosing \subseteq Sending
  /\ local \in [Labels -> Sending] /\ open \subseteq Sending \X Labels
  /\ hand \in {Nothing} \cup [label: Labels, session: Sending, n: Numbers]
  /\ inMade \in Receiving /\ in \in {0, inMade} /\ inClosing \subseteq Receiving
  /\ transport \in {"down", "connecting", "up"} /\ news \in BOOLEAN
  /\ ending \in [step: {"idle"}] \cup [step: {"socket", "manager", "release"}, session: 1..MaxReceiving]
  /\ remote \in [Labels -> Receiving] /\ listening \in BOOLEAN /\ overlapped \subseteq 1..MaxReceiving
  /\ up \in [Labels -> Seq(Numbers)] /\ down \in [Labels -> Seq(Numbers)]
  /\ sent \in Seq(SentType) /\ got \in Seq(GotType) /\ unheard \subseteq Numbers

Got == {got[i].n : i \in DOMAIN got}

\* Both storages against the delivery of messages: of the reliable messages one session
\* sends to one session, none is left out when a later one arrives, unless it was misread
\* or came when nobody listened.
NoGap ==
  \A m \in Got, n \in DOMAIN sent :
    /\ n < m /\ sent[n].to # 0 /\ sent[m].label = "reliable"
    /\ sent[n] \in [label: {"reliable"}, kind: Kinds \ {"misread"}, from: {sent[m].from},
                     to: {sent[m].to}]
    => n \in Got \cup unheard

\* disconnect() resets the listeners last, connect() of another thread sets them again: a
\* session whose Connecting was heard has its listeners, unless it was begun in between.
HeardUnlessCrossed ==
  in # 0 /\ ~news => listening \/ in \in overlapped

\* DataChannelsStorage is never cleared, so channels of an earlier session stay: after a
\* message of a session none of an earlier one arrives, unless the two sessions overlap.
OldSessionIsSilent ==
  \A i, j \in DOMAIN got :
    i < j => got[i].session <= got[j].session \/ got[i].session \in overlapped

\* The storages, the channels and the server between them are an exchange of messages.
Ordered == INSTANCE Exchange WITH
  published <- [n \in DOMAIN sent |-> sent[n].label],
  received <- [i \in DOMAIN got |-> got[i].n]

ImplementsExchange == Ordered!Spec
=============================================================================
