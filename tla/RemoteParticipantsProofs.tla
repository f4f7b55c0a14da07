---------------------- MODULE RemoteParticipantsProofs ----------------------
(***************************************************************************)
(* What TLAPS proves of RemoteParticipants, for any participants, tracks,  *)
(* owners and bounds: the types, that nobody waits in vain and that no     *)
(* receiver is lost, whatever the ids of the receivers are; that a track   *)
(* has one object and none without media, for ids equal to the sids.       *)
(***************************************************************************)
EXTENDS RemoteParticipants, FiniteSetTheorems, TLAPS

\* The step of a thread keeps the type of the program counters.
LEMMA GoType ==
  ASSUME NEW a \in [Threads -> Steps], NEW t \in Threads, NEW step \in Steps
  PROVE  [a EXCEPT ![t] = step] \in [Threads -> Steps]
OBVIOUS

\* A call is posted: the queue stays one of calls.
LEMMA QueueType ==
  ASSUME NEW q \in Seq(Calls), NEW c \in Calls
  PROVE  Append(q, c) \in Seq(Calls)
OBVIOUS

\* The call at the head of the queue that removeMedia or addMedia serves
\* names a track.
LEMMA HeadTrack ==
  ASSUME calls \in Seq(Calls), NEW op \in {"add", "remove"}, NextCall(op)
  PROVE  Head(calls).track \in Tracks
<1>1. Head(calls) \in Calls
  BY DEF NextCall
<1>2. Head(calls).op = op
  BY DEF NextCall
<1> QED BY <1>1, <1>2 DEF Calls

LEMMA NoNewsIsNews == NoNews \in News
<1>1. NoNews \in [{} -> Infos]
  BY DEF NoNews
<1>2. {} \in SUBSET Participants
  OBVIOUS
<1>3. NoNews \in UNION {[P -> Infos] : P \in SUBSET Participants}
  BY <1>1, <1>2
<1>4. DOMAIN NoNews = {}
  BY DEF NoNews
<1> QED BY <1>3, <1>4 DEF News

\* Whom a message names, and what it says of them.
LEMMA NewsFacts ==
  ASSUME NEW n \in News
  PROVE  /\ DOMAIN n \subseteq Participants
         /\ \A p \in DOMAIN n : n[p].tracks \subseteq Tracks
<1>1. PICK P \in SUBSET Participants : n \in [P -> Infos]
  BY DEF News
<1> QED BY <1>1 DEF Infos

\* What is left of the queue when the manager is gone.
LEMMA GoneType ==
  ASSUME calls \in Seq(Calls), ManagerGone
  PROVE  calls' \in Seq(Calls) /\ media' = {}
<1> DEFINE kept == {i \in DOMAIN calls : calls[i].op = "lost"}
<1>1. DOMAIN calls = 1..Len(calls) /\ Len(calls) \in Nat
  OBVIOUS
<1>2. IsFiniteSet(1..Len(calls))
  BY <1>1, FS_Interval
<1>3. IsFiniteSet(kept)
  BY <1>1, <1>2, FS_Subset
<1>4. Cardinality(kept) \in Nat
  BY <1>3, FS_CardinalityType
<1>5. [op |-> "lost"] \in Calls
  BY DEF Calls
<1>6. calls' = [i \in 1..Cardinality(kept) |-> [op |-> "lost"]] /\ media' = {}
  BY DEF ManagerGone
<1> HIDE DEF kept
<1> QED BY <1>4, <1>5, <1>6

\* A thread works on participants its message names, and revises those that
\* are in the room.
JobNames ==
  /\ job.enter \cup job.refresh \subseteq DOMAIN job.news
  /\ lock = "none" => job = NoJob

Inv == TypeOK /\ JobNames /\ NobodyWaitsInVain

LEMMA InitInv == Init => Inv
<1> SUFFICES ASSUME Init PROVE Inv
  OBVIOUS
<1>1. NoJob \in [clear : BOOLEAN, enter : SUBSET Participants, remove : SUBSET Participants,
                refresh : SUBSET Participants, news : News]
  BY NoNewsIsNews DEF NoJob
<1>2. TypeOK
  <2>1. calls \in Seq(Calls) /\ job = NoJob
    BY DEF Init
  <2>2. /\ present \in SUBSET Participants
        /\ listed \in [Participants -> SUBSET Tracks]
        /\ bound \in [Tracks -> Nat]
        /\ at \in [Threads -> Steps]
        /\ sessions \in 0..MaxSessions
    BY RemoteParticipantsAssumption DEF Init, Threads, Steps, RemoteParticipantsAssumption
  <2>3. /\ waiting \in SUBSET Tracks /\ media \in SUBSET Tracks
        /\ removing \in SUBSET Tracks /\ dropped \in SUBSET Tracks
        /\ lock \in Threads \cup {"none"} /\ socket \in {"closed", "open", "closing"}
        /\ live \in BOOLEAN /\ fresh \in BOOLEAN
    BY DEF Init
  <2> QED BY <1>1, <2>1, <2>2, <2>3 DEF TypeOK
<1>3. JobNames
  BY DEF Init, JobNames, NoJob
<1>4. NobodyWaitsInVain
  BY DEF Init, NobodyWaitsInVain, Listed
<1> QED BY <1>2, <1>3, <1>4 DEF Inv

\* The steps of the thread that holds the lock.
LEMMA EnterInv ==
  ASSUME Inv, NEW p \in Participants, Enter(p)
  PROVE  Inv'
<1> DEFINE tracks == job.news[p].tracks
<1>1. job.news \in News /\ p \in DOMAIN job.news
  BY DEF Inv, TypeOK, JobNames, Enter
<1>2. tracks \subseteq Tracks
  BY <1>1, NewsFacts
<1>3. /\ present' = present \cup {p}
      /\ listed' = [listed EXCEPT ![p] = tracks]
      /\ bound' = [s \in Tracks |-> IF s \in tracks \cap waiting
                                      THEN bound[s] + 1 ELSE bound[s]]
      /\ waiting' = waiting \ tracks
      /\ job' = [job EXCEPT !.enter = @ \ {p}]
      /\ UNCHANGED <<media, live, calls, at, lock, socket, fresh, sessions, removing, dropped>>
      /\ lock # "none"
  BY DEF Enter, TakeReceivers, peerVars, linkVars
<1> HIDE DEF tracks
<1>4. bound' \in [Tracks -> Nat]
  BY <1>3 DEF Inv, TypeOK
<1>5. TypeOK'
  BY <1>2, <1>3, <1>4 DEF Inv, TypeOK
<1>6. JobNames'
  BY <1>3 DEF Inv, TypeOK, JobNames
<1>7. NobodyWaitsInVain'
  BY <1>2, <1>3 DEF Inv, TypeOK, NobodyWaitsInVain, Listed
<1> QED BY <1>5, <1>6, <1>7 DEF Inv

\* dispose() of a participant that leaves the room.
LEMMA DisposedInv ==
  ASSUME Inv, NEW p \in Participants, NEW tracks \in SUBSET Tracks,
         present' = present \ {p},
         Disposed(p, tracks)
  PROVE  /\ listed' \in [Participants -> SUBSET Tracks]
         /\ bound' \in [Tracks -> Nat]
         /\ waiting' \in SUBSET Tracks
         /\ dropped' \in SUBSET Tracks
         /\ NobodyWaitsInVain'
<1>1. bound' \in [Tracks -> Nat]
  BY DEF Inv, TypeOK, Disposed
<1>2. /\ listed' \in [Participants -> SUBSET Tracks]
      /\ waiting' \in SUBSET Tracks
      /\ dropped' \in SUBSET Tracks
  BY DEF Inv, TypeOK, Disposed
<1>3. NobodyWaitsInVain'
  BY DEF Inv, TypeOK, Disposed, NobodyWaitsInVain, Listed
<1> QED BY <1>1, <1>2, <1>3

LEMMA RemoveInv ==
  ASSUME Inv, NEW p \in Participants, Remove(p)
  PROVE  Inv'
<1>1. /\ present' = present \ {p}
      /\ Disposed(p, listed[p])
      /\ job' = [job EXCEPT !.remove = @ \ {p}]
      /\ UNCHANGED <<media, live, calls, at, lock, socket, fresh, sessions, removing>>
      /\ lock # "none"
  BY DEF Remove, peerVars, linkVars
<1>2. listed[p] \in SUBSET Tracks
  BY DEF Inv, TypeOK
<1>3. /\ listed' \in [Participants -> SUBSET Tracks]
      /\ bound' \in [Tracks -> Nat]
      /\ waiting' \in SUBSET Tracks
      /\ dropped' \in SUBSET Tracks
      /\ NobodyWaitsInVain'
  <2>1. PICK tracks \in SUBSET Tracks : tracks = listed[p]
    BY <1>2
  <2>2. Disposed(p, tracks)
    BY <1>1, <2>1
  <2> QED BY <1>1, <2>2, DisposedInv
<1>4. TypeOK'
  BY <1>1, <1>3 DEF Inv, TypeOK
<1>5. JobNames'
  BY <1>1 DEF Inv, TypeOK, JobNames
<1> QED BY <1>3, <1>4, <1>5 DEF Inv

\* setInfo of a participant that stays.
LEMMA RevisedInv ==
  ASSUME Inv, NEW p \in Participants, NEW tracks \in SUBSET Tracks,
         present' = present, Revised(p, tracks)
  PROVE  /\ listed' \in [Participants -> SUBSET Tracks]
         /\ bound' \in [Tracks -> Nat]
         /\ waiting' \in SUBSET Tracks
         /\ dropped' \in SUBSET Tracks
         /\ NobodyWaitsInVain'
<1> DEFINE missing == listed[p] \ tracks
           asking  == {s \in tracks : s \in listed[p] => bound[s] = 0}
<1>1. /\ listed' = [listed EXCEPT ![p] = tracks]
      /\ bound' = [s \in Tracks |->
           CASE s \in asking \cap waiting      -> bound[s] + 1
             [] s \in missing /\ bound[s] > 0 -> bound[s] - 1
             [] OTHER                         -> bound[s]]
      /\ waiting' = waiting \ asking
      /\ dropped' = dropped \cup (media \cap missing)
  BY DEF Revised, TakeReceivers
<1>2. \A s \in tracks : s \notin asking => s \in listed[p]
  OBVIOUS
<1>3. missing \subseteq Tracks
  BY DEF Inv, TypeOK
<1> HIDE DEF missing, asking
<1>4. bound' \in [Tracks -> Nat]
  <2> SUFFICES ASSUME NEW s \in Tracks PROVE bound'[s] \in Nat
    BY <1>1
  <2>1. bound[s] \in Nat
    BY DEF Inv, TypeOK
  <2> QED BY <1>1, <2>1
<1>5. /\ listed' \in [Participants -> SUBSET Tracks]
      /\ waiting' \in SUBSET Tracks
      /\ dropped' \in SUBSET Tracks
  BY <1>1, <1>3 DEF Inv, TypeOK
<1>6. NobodyWaitsInVain'
  <2> SUFFICES ASSUME NEW s \in Tracks, Listed(s)' PROVE s \notin waiting'
    BY DEF NobodyWaitsInVain
  <2>1. CASE Owner[s] = p
    <3>1. p \in present /\ s \in tracks
      BY <1>1, <2>1 DEF Listed, Inv, TypeOK
    <3>2. s \notin asking => s \notin waiting
      BY <1>2, <2>1, <3>1 DEF Inv, NobodyWaitsInVain, Listed
    <3> QED BY <1>1, <3>2
  <2>2. CASE Owner[s] # p
    <3>1. Listed(s)
      BY <1>1, <2>2 DEF Listed, Inv, TypeOK
    <3> QED BY <1>1, <3>1 DEF Inv, NobodyWaitsInVain
  <2> QED BY <2>1, <2>2
<1> QED BY <1>4, <1>5, <1>6

LEMMA RefreshInv ==
  ASSUME Inv, NEW p \in Participants, Refresh(p)
  PROVE  Inv'
<1> DEFINE tracks == job.news[p].tracks
<1>1. /\ job' = [job EXCEPT !.refresh = @ \ {p}]
      /\ UNCHANGED <<media, live, calls, at, lock, socket, fresh, sessions, removing>>
      /\ lock # "none"
      /\ \/ present' = present \ {p} /\ Disposed(p, tracks)
         \/ present' = present /\ Revised(p, tracks)
  BY DEF Refresh, peerVars, linkVars
<1>2. job.news \in News /\ p \in DOMAIN job.news
  BY DEF Inv, TypeOK, JobNames, Refresh
<1>3. tracks \in SUBSET Tracks
  BY <1>2, NewsFacts
<1> HIDE DEF tracks
<1>4. /\ listed' \in [Participants -> SUBSET Tracks]
      /\ bound' \in [Tracks -> Nat]
      /\ waiting' \in SUBSET Tracks
      /\ dropped' \in SUBSET Tracks
      /\ NobodyWaitsInVain'
  <2>1. PICK T \in SUBSET Tracks : T = tracks
    BY <1>3
  <2>2. \/ present' = present \ {p} /\ Disposed(p, T)
        \/ present' = present /\ Revised(p, T)
    BY <1>1, <2>1
  <2> QED BY <2>2, DisposedInv, RevisedInv
<1>5. TypeOK'
  BY <1>1, <1>4 DEF Inv, TypeOK
<1>6. JobNames'
  BY <1>1 DEF Inv, TypeOK, JobNames
<1> QED BY <1>4, <1>5, <1>6 DEF Inv

\* A step that leaves the room and the storage alone, or empties them.
LEMMA RoomKept ==
  ASSUME Inv, UNCHANGED listed,
         UNCHANGED present \/ present' = {},
         waiting' \in SUBSET waiting
  PROVE  NobodyWaitsInVain'
BY DEF Inv, NobodyWaitsInVain, Listed

LEMMA FinishInv ==
  ASSUME Inv, NEW t \in Threads, Finish(t)
  PROVE  Inv'
<1>1. /\ lock' = "none" /\ job' = NoJob
      /\ UNCHANGED <<present, listed, bound, waiting, media, live, calls, socket, fresh,
                     sessions, removing, dropped>>
  BY DEF Finish, roomVars, peerVars, linkVars
<1>2. at' \in [Threads -> Steps]
  <2>1. PICK step \in Steps : at' = [at EXCEPT ![t] = step]
    BY DEF Finish, Go, Steps
  <2> QED BY <2>1, GoType DEF Inv, TypeOK
<1>3. NoJob \in [clear : BOOLEAN, enter : SUBSET Participants, remove : SUBSET Participants,
                refresh : SUBSET Participants, news : News]
  BY NoNewsIsNews DEF NoJob
<1>4. TypeOK'
  BY <1>1, <1>2, <1>3 DEF Inv, TypeOK
<1>5. JobNames'
  BY <1>1 DEF JobNames, NoJob
<1>6. NobodyWaitsInVain'
  BY <1>1, RoomKept
<1> QED BY <1>4, <1>5, <1>6 DEF Inv

LEMMA SetInfoInv ==
  ASSUME Inv, NEW news \in News, SetInfo(news)
  PROVE  Inv'
<1>1. /\ present' = {} /\ fresh' = FALSE
      /\ UNCHANGED <<listed, bound, waiting, media, live, calls, socket, sessions, removing,
                     dropped>>
      /\ at' = [at EXCEPT !["ws"] = "join"]
  BY DEF SetInfo, Go, peerVars
<1>2. /\ lock' \in Threads \cup {"none"}
      /\ job' \in [clear : BOOLEAN, enter : SUBSET Participants,
                   remove : SUBSET Participants, refresh : SUBSET Participants,
                   news : News]
      /\ JobNames'
  <2> DEFINE enter == {p \in DOMAIN news : ~news[p].disconnected}
  <2>1. /\ lock' = "ws"
        /\ job' = [clear |-> TRUE, enter |-> enter, remove |-> present, refresh |-> {},
                   news |-> news]
    BY DEF SetInfo, Work
  <2>2. enter \subseteq DOMAIN news /\ DOMAIN news \subseteq Participants
    BY NewsFacts
  <2> HIDE DEF enter
  <2> QED BY <2>1, <2>2 DEF Inv, TypeOK, JobNames, Threads
<1>3. at' \in [Threads -> Steps]
  BY <1>1, GoType DEF Inv, TypeOK, Threads, Steps
<1>4. TypeOK'
  BY <1>1, <1>2, <1>3 DEF Inv, TypeOK
<1>5. NobodyWaitsInVain'
  BY <1>1, RoomKept
<1> QED BY <1>2, <1>4, <1>5 DEF Inv

LEMMA UpdateInfoInv ==
  ASSUME Inv, NEW news \in News, UpdateInfo(news)
  PROVE  Inv'
<1>1. /\ UNCHANGED <<present, listed, bound, waiting, media, live, calls, socket, fresh,
                     sessions, removing, dropped>>
      /\ at' = [at EXCEPT !["ws"] = "update"]
  BY DEF UpdateInfo, Go, roomVars, peerVars, linkVars
<1>2. /\ lock' \in Threads \cup {"none"}
      /\ job' \in [clear : BOOLEAN, enter : SUBSET Participants,
                   remove : SUBSET Participants, refresh : SUBSET Participants,
                   news : News]
      /\ JobNames'
  <2>1. /\ lock' = "ws"
        /\ job' = [clear |-> FALSE, enter |-> DOMAIN news \ present,
                   remove |-> present \ DOMAIN news,
                   refresh |-> present \cap DOMAIN news, news |-> news]
    BY DEF UpdateInfo, Work
  <2>2. DOMAIN news \subseteq Participants
    BY NewsFacts
  <2> QED BY <2>1, <2>2 DEF Inv, TypeOK, JobNames, Threads
<1>3. at' \in [Threads -> Steps]
  BY <1>1, GoType DEF Inv, TypeOK, Threads, Steps
<1>4. TypeOK'
  BY <1>1, <1>2, <1>3 DEF Inv, TypeOK
<1>5. NobodyWaitsInVain'
  BY <1>1, RoomKept
<1> QED BY <1>2, <1>4, <1>5 DEF Inv

LEMMA ResetRoomInv ==
  ASSUME Inv, NEW t \in Threads, ResetRoom(t)
  PROVE  Inv'
<1>1. /\ present' = {}
      /\ UNCHANGED <<listed, bound, waiting, media, live, calls, socket, fresh, sessions,
                     removing, dropped>>
      /\ at' = [at EXCEPT ![t] = "resetting"]
  BY DEF ResetRoom, Go, peerVars, linkVars
<1>2. /\ lock' \in Threads \cup {"none"}
      /\ job' \in [clear : BOOLEAN, enter : SUBSET Participants,
                   remove : SUBSET Participants, refresh : SUBSET Participants,
                   news : News]
      /\ JobNames'
  <2>1. /\ lock' = t
        /\ job' = [clear |-> TRUE, enter |-> {}, remove |-> present, refresh |-> {},
                   news |-> NoNews]
    BY DEF ResetRoom, Work
  <2> QED BY <2>1, NoNewsIsNews DEF Inv, TypeOK, JobNames, Threads
<1>3. at' \in [Threads -> Steps]
  BY <1>1, GoType DEF Inv, TypeOK, Steps
<1>4. TypeOK'
  BY <1>1, <1>2, <1>3 DEF Inv, TypeOK
<1>5. NobodyWaitsInVain'
  BY <1>1, RoomKept
<1> QED BY <1>2, <1>4, <1>5 DEF Inv

\* The messages, calls and failures that take no lock.
LEMMA ReconnectInv ==
  ASSUME Inv, Reconnect
  PROVE  Inv'
<1>1. /\ fresh' = FALSE
      /\ UNCHANGED <<present, listed, bound, waiting, media, live, calls, lock, job, socket,
                     sessions, removing, dropped>>
      /\ at' = [at EXCEPT !["ws"] = "create"]
  BY DEF Reconnect, Go, roomVars, peerVars
<1>2. at' \in [Threads -> Steps]
  BY <1>1, GoType DEF Inv, TypeOK, Threads, Steps
<1>3. TypeOK' /\ JobNames'
  BY <1>1, <1>2 DEF Inv, TypeOK, JobNames
<1>4. NobodyWaitsInVain'
  BY <1>1, RoomKept
<1> QED BY <1>3, <1>4 DEF Inv

LEMMA CreateManagerInv ==
  ASSUME Inv, CreateManager
  PROVE  Inv'
<1>1. /\ live' = TRUE
      /\ UNCHANGED <<present, listed, bound, waiting, lock, job, socket, fresh, sessions,
                     removing, dropped>>
      /\ at' = [at EXCEPT !["ws"] = "idle"]
  BY DEF CreateManager, Go, roomVars, linkVars
<1>2. calls' \in Seq(Calls) /\ media' = {}
  BY GoneType DEF Inv, TypeOK, CreateManager
<1>3. at' \in [Threads -> Steps]
  BY <1>1, GoType DEF Inv, TypeOK, Threads, Steps
<1>4. TypeOK' /\ JobNames'
  BY <1>1, <1>2, <1>3 DEF Inv, TypeOK, JobNames
<1>5. NobodyWaitsInVain'
  BY <1>1, RoomKept
<1> QED BY <1>4, <1>5 DEF Inv

LEMMA CloseInv ==
  ASSUME Inv, NEW t \in Threads, Close(t)
  PROVE  Inv'
<1>1. /\ UNCHANGED <<present, listed, bound, waiting, lock, job, fresh, sessions, removing,
                     dropped>>
      /\ at' = [at EXCEPT ![t] = "idle"]
  BY DEF Close, Go, roomVars
<1>2. /\ calls' \in Seq(Calls) /\ media' \in SUBSET Tracks
      /\ live' \in BOOLEAN /\ socket' \in {"closed", "open", "closing"}
  <2>1. CASE live
    <3>1. live' = FALSE /\ ManagerGone
      BY <2>1 DEF Close
    <3>2. socket' \in {"closed", "open", "closing"}
      BY <2>1 DEF Close, Inv, TypeOK
    <3> QED BY <3>1, <3>2, GoneType DEF Inv, TypeOK
  <2>2. CASE ~live
    BY <2>2 DEF Close, Inv, TypeOK
  <2> QED BY <2>1, <2>2
<1>3. at' \in [Threads -> Steps]
  BY <1>1, GoType DEF Inv, TypeOK, Steps
<1>4. TypeOK' /\ JobNames'
  BY <1>1, <1>2, <1>3 DEF Inv, TypeOK, JobNames
<1>5. NobodyWaitsInVain'
  BY <1>1, RoomKept
<1> QED BY <1>4, <1>5 DEF Inv

\* The peer connection and the socket only post calls.
LEMMA PostInv ==
  ASSUME Inv, \/ \E s \in Tracks : OnAddTrack(s) \/ OnRemoveTrack(s)
              \/ Fail \/ Disconnected \/ Connect
  PROVE  Inv'
<1>1. UNCHANGED <<present, listed, bound, waiting, at, lock, job, live, removing, dropped>>
  BY DEF OnAddTrack, OnRemoveTrack, Fail, Disconnected, Connect, roomVars, peerVars, linkVars
<1>2. calls' \in Seq(Calls)
  <2>1. CASE \E s \in Tracks : OnAddTrack(s) \/ OnRemoveTrack(s)
    <3>1. PICK s \in Tracks, op \in {"add", "remove"} :
            calls' = Append(calls, [op |-> op, track |-> s])
      BY <2>1 DEF OnAddTrack, OnRemoveTrack, Post
    <3>2. [op |-> op, track |-> s] \in Calls
      BY DEF Calls
    <3> QED BY <3>1, <3>2, QueueType DEF Inv, TypeOK
  <2>2. CASE Fail \/ Disconnected
    <3>1. PICK op \in {"failed", "lost"} : calls' = Append(calls, [op |-> op])
      BY <2>2 DEF Fail, Disconnected, Post
    <3>2. [op |-> op] \in Calls
      BY DEF Calls
    <3> QED BY <3>1, <3>2, QueueType DEF Inv, TypeOK
  <2>3. CASE Connect
    BY <2>3 DEF Connect, Inv, TypeOK
  <2> QED BY <2>1, <2>2, <2>3
<1>3. media' \in SUBSET Tracks
  BY DEF OnAddTrack, OnRemoveTrack, Fail, Disconnected, Connect, peerVars, Inv, TypeOK
<1>4. /\ socket' \in {"closed", "open", "closing"} /\ fresh' \in BOOLEAN
      /\ sessions' \in 0..MaxSessions
  <2>1. CASE Connect
    <3>1. /\ socket' = "open" /\ fresh' = TRUE /\ sessions' = sessions + 1
          /\ sessions < MaxSessions
      BY <2>1 DEF Connect
    <3> QED BY <3>1, RemoteParticipantsAssumption DEF RemoteParticipantsAssumption, Inv, TypeOK
  <2>2. CASE ~Connect
    <3>1. UNCHANGED <<fresh, sessions>> /\ (UNCHANGED socket \/ socket' = "closed")
      BY <2>2 DEF OnAddTrack, OnRemoveTrack, Fail, Disconnected, linkVars
    <3> QED BY <3>1 DEF Inv, TypeOK
  <2> QED BY <2>1, <2>2
<1>5. TypeOK' /\ JobNames'
  BY <1>1, <1>2, <1>3, <1>4 DEF Inv, TypeOK, JobNames
<1>6. NobodyWaitsInVain'
  BY <1>1, RoomKept
<1> QED BY <1>5, <1>6 DEF Inv

LEMMA OnRemoteTrackAddedInv ==
  ASSUME Inv, OnRemoteTrackAdded
  PROVE  Inv'
<1>1. PICK s \in Tracks : s = Head(calls).track
  BY HeadTrack DEF OnRemoteTrackAdded, Inv, TypeOK
<1>2. /\ dropped' = dropped \ {s} /\ calls # <<>> /\ calls' = Tail(calls)
      /\ UNCHANGED <<present, listed, media, live, at, lock, job, socket, fresh, sessions,
                     removing>>
  BY <1>1 DEF OnRemoteTrackAdded, NextCall, peerVars, linkVars
<1>3. calls' \in Seq(Calls)
  BY <1>2 DEF Inv, TypeOK
<1>4. \/ Listed(s) /\ bound' = [bound EXCEPT ![s] = @ + 1] /\ UNCHANGED waiting
      \/ ~Listed(s) /\ waiting' = waiting \cup {s} /\ UNCHANGED bound
  BY <1>1 DEF OnRemoteTrackAdded, AddMedia, AddNonBinded
<1>5. bound' \in [Tracks -> Nat] /\ waiting' \in SUBSET Tracks
  BY <1>4 DEF Inv, TypeOK
<1>6. TypeOK' /\ JobNames'
  BY <1>2, <1>3, <1>5 DEF Inv, TypeOK, JobNames
<1>7. NobodyWaitsInVain'
  BY <1>2, <1>4 DEF Inv, NobodyWaitsInVain, Listed
<1> QED BY <1>6, <1>7 DEF Inv

LEMMA OnRemoteTrackRemovedInv ==
  ASSUME Inv, OnRemoteTrackRemoved
  PROVE  Inv'
<1>1. PICK s \in Tracks : s = Head(calls).track
  BY HeadTrack DEF OnRemoteTrackRemoved, Inv, TypeOK
<1>2. /\ waiting' \in SUBSET waiting /\ removing' = {s}
      /\ calls # <<>> /\ calls' = Tail(calls)
      /\ at' = [at EXCEPT !["events"] = "unbind"]
      /\ UNCHANGED <<present, listed, bound, media, live, lock, job, socket, fresh, sessions,
                     dropped>>
  BY <1>1 DEF OnRemoteTrackRemoved, NextCall, Go, roomVars, peerVars, linkVars
<1>3. calls' \in Seq(Calls)
  BY <1>2 DEF Inv, TypeOK
<1>4. at' \in [Threads -> Steps]
  BY <1>2, GoType DEF Inv, TypeOK, Threads, Steps
<1>5. TypeOK' /\ JobNames'
  BY <1>2, <1>3, <1>4 DEF Inv, TypeOK, JobNames
<1>6. NobodyWaitsInVain'
  BY <1>2, RoomKept
<1> QED BY <1>5, <1>6 DEF Inv

LEMMA UnbindInv ==
  ASSUME Inv, Unbind
  PROVE  Inv'
<1>1. /\ removing' = {}
      /\ at' = [at EXCEPT !["events"] = "idle"]
      /\ UNCHANGED <<present, listed, waiting, media, live, calls, lock, job, socket, fresh,
                     sessions, dropped>>
  BY DEF Unbind, Go, peerVars, linkVars
<1>2. bound' \in [Tracks -> Nat]
  BY DEF Unbind, Inv, TypeOK
<1>3. at' \in [Threads -> Steps]
  BY <1>1, GoType DEF Inv, TypeOK, Threads, Steps
<1>4. TypeOK' /\ JobNames'
  BY <1>1, <1>2, <1>3 DEF Inv, TypeOK, JobNames
<1>5. NobodyWaitsInVain'
  BY <1>1, RoomKept
<1> QED BY <1>4, <1>5 DEF Inv

\* cleanup() begins.
LEMMA CleanupInv ==
  ASSUME Inv, OnLeave \/ OnFailure
  PROVE  Inv'
<1>1. /\ waiting' = {} /\ dropped' = dropped \cup (media \cap waiting)
      /\ UNCHANGED <<present, listed, bound, media, live, lock, job, socket, fresh, sessions,
                     removing>>
  BY DEF OnLeave, OnFailure, ClearStorage, roomVars, peerVars, linkVars
<1>2. \E t \in Threads : at' = [at EXCEPT ![t] = "reset"]
  BY DEF OnLeave, OnFailure, ClearStorage, Go, Threads
<1>3. at' \in [Threads -> Steps]
  BY <1>2, GoType DEF Inv, TypeOK, Steps
<1>4. UNCHANGED calls \/ (calls # <<>> /\ calls' = Tail(calls))
  BY DEF OnLeave, OnFailure, NextCall
<1>5. calls' \in Seq(Calls)
  <2>1. CASE UNCHANGED calls
    BY <2>1 DEF Inv, TypeOK
  <2>2. CASE calls # <<>> /\ calls' = Tail(calls)
    <3>1. calls \in Seq(Calls)
      BY DEF Inv, TypeOK
    <3> QED BY <2>2, <3>1
  <2> QED BY <1>4, <2>1, <2>2
<1>6. TypeOK' /\ JobNames'
  BY <1>1, <1>3, <1>5 DEF Inv, TypeOK, JobNames
<1>7. NobodyWaitsInVain'
  BY <1>1, RoomKept
<1> QED BY <1>6, <1>7 DEF Inv

-----------------------------------------------------------------------------
\* What every call leaves true: the types, a job that names only participants,
\* and NobodyWaitsInVain, whose proof needs no more than these two.
THEOREM Invariance == Spec => []Inv
<1>1. ASSUME Inv, [Next]_vars PROVE Inv'
  <2> USE <1>1
  <2>1. CASE UNCHANGED vars
    BY <2>1 DEF vars, Inv, TypeOK, JobNames, NobodyWaitsInVain, Listed
  <2>2. CASE \E p \in Participants : Update(p)
    BY <2>2, EnterInv, RemoveInv, RefreshInv DEF Update
  <2>3. CASE \E t \in Threads : Run(t)
    BY <2>3, FinishInv, ResetRoomInv, CloseInv DEF Run
  <2>4. CASE CreateManager
    BY <2>4, CreateManagerInv
  <2>5. CASE Serve
    BY <2>5, OnRemoteTrackAddedInv, OnRemoteTrackRemovedInv, UnbindInv, CleanupInv DEF Serve
  <2>6. CASE \E news \in News : SetInfo(news) \/ UpdateInfo(news)
    BY <2>6, SetInfoInv, UpdateInfoInv
  <2>7. CASE Reconnect \/ OnLeave
    BY <2>7, ReconnectInv, CleanupInv
  <2>8. CASE (\E s \in Tracks : OnAddTrack(s) \/ OnRemoveTrack(s)) \/ Fail \/ Disconnected
             \/ Connect
    BY <2>8, PostInv
  <2> QED BY <2>1, <2>2, <2>3, <2>4, <2>5, <2>6, <2>7, <2>8 DEF Next
<1> QED BY <1>1, InitInv, PTL DEF Spec

\* Every variable keeps its type; in particular no count of track objects goes
\* below zero, whatever is removed in which order.
THEOREM TypeCorrect == Spec => []TypeOK
<1>1. Inv => TypeOK
  BY DEF Inv
<1> QED BY <1>1, Invariance, PTL

\* A receiver and the message that lists its track always find each other:
\* none waits in _nonBindedReceivers for a track that is listed already.
THEOREM ReceiversMeetInfos == Spec => []NobodyWaitsInVain
<1>1. Inv => NobodyWaitsInVain
  BY DEF Inv
<1> QED BY <1>1, Invariance, PTL


-----------------------------------------------------------------------------
(* The room: what the thread with the lock still has to do, and that who is *)
(* neither in the room nor to be removed lists nothing.                     *)

Rooms ==
  /\ \A p \in Participants : listed[p] \subseteq TracksOf(p)
  /\ lock = "events" => at["events"] = "resetting"
  /\ job.enter \cap present = {}
  /\ job.refresh \subseteq present \ job.remove
  /\ ~job.clear => job.enter \cap job.remove = {}
  /\ \A p \in Participants : p \notin present \cup job.remove => listed[p] = {}

\* The tracks a message names under a participant are its own.
LEMMA NewsAreOwn ==
  ASSUME NEW n \in News, NEW p \in DOMAIN n
  PROVE  n[p].tracks \subseteq TracksOf(p)
BY DEF News

\* A step that leaves the room and the job of the lock's holder alone.
LEMMA RoomsKept ==
  ASSUME Inv, Rooms, UNCHANGED <<present, listed, lock, job>>,
         lock = "events" => at'["events"] = at["events"]
  PROVE  Rooms'
BY DEF Rooms, TracksOf

LEMMA RoomsStep ==
  ASSUME Inv, Rooms, Next
  PROVE  Rooms'
<1> USE DEF Threads
<1>1. CASE \E p \in Participants : Enter(p)
  <2>1. PICK p \in Participants : Enter(p)
    BY <1>1
  <2>2. /\ p \in job.enter /\ (job.clear => job.remove = {})
        /\ present' = present \cup {p}
        /\ listed' = [listed EXCEPT ![p] = job.news[p].tracks]
        /\ job' = [job EXCEPT !.enter = @ \ {p}]
        /\ UNCHANGED <<at, lock>>
    BY <2>1 DEF Enter
  <2>3. job.news[p].tracks \subseteq TracksOf(p)
    BY <2>2, NewsAreOwn DEF Inv, TypeOK, JobNames
  <2>4. /\ job'.enter = job.enter \ {p} /\ job'.remove = job.remove
        /\ job'.refresh = job.refresh /\ job'.clear = job.clear
    BY <2>2 DEF Inv, TypeOK
  <2>5. job.clear => job.enter \cap job.remove = {}
    BY <2>2
  <2>6. \A q \in Participants : listed'[q] = IF q = p THEN job.news[p].tracks ELSE listed[q]
    BY <2>2 DEF Inv, TypeOK
  <2>7. \A q \in Participants : listed'[q] \subseteq TracksOf(q)
    BY <2>3, <2>6 DEF Rooms
  <2>8. \A q \in Participants : q \notin present' \cup job'.remove => listed'[q] = {}
    BY <2>2, <2>4, <2>6 DEF Rooms
  <2> QED BY <2>2, <2>4, <2>5, <2>7, <2>8 DEF Rooms, TracksOf
<1>2. CASE \E p \in Participants : Remove(p) \/ Refresh(p)
  <2>1. PICK p \in Participants : Remove(p) \/ Refresh(p)
    BY <1>2
  <2>2. \/ /\ p \in job.remove
           /\ job' = [job EXCEPT !.remove = @ \ {p}]
           /\ present' = present \ {p} /\ listed' = [listed EXCEPT ![p] = {}]
        \/ /\ p \in job.refresh /\ job.enter = {} /\ job.remove = {}
           /\ job' = [job EXCEPT !.refresh = @ \ {p}]
           /\ \/ present' = present \ {p} /\ listed' = [listed EXCEPT ![p] = {}]
              \/ present' = present /\ listed' = [listed EXCEPT ![p] = job.news[p].tracks]
    BY <2>1 DEF Remove, Refresh, Disposed, Revised
  <2>3. UNCHANGED <<at, lock>>
    BY <2>1 DEF Remove, Refresh
  <2>4. p \in job.refresh => job.news[p].tracks \subseteq TracksOf(p)
    BY NewsAreOwn DEF Inv, TypeOK, JobNames
  <2>5. CASE p \in job.remove /\ job' = [job EXCEPT !.remove = @ \ {p}]
               /\ present' = present \ {p} /\ listed' = [listed EXCEPT ![p] = {}]
    <3>1. /\ job'.enter = job.enter /\ job'.remove = job.remove \ {p}
          /\ job'.refresh = job.refresh /\ job'.clear = job.clear
      BY <2>5 DEF Inv, TypeOK
    <3>2. \A q \in Participants : listed'[q] = IF q = p THEN {} ELSE listed[q]
      BY <2>5 DEF Inv, TypeOK
    <3> QED BY <2>3, <2>5, <3>1, <3>2 DEF Rooms, TracksOf
  <2>6. CASE p \in job.refresh /\ job.enter = {} /\ job.remove = {}
               /\ job' = [job EXCEPT !.refresh = @ \ {p}]
    <3>1. /\ job'.enter = {} /\ job'.remove = {}
          /\ job'.refresh = job.refresh \ {p} /\ job'.clear = job.clear
      BY <2>6 DEF Inv, TypeOK
    <3>2. CASE present' = present \ {p} /\ listed' = [listed EXCEPT ![p] = {}]
      <4>1. \A q \in Participants : listed'[q] = IF q = p THEN {} ELSE listed[q]
        BY <3>2 DEF Inv, TypeOK
      <4> QED BY <2>3, <2>6, <3>1, <3>2, <4>1 DEF Rooms, TracksOf
    <3>3. CASE present' = present /\ listed' = [listed EXCEPT ![p] = job.news[p].tracks]
      <4>1. \A q \in Participants : listed'[q] = IF q = p THEN job.news[p].tracks ELSE listed[q]
        BY <3>3 DEF Inv, TypeOK
      <4>2. p \in present
        BY <2>6 DEF Rooms
      <4> QED BY <2>3, <2>4, <2>6, <3>1, <3>3, <4>1, <4>2 DEF Rooms, TracksOf
    <3>4. \/ present' = present \ {p} /\ listed' = [listed EXCEPT ![p] = {}]
          \/ present' = present /\ listed' = [listed EXCEPT ![p] = job.news[p].tracks]
      BY <2>2, <2>6
    <3> QED BY <3>2, <3>3, <3>4
  <2> QED BY <2>2, <2>5, <2>6
<1>3. CASE \E t \in Threads : Finish(t)
  <2>1. /\ job.remove = {} /\ job' = NoJob /\ lock' = "none"
        /\ UNCHANGED <<present, listed>>
    BY <1>3 DEF Finish, roomVars
  <2> QED BY <2>1 DEF Rooms, NoJob, TracksOf
<1>4. CASE \E news \in News : SetInfo(news)
  <2>1. PICK news \in News : SetInfo(news)
    BY <1>4
  <2>2. /\ lock = "none" /\ lock' = "ws" /\ present' = {} /\ UNCHANGED listed
        /\ job'.clear = TRUE /\ job'.remove = present /\ job'.refresh = {}
    BY <2>1 DEF SetInfo, Work
  <2>3. job.remove = {}
    BY <2>2 DEF Inv, JobNames, NoJob
  <2> QED BY <2>2, <2>3 DEF Rooms, TracksOf
<1>5. CASE \E news \in News : UpdateInfo(news)
  <2>1. PICK news \in News : UpdateInfo(news)
    BY <1>5
  <2>2. /\ lock = "none" /\ lock' = "ws" /\ UNCHANGED <<present, listed>>
        /\ job'.enter = DOMAIN news \ present /\ job'.remove = present \ DOMAIN news
        /\ job'.refresh = present \cap DOMAIN news
    BY <2>1 DEF UpdateInfo, Work, roomVars
  <2>3. job.remove = {}
    BY <2>2 DEF Inv, JobNames, NoJob
  <2> QED BY <2>2, <2>3 DEF Rooms, TracksOf
<1>6. CASE \E t \in Threads : ResetRoom(t)
  <2>1. PICK t \in Threads : ResetRoom(t)
    BY <1>6
  <2>2. /\ lock = "none" /\ lock' = t /\ present' = {} /\ UNCHANGED listed
        /\ job'.clear = TRUE /\ job'.enter = {} /\ job'.remove = present /\ job'.refresh = {}
        /\ at' = [at EXCEPT ![t] = "resetting"]
    BY <2>1 DEF ResetRoom, Work, Go
  <2>3. job.remove = {}
    BY <2>2 DEF Inv, JobNames, NoJob
  <2>4. lock' = "events" => at'["events"] = "resetting"
    BY <2>2 DEF Inv, TypeOK
  <2> QED BY <2>2, <2>3, <2>4 DEF Rooms, TracksOf
<1>7. CASE Serve \/ \E t \in Threads : Close(t)
  <2>1. UNCHANGED <<present, listed, lock, job>>
    BY <1>7 DEF Serve, OnRemoteTrackAdded, OnRemoteTrackRemoved, Unbind, OnFailure, Close, roomVars
  <2>2. lock = "events" => at'["events"] = at["events"]
    <3>1. CASE Serve
      <4>1. UNCHANGED at \/ at["events"] # "resetting"
        BY <3>1 DEF Serve, OnRemoteTrackAdded, OnRemoteTrackRemoved, Unbind, OnFailure, NextCall
      <4> QED BY <4>1 DEF Rooms
    <3>2. CASE \E t \in Threads : Close(t)
      <4>1. PICK t \in Threads : at[t] = "close" /\ at' = [at EXCEPT ![t] = "idle"]
        BY <3>2 DEF Close, Go
      <4> QED BY <4>1 DEF Rooms, Inv, TypeOK
    <3> QED BY <1>7, <3>1, <3>2
  <2> QED BY <2>1, <2>2, RoomsKept
<1>8. CASE \/ CreateManager \/ Reconnect \/ OnLeave
           \/ \E s \in Tracks : OnAddTrack(s) \/ OnRemoveTrack(s)
           \/ Fail \/ Disconnected \/ Connect
  <2>1. UNCHANGED <<present, listed, lock, job>>
    BY <1>8 DEF CreateManager, Reconnect, OnLeave, OnAddTrack, OnRemoveTrack, Fail, Disconnected,
                Connect, roomVars
  <2>2. UNCHANGED at \/ \E step : at' = [at EXCEPT !["ws"] = step]
    BY <1>8 DEF CreateManager, Reconnect, OnLeave, OnAddTrack, OnRemoveTrack, Fail, Disconnected,
                Connect, Go, ClearStorage
  <2>3. at'["events"] = at["events"]
    BY <2>2 DEF Inv, TypeOK
  <2> QED BY <2>1, <2>3, RoomsKept
<1> QED BY <1>1, <1>2, <1>3, <1>4, <1>5, <1>6, <1>7, <1>8 DEF Next, Update, Run

-----------------------------------------------------------------------------
(* The calls: of each track they say by turns that it comes and that it     *)
(* goes, the last one as the peer connection has it.                        *)

About(i, s) == i \in DOMAIN calls /\ calls[i].op \in {"add", "remove"} /\ calls[i].track = s

\* No call after the first n is about s; the call i is the first that is.
Settled(n, s) == \A i \in DOMAIN calls : i > n => ~About(i, s)
NextOn(n, i, s) ==
  About(i, s) /\ i > n /\ \A j \in DOMAIN calls : n < j /\ j < i => ~About(j, s)

Alternates(s) ==
  \A i \in DOMAIN calls : About(i, s) =>
    /\ \A j \in DOMAIN calls : NextOn(i, j, s) => calls[j].op # calls[i].op
    /\ Settled(i, s) => (s \in media <=> calls[i].op = "add")

OnlyLost == \A i \in DOMAIN calls : calls[i].op = "lost"

CallsInv ==
  /\ at["events"] # "unbind" => removing = {}
  /\ ~live => media = {} /\ OnlyLost
  /\ \A s \in Tracks : Alternates(s)
  /\ \A s \in removing : Settled(0, s) => s \notin media

\* The call at the head is made.
LEMMA TailFacts ==
  ASSUME calls \in Seq(Calls), calls # <<>>, calls' = Tail(calls)
  PROVE  /\ 1 \in DOMAIN calls /\ Head(calls) = calls[1]
         /\ \A i \in DOMAIN calls' : i \in Nat \ {0} /\ i + 1 \in DOMAIN calls /\ calls'[i] = calls[i + 1]
         /\ \A i \in DOMAIN calls : /\ i \in Nat \ {0}
                                    /\ i # 1 => i - 1 \in DOMAIN calls' /\ calls'[i - 1] = calls[i]
OBVIOUS

LEMMA TailAbout ==
  ASSUME calls \in Seq(Calls), calls # <<>>, calls' = Tail(calls), NEW s
  PROVE  /\ \A i : About(i, s)' <=> i \in Nat \ {0} /\ About(i + 1, s)
         /\ \A n \in Nat : Settled(n, s)' <=> Settled(n + 1, s)
         /\ \A n \in Nat : \A i : NextOn(n, i, s)' => i \in Nat \ {0} /\ NextOn(n + 1, i + 1, s)
<1>1. \A i : About(i, s)' <=> i \in Nat \ {0} /\ About(i + 1, s)
  <2>1. ASSUME NEW i, About(i, s)' PROVE i \in Nat \ {0} /\ About(i + 1, s)
    BY <2>1, TailFacts DEF About
  <2>2. ASSUME NEW i \in Nat \ {0}, About(i + 1, s) PROVE About(i, s)'
    <3>1. i + 1 \in DOMAIN calls /\ i + 1 # 1 /\ (i + 1) - 1 = i
      BY <2>2 DEF About
    <3>2. i \in DOMAIN calls' /\ calls'[i] = calls[i + 1]
      BY <3>1, TailFacts
    <3> QED BY <2>2, <3>2 DEF About
  <2> QED BY <2>1, <2>2
<1>2. ASSUME NEW n \in Nat PROVE Settled(n, s)' <=> Settled(n + 1, s)
  <2>1. ASSUME Settled(n, s)', NEW i \in DOMAIN calls, i > n + 1, About(i, s) PROVE FALSE
    <3>1. i \in Nat \ {0} /\ i - 1 \in Nat \ {0} /\ (i - 1) + 1 = i /\ i - 1 > n
      BY <2>1, TailFacts
    <3>2. About(i - 1, s)'
      BY <1>1, <2>1, <3>1
    <3> QED BY <2>1, <3>1, <3>2 DEF Settled, About
  <2>2. ASSUME Settled(n + 1, s), NEW i \in DOMAIN calls', i > n, About(i, s)' PROVE FALSE
    <3>1. i \in Nat \ {0} /\ About(i + 1, s) /\ i + 1 \in DOMAIN calls
      BY <1>1, <2>2, TailFacts
    <3> QED BY <2>2, <3>1 DEF Settled
  <2> QED BY <2>1, <2>2 DEF Settled
<1>3. ASSUME NEW n \in Nat, NEW i, NextOn(n, i, s)'
      PROVE  i \in Nat \ {0} /\ NextOn(n + 1, i + 1, s)
  <2>1. i \in Nat \ {0} /\ About(i + 1, s) /\ i > n
    BY <1>1, <1>3 DEF NextOn
  <2>2. ASSUME NEW j \in DOMAIN calls, n + 1 < j, j < i + 1, About(j, s) PROVE FALSE
    <3>1. j \in Nat \ {0} /\ j - 1 \in Nat \ {0} /\ (j - 1) + 1 = j /\ n < j - 1 /\ j - 1 < i
      BY <2>1, <2>2, TailFacts
    <3>2. About(j - 1, s)' /\ j - 1 \in DOMAIN calls'
      BY <1>1, <2>2, <3>1, TailFacts
    <3> QED BY <1>3, <3>1, <3>2 DEF NextOn
  <2> QED BY <2>1, <2>2 DEF NextOn
<1> QED BY <1>1, <1>2, <1>3

LEMMA TailAlternates ==
  ASSUME calls \in Seq(Calls), calls # <<>>, calls' = Tail(calls), UNCHANGED media,
         NEW s, Alternates(s)
  PROVE  Alternates(s)'
<1> SUFFICES ASSUME NEW i \in DOMAIN calls', About(i, s)'
             PROVE  /\ \A j \in DOMAIN calls' : NextOn(i, j, s)' => calls'[j].op # calls'[i].op
                    /\ Settled(i, s)' => (s \in media' <=> calls'[i].op = "add")
  BY DEF Alternates
<1>1. i \in Nat \ {0} /\ i + 1 \in DOMAIN calls /\ calls'[i] = calls[i + 1] /\ About(i + 1, s)
  BY TailFacts, TailAbout
<1>2. ASSUME NEW j \in DOMAIN calls', NextOn(i, j, s)' PROVE calls'[j].op # calls'[i].op
  <2>1. j + 1 \in DOMAIN calls /\ calls'[j] = calls[j + 1]
    BY TailFacts
  <2>2. NextOn(i + 1, j + 1, s)
    BY <1>1, <1>2, TailAbout
  <2> QED BY <1>1, <2>1, <2>2 DEF Alternates
<1>3. Settled(i, s)' => Settled(i + 1, s)
  BY <1>1, TailAbout
<1> QED BY <1>1, <1>2, <1>3 DEF Alternates

\* The head of the queue is the first call about its track.
LEMMA HeadAlternates ==
  ASSUME calls \in Seq(Calls), calls # <<>>, calls' = Tail(calls), UNCHANGED media,
         NEW s, Alternates(s), About(1, s)
  PROVE  /\ Settled(0, s)' => (s \in media' <=> calls[1].op = "add")
         /\ \A i \in DOMAIN calls' : NextOn(0, i, s)' => calls'[i].op # calls[1].op
<1>0. \A n \in Nat : /\ Settled(n, s)' <=> Settled(n + 1, s)
                     /\ \A i : NextOn(n, i, s)' => i \in Nat \ {0} /\ NextOn(n + 1, i + 1, s)
  BY TailAbout
<1>1. Settled(0, s)' => Settled(1, s)
  <2>1. Settled(0, s)' <=> Settled(0 + 1, s)
    BY <1>0
  <2> QED BY <2>1 DEF Settled
<1>2. ASSUME NEW i \in DOMAIN calls', NextOn(0, i, s)' PROVE calls'[i].op # calls[1].op
  <2>1. i + 1 \in DOMAIN calls /\ calls'[i] = calls[i + 1]
    BY TailFacts
  <2>2. NextOn(1, i + 1, s)
    <3>1. NextOn(0 + 1, i + 1, s)
      BY <1>0, <1>2
    <3> QED BY <3>1 DEF NextOn
  <2> QED BY <2>1, <2>2, TailFacts DEF Alternates
<1> QED BY <1>1, <1>2, TailFacts DEF Alternates

\* A call is posted.
LEMMA AppendFacts ==
  ASSUME calls \in Seq(Calls), NEW c \in Calls, calls' = Append(calls, c)
  PROVE  /\ Len(calls) \in Nat /\ \A i \in DOMAIN calls : i \in Nat \ {0} /\ i <= Len(calls)
         /\ DOMAIN calls' = DOMAIN calls \cup {Len(calls) + 1}
         /\ \A i \in DOMAIN calls : calls'[i] = calls[i]
         /\ calls'[Len(calls) + 1] = c
OBVIOUS

LEMMA AppendOther ==
  ASSUME calls \in Seq(Calls), NEW c \in Calls, calls' = Append(calls, c), NEW s,
         ~(c.op \in {"add", "remove"} /\ c.track = s)
  PROVE  /\ \A i : About(i, s)' <=> About(i, s)
         /\ \A n : Settled(n, s)' <=> Settled(n, s)
         /\ \A n, i : NextOn(n, i, s)' <=> NextOn(n, i, s)
<1>1. \A i : About(i, s)' <=> About(i, s)
  BY AppendFacts DEF About
<1>2. \A n : Settled(n, s)' <=> Settled(n, s)
  BY <1>1, AppendFacts DEF Settled, About
<1>3. \A n, i : NextOn(n, i, s)' <=> NextOn(n, i, s)
  BY <1>1, AppendFacts DEF NextOn, About
<1> QED BY <1>1, <1>2, <1>3

LEMMA AppendAbout ==
  ASSUME calls \in Seq(Calls), NEW c \in Calls, calls' = Append(calls, c), NEW s,
         c.op \in {"add", "remove"}, c.track = s
  PROVE  /\ \A i : About(i, s)' <=> About(i, s) \/ i = Len(calls) + 1
         /\ \A n \in DOMAIN calls \cup {0} : ~Settled(n, s)'
         /\ \A n \in DOMAIN calls \cup {0} : \A i :
              NextOn(n, i, s)' => NextOn(n, i, s) \/ (i = Len(calls) + 1 /\ Settled(n, s))
<1>1. \A i : About(i, s)' <=> About(i, s) \/ i = Len(calls) + 1
  BY AppendFacts DEF About
<1>2. \A n \in DOMAIN calls \cup {0} : Len(calls) + 1 > n
  BY AppendFacts
<1>3. \A n \in DOMAIN calls \cup {0} : ~Settled(n, s)'
  BY <1>1, <1>2, AppendFacts DEF Settled
<1>4. ASSUME NEW n \in DOMAIN calls \cup {0}, NEW i, NextOn(n, i, s)', ~NextOn(n, i, s)
      PROVE  i = Len(calls) + 1 /\ Settled(n, s)
  <2>1. \A j \in DOMAIN calls : n < j /\ j < i => ~About(j, s)
    BY <1>1, <1>4, AppendFacts DEF NextOn
  <2>2. i = Len(calls) + 1
    BY <1>1, <1>4, <2>1 DEF NextOn
  <2>3. \A j \in DOMAIN calls : j < i
    BY <2>2, AppendFacts
  <2> QED BY <2>1, <2>2, <2>3, AppendFacts DEF Settled
<1> QED BY <1>1, <1>3, <1>4

LEMMA AppendAlternates ==
  ASSUME calls \in Seq(Calls), NEW c \in Calls, calls' = Append(calls, c), NEW s, Alternates(s),
         IF c.op \in {"add", "remove"} /\ c.track = s
           THEN (c.op = "add" <=> s \notin media) /\ (s \in media' <=> c.op = "add")
           ELSE s \in media' <=> s \in media
  PROVE  Alternates(s)'
<1>1. CASE ~(c.op \in {"add", "remove"} /\ c.track = s)
  <2> SUFFICES ASSUME NEW i, About(i, s)'
               PROVE  /\ \A j : NextOn(i, j, s)' => calls'[j].op # calls'[i].op
                      /\ Settled(i, s)' => (s \in media' <=> calls'[i].op = "add")
    BY DEF Alternates
  <2>1. About(i, s) /\ i \in DOMAIN calls /\ calls'[i] = calls[i]
    BY <1>1, AppendOther, AppendFacts DEF About
  <2>2. ASSUME NEW j, NextOn(i, j, s)' PROVE calls'[j].op # calls'[i].op
    <3>1. NextOn(i, j, s) /\ j \in DOMAIN calls
      BY <1>1, <2>2, AppendOther DEF NextOn, About
    <3> QED BY <2>1, <3>1, AppendFacts DEF Alternates
  <2>3. Settled(i, s)' => Settled(i, s)
    BY <1>1, AppendOther
  <2> QED BY <1>1, <2>1, <2>2, <2>3 DEF Alternates
<1>2. CASE c.op \in {"add", "remove"} /\ c.track = s
  <2>0. /\ \A i : About(i, s)' <=> About(i, s) \/ i = Len(calls) + 1
        /\ \A n \in DOMAIN calls : \A i :
             NextOn(n, i, s)' => NextOn(n, i, s) \/ (i = Len(calls) + 1 /\ Settled(n, s))
    BY <1>2, AppendAbout
  <2> SUFFICES ASSUME NEW i, About(i, s)'
               PROVE  /\ \A j : NextOn(i, j, s)' => calls'[j].op # calls'[i].op
                      /\ Settled(i, s)' => (s \in media' <=> calls'[i].op = "add")
    BY DEF Alternates
  <2>1. CASE About(i, s)
    <3>1. i \in DOMAIN calls /\ calls'[i] = calls[i] /\ ~Settled(i, s)'
      BY <1>2, <2>1, AppendAbout, AppendFacts DEF About
    <3>2. ASSUME NEW j, NextOn(i, j, s)' PROVE calls'[j].op # calls'[i].op
      <4>1. CASE NextOn(i, j, s)
        BY <2>1, <3>1, <4>1, AppendFacts DEF Alternates, NextOn, About
      <4>2. CASE j = Len(calls) + 1 /\ Settled(i, s)
        <5>1. s \in media <=> calls[i].op = "add"
          BY <2>1, <3>1, <4>2 DEF Alternates
        <5>2. calls'[j] = c
          BY <4>2, AppendFacts
        <5>3. calls[i].op \in {"add", "remove"}
          BY <2>1 DEF About
        <5> QED BY <1>2, <3>1, <5>1, <5>2, <5>3
      <4>3. NextOn(i, j, s) \/ (j = Len(calls) + 1 /\ Settled(i, s))
        BY <2>0, <3>1, <3>2
      <4> QED BY <4>1, <4>2, <4>3
    <3> QED BY <3>1, <3>2
  <2>2. CASE i = Len(calls) + 1
    <3>1. calls'[i] = c
      BY <2>2, AppendFacts
    <3>2. \A j : ~NextOn(i, j, s)'
      BY <2>2, AppendFacts DEF NextOn, About
    <3> QED BY <1>2, <3>1, <3>2
  <2> QED BY <2>0, <2>1, <2>2
<1> QED BY <1>1, <1>2

\* The head is about another track.
LEMMA HeadOther ==
  ASSUME calls \in Seq(Calls), calls # <<>>, calls' = Tail(calls), NEW s, ~About(1, s)
  PROVE  /\ Settled(0, s)' => Settled(0, s)
         /\ \A i \in DOMAIN calls' : NextOn(0, i, s)' =>
              i + 1 \in DOMAIN calls /\ calls'[i] = calls[i + 1] /\ NextOn(0, i + 1, s)
<1>0. \A n \in Nat : /\ Settled(n, s)' <=> Settled(n + 1, s)
                     /\ \A i : NextOn(n, i, s)' => i \in Nat \ {0} /\ NextOn(n + 1, i + 1, s)
  BY TailAbout
<1>1. Settled(0, s)' => Settled(0, s)
  <2>1. Settled(0, s)' => Settled(0 + 1, s)
    BY <1>0
  <2> QED BY <2>1, TailFacts DEF Settled
<1>2. ASSUME NEW i \in DOMAIN calls', NextOn(0, i, s)' PROVE NextOn(0, i + 1, s)
  <2>1. i \in Nat \ {0} /\ NextOn(0 + 1, i + 1, s)
    BY <1>0, <1>2
  <2>2. \A j \in DOMAIN calls : j = 1 \/ j > 1
    BY TailFacts
  <2> QED BY <2>1, <2>2 DEF NextOn
<1> QED BY <1>1, <1>2, TailFacts

\* What the events queue's thread hears next.
LEMMA NextCallFacts ==
  ASSUME Inv, NEW op, NextCall(op), calls' = Tail(calls)
  PROVE  /\ calls \in Seq(Calls) /\ calls # <<>> /\ at["events"] = "idle"
         /\ Head(calls) = calls[1] /\ calls[1].op = op /\ 1 \in DOMAIN calls
         /\ op \in {"add", "remove"} => Head(calls).track \in Tracks /\ About(1, Head(calls).track)
         /\ \A s : About(1, s) <=> op \in {"add", "remove"} /\ s = Head(calls).track
<1>1. calls \in Seq(Calls) /\ calls # <<>> /\ at["events"] = "idle" /\ Head(calls).op = op
  BY DEF Inv, TypeOK, NextCall
<1>2. op \in {"add", "remove"} => Head(calls).track \in Tracks
  BY <1>1, HeadTrack
<1> QED BY <1>1, <1>2, TailFacts DEF About

\* The calls of a manager that is gone.
LEMMA GoneCalls ==
  ASSUME calls \in Seq(Calls), ManagerGone
  PROVE  /\ OnlyLost' /\ media' = {} /\ \A s, i : ~About(i, s)'
         /\ (\E i \in DOMAIN calls : calls[i].op = "lost") => 1 \in DOMAIN calls'
         /\ (\A i \in DOMAIN calls : calls[i].op # "lost") => DOMAIN calls' = {}
<1> DEFINE kept == {i \in DOMAIN calls : calls[i].op = "lost"}
<1>1. DOMAIN calls = 1..Len(calls) /\ Len(calls) \in Nat
  OBVIOUS
<1>2. IsFiniteSet(1..Len(calls))
  BY <1>1, FS_Interval
<1>3. IsFiniteSet(kept)
  BY <1>1, <1>2, FS_Subset
<1>4. Cardinality(kept) \in Nat /\ (Cardinality(kept) = 0 <=> kept = {})
  BY <1>3, FS_CardinalityType, FS_EmptySet
<1>5. calls' = [i \in 1..Cardinality(kept) |-> [op |-> "lost"]] /\ media' = {}
  BY DEF ManagerGone
<1>6. (\E i \in DOMAIN calls : calls[i].op = "lost") => kept # {}
  OBVIOUS
<1>7. (\A i \in DOMAIN calls : calls[i].op # "lost") => kept = {}
  OBVIOUS
<1> HIDE DEF kept
<1>8. DOMAIN calls' = 1..Cardinality(kept) /\ \A i \in DOMAIN calls' : calls'[i].op = "lost"
  BY <1>5
<1>9. OnlyLost'
  BY <1>8 DEF OnlyLost
<1>10. \A s, i : ~About(i, s)'
  BY <1>8 DEF About
<1> QED BY <1>4, <1>5, <1>6, <1>7, <1>8, <1>9, <1>10

\* Nothing is heard, posted or taken away.
LEMMA CallsKept ==
  ASSUME CallsInv, UNCHANGED <<calls, media, live, removing>>,
         at'["events"] # "unbind" => at["events"] # "unbind"
  PROVE  CallsInv'
BY DEF CallsInv, OnlyLost, Alternates, Settled, NextOn, About

LEMMA CallsStep ==
  ASSUME Inv, Inv', Rooms, CallsInv, Next
  PROVE  CallsInv'
<1> USE DEF Threads
<1>0. calls \in Seq(Calls) /\ at \in [Threads -> Steps]
  BY DEF Inv, TypeOK
<1>1. CASE \/ \E p \in Participants : Update(p)
           \/ \E t \in Threads : Finish(t) \/ ResetRoom(t)
           \/ \E t \in Threads : Close(t) /\ ~live
           \/ \E news \in News : SetInfo(news) \/ UpdateInfo(news)
           \/ Reconnect \/ OnLeave \/ Connect
  <2>1. UNCHANGED <<calls, media, live, removing>>
    BY <1>1 DEF Update, Enter, Remove, Refresh, Finish, ResetRoom, Close, SetInfo, UpdateInfo,
                Reconnect, OnLeave, Connect, peerVars
  <2>2. \/ UNCHANGED at
        \/ \E step : at' = [at EXCEPT !["ws"] = step]
        \/ at["events"] # "unbind"
    <3>1. CASE \/ \E p \in Participants : Update(p)
               \/ Connect
      BY <3>1 DEF Update, Enter, Remove, Refresh, Connect
    <3>2. CASE \/ \E news \in News : SetInfo(news) \/ UpdateInfo(news)
               \/ Reconnect \/ OnLeave
      BY <3>2 DEF SetInfo, UpdateInfo, Reconnect, OnLeave, ClearStorage, Go
    <3>3. CASE \E t \in Threads : Finish(t) \/ ResetRoom(t) \/ Close(t)
      <4>1. PICK t \in Threads : Finish(t) \/ ResetRoom(t) \/ Close(t)
        BY <3>3
      <4>2. \E step : at' = [at EXCEPT ![t] = step]
        BY <4>1 DEF Finish, ResetRoom, Close, Go
      <4>3. t = "events" => at["events"] # "unbind"
        BY <4>1 DEF Finish, ResetRoom, Close, Rooms
      <4> QED BY <4>2, <4>3
    <3> QED BY <1>1, <3>1, <3>2, <3>3
  <2>3. at'["events"] # "unbind" => at["events"] # "unbind"
    BY <1>0, <2>2
  <2> QED BY <2>1, <2>3, CallsKept
<1>2. CASE CreateManager \/ \E t \in Threads : Close(t) /\ live
  <2>1. ManagerGone /\ UNCHANGED removing
    BY <1>2 DEF CreateManager, Close
  <2>2. at'["events"] # "unbind" => at["events"] # "unbind"
    <3>1. PICK t \in Threads : /\ at' = [at EXCEPT ![t] = "idle"]
                               /\ at[t] = "close" \/ t = "ws"
      BY <1>2 DEF CreateManager, Close, Go
    <3> QED BY <1>0, <3>1
  <2>3. OnlyLost' /\ media' = {} /\ \A s, i : ~About(i, s)'
    BY <1>0, <2>1, GoneCalls
  <2>4. \A s \in Tracks : Alternates(s)'
    BY <2>3 DEF Alternates
  <2> QED BY <2>1, <2>2, <2>3, <2>4 DEF CallsInv
<1>3. CASE \/ \E s \in Tracks : OnAddTrack(s) \/ OnRemoveTrack(s)
           \/ Fail \/ Disconnected
  <2>1. UNCHANGED <<at, live, removing>>
    BY <1>3 DEF OnAddTrack, OnRemoveTrack, Fail, Disconnected, peerVars
  <2>2. PICK c \in Calls :
          /\ calls' = Append(calls, c)
          /\ ~live => c.op = "lost" /\ UNCHANGED media
          /\ IF c.op \in {"add", "remove"}
               THEN /\ c.op = "add" <=> c.track \notin media
                    /\ c.track \in media' <=> c.op = "add"
                    /\ \A s : s # c.track => (s \in media' <=> s \in media)
               ELSE UNCHANGED media
    <3>1. CASE \E s \in Tracks : OnAddTrack(s)
      <4>1. PICK s \in Tracks : OnAddTrack(s)
        BY <3>1
      <4> DEFINE c == [op |-> "add", track |-> s]
      <4>2. c \in Calls /\ c.op = "add" /\ c.track = s
        BY DEF Calls
      <4>3. calls' = Append(calls, c) /\ live /\ s \notin media /\ media' = media \cup {s}
        BY <4>1 DEF OnAddTrack, Post
      <4> HIDE DEF c
      <4> QED BY <4>2, <4>3
    <3>2. CASE \E s \in Tracks : OnRemoveTrack(s)
      <4>1. PICK s \in Tracks : OnRemoveTrack(s)
        BY <3>2
      <4> DEFINE c == [op |-> "remove", track |-> s]
      <4>2. c \in Calls /\ c.op = "remove" /\ c.track = s
        BY DEF Calls
      <4>3. calls' = Append(calls, c) /\ live /\ s \in media /\ media' = media \ {s}
        BY <4>1 DEF OnRemoveTrack, Post
      <4> HIDE DEF c
      <4> QED BY <4>2, <4>3
    <3>3. CASE Fail
      <4> DEFINE c == [op |-> "failed"]
      <4>1. c \in Calls /\ c.op = "failed"
        BY DEF Calls
      <4>2. calls' = Append(calls, c) /\ live /\ UNCHANGED media
        BY <3>3 DEF Fail, Post, peerVars
      <4> HIDE DEF c
      <4> QED BY <4>1, <4>2
    <3>4. CASE Disconnected
      <4> DEFINE c == [op |-> "lost"]
      <4>1. c \in Calls /\ c.op = "lost"
        BY DEF Calls
      <4>2. calls' = Append(calls, c) /\ UNCHANGED media
        BY <3>4 DEF Disconnected, Post, peerVars
      <4> HIDE DEF c
      <4> QED BY <4>1, <4>2
    <3> QED BY <1>3, <3>1, <3>2, <3>3, <3>4
  <2>3. \A s \in Tracks : Alternates(s)'
    BY <1>0, <2>2, AppendAlternates DEF CallsInv
  <2>4. ~live => media' = {} /\ OnlyLost'
    BY <1>0, <2>2, AppendFacts DEF CallsInv, OnlyLost
  <2>5. ASSUME NEW s \in removing, Settled(0, s)' PROVE s \notin media'
    <3>1. CASE c.op \in {"add", "remove"} /\ c.track = s
      <4>1. ~Settled(0, s)'
        BY <1>0, <2>2, <3>1, AppendAbout
      <4> QED BY <2>5, <4>1
    <3>2. CASE ~(c.op \in {"add", "remove"} /\ c.track = s)
      <4>1. Settled(0, s)
        BY <1>0, <2>2, <2>5, <3>2, AppendOther
      <4> QED BY <2>2, <3>2, <4>1 DEF CallsInv
    <3> QED BY <3>1, <3>2
  <2> QED BY <2>1, <2>3, <2>4, <2>5 DEF CallsInv
<1>4. CASE OnRemoteTrackAdded \/ OnRemoteTrackRemoved \/ OnFailure
  <2>1. /\ calls' = Tail(calls) /\ UNCHANGED <<media, live>>
        /\ \/ OnRemoteTrackRemoved /\ NextCall("remove") /\ removing' = {Head(calls).track}
              /\ at' = [at EXCEPT !["events"] = "unbind"]
           \/ (NextCall("add") \/ NextCall("lost") \/ NextCall("failed")) /\ UNCHANGED removing
    BY <1>4 DEF OnRemoteTrackAdded, OnRemoteTrackRemoved, OnFailure, peerVars, Go
  <2>2. PICK op : NextCall(op)
    BY <2>1
  <2>3. calls # <<>> /\ removing = {}
    BY <2>1, <2>2, NextCallFacts DEF CallsInv
  <2>4. \A s \in Tracks : Alternates(s)'
    BY <1>0, <2>1, <2>3, TailAlternates DEF CallsInv
  <2>5. ~live => OnlyLost'
    BY <1>0, <2>1, <2>3, TailFacts DEF CallsInv, OnlyLost
  <2>6. ASSUME NEW s \in removing', Settled(0, s)' PROVE s \notin media'
    <3>1. NextCall("remove") /\ s = Head(calls).track
      BY <2>1, <2>3, <2>6
    <3>2. s \in Tracks /\ About(1, s) /\ calls[1].op = "remove"
      BY <2>1, <3>1, NextCallFacts
    <3>3. Alternates(s)
      BY <3>2 DEF CallsInv
    <3> QED BY <1>0, <2>1, <2>3, <2>6, <3>2, <3>3, HeadAlternates
  <2>7. at'["events"] # "unbind" => removing' = {}
    BY <1>0, <2>1, <2>3
  <2> QED BY <2>1, <2>4, <2>5, <2>6, <2>7 DEF CallsInv
<1>5. CASE Unbind
  <2>1. removing' = {} /\ UNCHANGED <<calls, media, live>>
    BY <1>5 DEF Unbind, peerVars
  <2> QED BY <2>1 DEF CallsInv, OnlyLost, Alternates, Settled, NextOn, About
<1> QED BY <1>1, <1>2, <1>3, <1>4, <1>5 DEF Next, Run, Serve

-----------------------------------------------------------------------------
(* No receiver is lost: one that has been heard of, and not been heard to   *)
(* go, is bound, waits, or went with an info or a reset.                    *)

Kept(s) == bound[s] > 0 \/ s \in waiting

LostInv == \A s \in media \ dropped : Settled(0, s) => Kept(s)

\* The calls stay, and what was kept is kept or went with an info.
LEMMA LostKept ==
  ASSUME LostInv, UNCHANGED <<calls, media>>,
         \A s \in media \ dropped' : s \notin dropped /\ (Kept(s) => Kept(s)')
  PROVE  LostInv'
BY DEF LostInv, Settled, About

LEMMA LostStep ==
  ASSUME Inv, Rooms, CallsInv, LostInv, Next
  PROVE  LostInv'
<1> USE DEF Threads
<1>0. /\ calls \in Seq(Calls) /\ bound \in [Tracks -> Nat] /\ media \subseteq Tracks
      /\ removing \subseteq Tracks
  BY DEF Inv, TypeOK
<1>1. CASE \E p \in Participants : Enter(p)
  <2>1. PICK p \in Participants : Enter(p)
    BY <1>1
  <2> DEFINE tracks == job.news[p].tracks
  <2>2. /\ bound' = [s \in Tracks |-> IF s \in tracks \cap waiting
                                        THEN bound[s] + 1 ELSE bound[s]]
        /\ waiting' = waiting \ tracks
        /\ UNCHANGED <<calls, media, dropped>>
    BY <2>1 DEF Enter, TakeReceivers, peerVars
  <2> HIDE DEF tracks
  <2>3. \A s \in media : Kept(s) => Kept(s)'
    BY <1>0, <2>2 DEF Kept
  <2> QED BY <2>2, <2>3, LostKept
<1>2. CASE \E p \in Participants : Remove(p) \/ Refresh(p)
  <2>1. PICK p \in Participants : Remove(p) \/ Refresh(p)
    BY <1>2
  <2>2. PICK tracks : /\ Disposed(p, tracks) \/ Revised(p, tracks)
                      /\ tracks \subseteq TracksOf(p)
    <3>1. CASE Remove(p)
      BY <3>1 DEF Remove, Rooms
    <3>2. CASE Refresh(p)
      <4>1. Disposed(p, job.news[p].tracks) \/ Revised(p, job.news[p].tracks)
        BY <3>2 DEF Refresh
      <4>2. job.news[p].tracks \subseteq TracksOf(p)
        BY <3>2, NewsAreOwn DEF Refresh, Inv, TypeOK, JobNames
      <4> QED BY <4>1, <4>2
    <3> QED BY <2>1, <3>1, <3>2
  <2>3. UNCHANGED <<calls, media>>
    BY <2>1 DEF Remove, Refresh, peerVars
  <2>4. CASE Disposed(p, tracks)
    <3>1. \A s \in media \ dropped' : /\ s \notin dropped /\ Owner[s] # p
                                      /\ bound'[s] = bound[s]
                                      /\ s \in waiting => s \in waiting'
      BY <1>0, <2>2, <2>4 DEF Disposed, TracksOf
    <3> QED BY <2>3, <3>1, LostKept DEF Kept
  <2>5. CASE Revised(p, tracks)
    <3> DEFINE missing == listed[p] \ tracks
               asking  == {s \in tracks : s \in listed[p] => bound[s] = 0}
    <3>1. /\ bound' = [s \in Tracks |->
               CASE s \in asking \cap waiting      -> bound[s] + 1
                 [] s \in missing /\ bound[s] > 0 -> bound[s] - 1
                 [] OTHER                         -> bound[s]]
          /\ waiting' = waiting \ asking
          /\ dropped' = dropped \cup (media \cap missing)
      BY <2>5 DEF Revised, TakeReceivers
    <3> HIDE DEF missing, asking
    <3>2. ASSUME NEW s \in media \ dropped' PROVE s \notin dropped /\ (Kept(s) => Kept(s)')
      <4>1. s \in Tracks /\ s \notin missing /\ s \notin dropped
        BY <1>0, <3>1
      <4>2. bound'[s] = IF s \in asking \cap waiting THEN bound[s] + 1 ELSE bound[s]
        BY <3>1, <4>1
      <4>3. bound[s] \in Nat
        BY <1>0, <4>1
      <4> QED BY <3>1, <4>1, <4>2, <4>3 DEF Kept
    <3> QED BY <2>3, <3>2, LostKept
  <2> QED BY <2>2, <2>4, <2>5
<1>3. CASE \/ \E t \in Threads : Finish(t) \/ ResetRoom(t) \/ (Close(t) /\ ~live)
           \/ \E news \in News : SetInfo(news) \/ UpdateInfo(news)
           \/ Reconnect \/ Connect
  <2>1. UNCHANGED <<calls, media, bound, waiting, dropped>>
    BY <1>3 DEF Finish, ResetRoom, Close, SetInfo, UpdateInfo, Reconnect, Connect, peerVars, roomVars
  <2> QED BY <2>1, LostKept DEF Kept
<1>4. CASE CreateManager \/ \E t \in Threads : Close(t) /\ live
  <2>1. media' = {}
    BY <1>4 DEF CreateManager, Close, ManagerGone
  <2> QED BY <2>1 DEF LostInv
<1>5. CASE OnLeave
  <2>1. /\ UNCHANGED <<calls, media, bound>>
        /\ waiting' = {} /\ dropped' = dropped \cup (media \cap waiting)
    BY <1>5 DEF OnLeave, ClearStorage, roomVars, peerVars
  <2> QED BY <2>1, LostKept DEF Kept
<1>6. CASE \E s \in Tracks : OnAddTrack(s) \/ OnRemoveTrack(s)
  <2>1. PICK s \in Tracks : OnAddTrack(s) \/ OnRemoveTrack(s)
    BY <1>6
  <2>2. PICK op \in {"add", "remove"} : calls' = Append(calls, [op |-> op, track |-> s])
    BY <2>1 DEF OnAddTrack, OnRemoveTrack, Post
  <2> DEFINE c == [op |-> op, track |-> s]
  <2>3. c \in Calls /\ c.op \in {"add", "remove"} /\ c.track = s /\ calls' = Append(calls, c)
    BY <2>2 DEF Calls
  <2>4. /\ \A r \in media' : r = s \/ r \in media
        /\ UNCHANGED <<bound, waiting, dropped>>
    BY <2>1 DEF OnAddTrack, OnRemoveTrack, roomVars
  <2> HIDE DEF c
  <2>5. ~Settled(0, s)'
    BY <1>0, <2>3, AppendAbout
  <2>6. \A r : r # s => (Settled(0, r)' <=> Settled(0, r))
    BY <1>0, <2>3, AppendOther
  <2> QED BY <2>4, <2>5, <2>6 DEF LostInv, Kept
<1>7. CASE Fail \/ Disconnected
  <2>1. PICK op \in {"failed", "lost"} : calls' = Append(calls, [op |-> op])
    BY <1>7 DEF Fail, Disconnected, Post
  <2> DEFINE c == [op |-> op]
  <2>2. c \in Calls /\ c.op \notin {"add", "remove"} /\ calls' = Append(calls, c)
    BY <2>1 DEF Calls
  <2>3. UNCHANGED <<bound, waiting, dropped, media>>
    BY <1>7 DEF Fail, Disconnected, roomVars, peerVars
  <2> HIDE DEF c
  <2>4. \A r : Settled(0, r)' <=> Settled(0, r)
    BY <1>0, <2>2, AppendOther
  <2> QED BY <2>3, <2>4 DEF LostInv, Kept
<1>8. CASE OnRemoteTrackAdded
  <2>0. PICK s \in Tracks : s = Head(calls).track
    BY <1>8, HeadTrack, <1>0 DEF OnRemoteTrackAdded
  <2>1. /\ NextCall("add") /\ calls' = Tail(calls)
        /\ dropped' = dropped \ {s} /\ UNCHANGED media
        /\ \/ bound' = [bound EXCEPT ![s] = @ + 1] /\ UNCHANGED waiting
           \/ waiting' = waiting \cup {s} /\ UNCHANGED bound
    BY <1>8, <2>0 DEF OnRemoteTrackAdded, AddMedia, AddNonBinded, peerVars
  <2>2. calls # <<>> /\ s \in Tracks /\ \A r : About(1, r) <=> r = s
    BY <2>0, <2>1, NextCallFacts
  <2>3. Kept(s)'
    BY <1>0, <2>1, <2>2 DEF Kept
  <2>4. \A r \in Tracks : r # s => (Kept(r)' <=> Kept(r))
    BY <1>0, <2>1 DEF Kept
  <2>5. \A r : r # s => (Settled(0, r)' => Settled(0, r))
    BY <1>0, <2>1, <2>2, HeadOther
  <2> QED BY <1>0, <2>1, <2>3, <2>4, <2>5 DEF LostInv
<1>9. CASE OnRemoteTrackRemoved
  <2>0. PICK s \in Tracks : s = Head(calls).track
    BY <1>9, HeadTrack, <1>0 DEF OnRemoteTrackRemoved
  <2>1. /\ NextCall("remove") /\ calls' = Tail(calls)
        /\ waiting \ {s} \subseteq waiting'
        /\ UNCHANGED <<media, bound, dropped>>
    BY <1>9, <2>0 DEF OnRemoteTrackRemoved, KeysOf, roomVars, peerVars
  <2>2. /\ calls # <<>> /\ s \in Tracks /\ calls[1].op = "remove"
        /\ \A r : About(1, r) <=> r = s
    BY <2>0, <2>1, NextCallFacts
  <2>3. Settled(0, s)' => s \notin media
    BY <1>0, <2>1, <2>2, HeadAlternates DEF CallsInv
  <2>4. \A r : r # s => (Settled(0, r)' => Settled(0, r))
    BY <1>0, <2>1, <2>2, HeadOther
  <2> QED BY <1>0, <2>1, <2>3, <2>4 DEF LostInv, Kept
<1>10. CASE OnFailure
  <2>1. /\ NextCall("lost") \/ NextCall("failed")
        /\ calls' = Tail(calls)
        /\ waiting' = {} /\ dropped' = dropped \cup (media \cap waiting)
        /\ UNCHANGED <<media, bound>>
    BY <1>10 DEF OnFailure, ClearStorage, roomVars, peerVars
  <2>2. calls # <<>> /\ \A r : ~About(1, r)
    BY <2>1, NextCallFacts
  <2>3. \A r : Settled(0, r)' => Settled(0, r)
    BY <1>0, <2>1, <2>2, HeadOther
  <2> QED BY <2>1, <2>3 DEF LostInv, Kept
<1>11. CASE Unbind
  <2>1. /\ UNCHANGED <<calls, media, waiting, dropped>>
        /\ \A s \in Tracks \ removing : bound'[s] = bound[s]
    BY <1>11 DEF Unbind, peerVars, KeysOf
  <2>2. ASSUME NEW s \in media' \ dropped', Settled(0, s)' PROVE Kept(s)'
    <3>1. s \in media \ dropped /\ s \in Tracks /\ Settled(0, s)
      BY <1>0, <2>1, <2>2 DEF Settled, About
    <3>2. s \notin removing
      BY <3>1 DEF CallsInv
    <3> QED BY <2>1, <3>1, <3>2 DEF LostInv, Kept
  <2> QED BY <2>2 DEF LostInv
<1> QED BY <1>1, <1>2, <1>3, <1>4, <1>5, <1>6, <1>7, <1>8, <1>9, <1>10, <1>11
        DEF Next, Run, Serve, Update

\* The room, the calls and what is kept, in every state.
LEMMA RoomInvariance == Spec => [](Rooms /\ CallsInv /\ LostInv)
<1>1. Init => Rooms /\ CallsInv /\ LostInv
  <2> SUFFICES ASSUME Init PROVE Rooms /\ CallsInv /\ LostInv
    OBVIOUS
  <2>1. Rooms
    BY DEF Init, Rooms, NoJob, TracksOf
  <2>2. CallsInv /\ LostInv
    BY DEF Init, CallsInv, LostInv, OnlyLost, Alternates, About
  <2> QED BY <2>1, <2>2
<1>2. Inv /\ Inv' /\ Rooms /\ CallsInv /\ LostInv /\ [Next]_vars => (Rooms /\ CallsInv /\ LostInv)'
  <2> SUFFICES ASSUME Inv, Inv', Rooms, CallsInv, LostInv, [Next]_vars
               PROVE  (Rooms /\ CallsInv /\ LostInv)'
    OBVIOUS
  <2>1. CASE Next
    BY <2>1, RoomsStep, CallsStep, LostStep
  <2>2. CASE UNCHANGED vars
    <3>1. Rooms'
      BY <2>2 DEF vars, Rooms, TracksOf
    <3>2. CallsInv'
      BY <2>2 DEF vars, CallsInv, OnlyLost, Alternates, Settled, NextOn, About
    <3>3. LostInv'
      BY <2>2 DEF vars, LostInv, Settled, About, Kept
    <3> QED BY <3>1, <3>2, <3>3
  <2> QED BY <2>1, <2>2
<1> QED BY <1>1, <1>2, Invariance, PTL DEF Spec

\* The receiver of a track is bound or waits for its message once all calls
\* are made, unless track, participant or room went since: in any order of
\* messages, media and failures of any number of connections.
THEOREM ReceiversAreKept == Spec => []NoReceiverIsLost
<1>1. LostInv => NoReceiverIsLost
  <2> SUFFICES ASSUME LostInv, Quiet PROVE \A s \in media \ dropped : bound[s] > 0 \/ s \in waiting
    BY DEF NoReceiverIsLost
  <2>1. \A s : Settled(0, s)
    BY DEF Quiet, Settled
  <2> QED BY <2>1 DEF LostInv, Kept
<1> QED BY <1>1, RoomInvariance, PTL

-----------------------------------------------------------------------------
(* One object for a track, and none without media, when receivers are named *)
(* like their tracks: what the events queue's thread will be told next of a *)
(* track says whether it may have an object. The calls that are left of an  *)
(* earlier connection come after the one that says it is lost, which resets *)
(* the room.                                                                *)

Clean(s) == bound[s] = 0 /\ s \notin waiting

ObjectInv ==
  /\ OneObjectPerTrack
  /\ \A s \in waiting : bound[s] = 0
  /\ removing \cap waiting = {}

\* A cleanup of the events queue, from which the room comes out empty.
Cleaning == at["events"] \in {"reset", "resetting", "close"}

CleaningInv ==
  /\ Cleaning => waiting = {}
  /\ at["events"] = "resetting" => lock = "events" /\ job.enter = {} /\ present = {}
  /\ at["events"] = "close" => \A s \in Tracks : Clean(s)

\* The connection has no manager of its own yet.
Unused == socket = "closed" \/ fresh \/ at["ws"] \in {"join", "create"}

NoneLost == \A i \in DOMAIN calls : calls[i].op # "lost"

UnusedInv ==
  /\ at["ws"] # "idle" => socket # "closed"
  /\ at["ws"] \in {"join", "create"} => ~fresh
  /\ Unused /\ ~Cleaning /\ NoneLost => ~live /\ \A s \in Tracks : Clean(s)

\* Calls of the manager are made, and the next that is made of a track, or
\* the next to come, says that it is there.
Serves == live /\ ~Cleaning /\ (1 \in DOMAIN calls => calls[1].op # "lost")

Awaits(s) ==
  \/ Settled(0, s) /\ s \notin media
  \/ \E i \in DOMAIN calls : NextOn(0, i, s) /\ calls[i].op = "add"

ServedInv == Serves => \A s \in Tracks : Awaits(s) => Clean(s) \/ s \in removing

\* A track without an object or a waiting receiver gets none from a message.
LEMMA UpdateIsClean ==
  ASSUME Inv, NEW p \in Participants, Update(p)
  PROVE  /\ \A s \in Tracks : Clean(s) => Clean(s)'
         /\ waiting' \subseteq waiting
         /\ UNCHANGED <<calls, media, live, at, lock, socket, fresh, removing>>
<1>0. bound \in [Tracks -> Nat]
  BY DEF Inv, TypeOK
<1>1. CASE Enter(p)
  BY <1>0, <1>1 DEF Enter, TakeReceivers, Clean, peerVars, linkVars
<1>2. CASE Remove(p)
  BY <1>0, <1>2 DEF Remove, Disposed, Clean, peerVars, linkVars
<1>3. CASE Refresh(p)
  <2>1. UNCHANGED <<calls, media, live, at, lock, socket, fresh, removing>>
    BY <1>3 DEF Refresh, peerVars, linkVars
  <2>2. PICK tracks : Disposed(p, tracks) \/ Revised(p, tracks)
    BY <1>3 DEF Refresh
  <2>3. CASE Disposed(p, tracks)
    BY <1>0, <2>1, <2>3 DEF Disposed, Clean
  <2>4. CASE Revised(p, tracks)
    <3> DEFINE missing == listed[p] \ tracks
               asking  == {s \in tracks : s \in listed[p] => bound[s] = 0}
    <3>1. /\ bound' = [s \in Tracks |->
               CASE s \in asking \cap waiting      -> bound[s] + 1
                 [] s \in missing /\ bound[s] > 0 -> bound[s] - 1
                 [] OTHER                         -> bound[s]]
          /\ waiting' = waiting \ asking
      BY <2>4 DEF Revised, TakeReceivers
    <3> HIDE DEF missing, asking
    <3> QED BY <1>0, <2>1, <3>1 DEF Clean
  <2> QED BY <2>2, <2>3, <2>4
<1> QED BY <1>1, <1>2, <1>3 DEF Update

\* The track whose call is made next is clean when it is said to come.
LEMMA AddedIsClean ==
  ASSUME Inv, CallsInv, ServedInv, NextCall("add"), calls' = Tail(calls)
  PROVE  Serves /\ Head(calls).track \in Tracks /\ Clean(Head(calls).track)
<1>1. PICK s \in Tracks : s = Head(calls).track
  BY NextCallFacts
<1>2. 1 \in DOMAIN calls /\ calls[1].op = "add" /\ About(1, s) /\ at["events"] = "idle"
  BY <1>1, NextCallFacts
<1>3. Serves
  BY <1>2 DEF Serves, Cleaning, CallsInv, OnlyLost
<1>4. NextOn(0, 1, s)
  <2>1. \A i \in DOMAIN calls : ~(i < 1) \/ ~(0 < i)
    BY NextCallFacts, TailFacts
  <2> QED BY <1>2, <2>1 DEF NextOn
<1>5. removing = {}
  BY <1>2 DEF CallsInv
<1> QED BY <1>1, <1>2, <1>3, <1>4, <1>5 DEF ServedInv, Awaits

LEMMA ObjectStep ==
  ASSUME Foreign = {}, Inv, Rooms, CallsInv, ObjectInv, ServedInv, Next
  PROVE  ObjectInv'
<1> USE DEF Threads
<1>0. /\ bound \in [Tracks -> Nat] /\ waiting \subseteq Tracks /\ removing \subseteq Tracks
      /\ Owner \in [Tracks -> Participants] /\ listed \in [Participants -> SUBSET Tracks]
  BY RemoteParticipantsAssumption DEF RemoteParticipantsAssumption, Inv, TypeOK
<1>1. CASE \E p \in Participants : Enter(p)
  <2>1. PICK p \in Participants : Enter(p)
    BY <1>1
  <2> DEFINE tracks == job.news[p].tracks
  <2>2. /\ p \in job.enter /\ (job.clear => job.remove = {})
        /\ listed' = [listed EXCEPT ![p] = tracks]
        /\ bound' = [s \in Tracks |-> IF s \in tracks \cap waiting
                                        THEN bound[s] + 1 ELSE bound[s]]
        /\ waiting' = waiting \ tracks /\ UNCHANGED removing
    BY <2>1 DEF Enter, TakeReceivers
  <2>3. tracks \subseteq TracksOf(p)
    BY <2>2, NewsAreOwn DEF Inv, TypeOK, JobNames
  <2> HIDE DEF tracks
  <2>4. listed[p] = {}
    BY <2>2 DEF Rooms
  <2>5. ASSUME NEW s \in Tracks
        PROVE  bound'[s] <= 1 /\ (bound'[s] > 0 => s \in listed'[Owner[s]])
    <3>1. CASE s \in tracks \cap waiting
      <4>1. bound[s] = 0 /\ Owner[s] = p
        BY <2>3, <3>1 DEF ObjectInv, TracksOf
      <4> QED BY <1>0, <2>2, <3>1, <4>1
    <3>2. CASE s \notin tracks \cap waiting
      <4>1. bound[s] <= 1 /\ (bound[s] > 0 => s \in listed[Owner[s]])
        BY DEF ObjectInv, OneObjectPerTrack
      <4>2. bound[s] > 0 => Owner[s] # p
        BY <2>4, <4>1
      <4> QED BY <1>0, <2>2, <3>2, <4>1, <4>2
    <3> QED BY <3>1, <3>2
  <2>6. \A s \in waiting' : bound'[s] = 0
    BY <1>0, <2>2 DEF ObjectInv
  <2> QED BY <2>2, <2>5, <2>6 DEF ObjectInv, OneObjectPerTrack
<1>2. CASE \E p \in Participants : Remove(p) \/ Refresh(p)
  <2>1. PICK p \in Participants : Remove(p) \/ Refresh(p)
    BY <1>2
  <2>2. PICK tracks : /\ Disposed(p, tracks) \/ Revised(p, tracks)
                      /\ tracks \subseteq TracksOf(p)
    <3>1. CASE Remove(p)
      BY <3>1 DEF Remove, Rooms
    <3>2. CASE Refresh(p)
      <4>1. Disposed(p, job.news[p].tracks) \/ Revised(p, job.news[p].tracks)
        BY <3>2 DEF Refresh
      <4>2. job.news[p].tracks \subseteq TracksOf(p)
        BY <3>2, NewsAreOwn DEF Refresh, Inv, TypeOK, JobNames
      <4> QED BY <4>1, <4>2
    <3> QED BY <2>1, <3>1, <3>2
  <2>3. UNCHANGED removing
    BY <2>1 DEF Remove, Refresh
  <2>4. CASE Disposed(p, tracks)
    <3>1. /\ listed' = [listed EXCEPT ![p] = {}]
          /\ bound' = [s \in Tracks |-> IF Owner[s] = p THEN 0 ELSE bound[s]]
          /\ waiting' \subseteq waiting
      BY <2>4 DEF Disposed
    <3>2. ASSUME NEW s \in Tracks
          PROVE  bound'[s] <= 1 /\ (bound'[s] > 0 => s \in listed'[Owner[s]])
      BY <1>0, <3>1 DEF ObjectInv, OneObjectPerTrack
    <3>3. \A s \in waiting' : bound'[s] = 0
      BY <1>0, <3>1 DEF ObjectInv
    <3> QED BY <2>3, <3>1, <3>2, <3>3 DEF ObjectInv, OneObjectPerTrack
  <2>5. CASE Revised(p, tracks)
    <3> DEFINE missing == listed[p] \ tracks
               asking  == {s \in tracks : s \in listed[p] => bound[s] = 0}
    <3>1. /\ listed' = [listed EXCEPT ![p] = tracks]
          /\ bound' = [s \in Tracks |->
               CASE s \in asking \cap waiting      -> bound[s] + 1
                 [] s \in missing /\ bound[s] > 0 -> bound[s] - 1
                 [] OTHER                         -> bound[s]]
          /\ waiting' = waiting \ asking
      BY <2>5 DEF Revised, TakeReceivers
    <3>2. asking \subseteq tracks /\ asking \cap missing = {}
          /\ \A s \in listed[p] : s \in tracks \/ s \in missing
      OBVIOUS
    <3> HIDE DEF missing, asking
    <3>3. ASSUME NEW s \in Tracks
          PROVE  /\ bound'[s] <= 1 /\ (bound'[s] > 0 => s \in listed'[Owner[s]])
                 /\ s \in waiting' => bound'[s] = 0
      <4>1. /\ bound[s] \in Nat /\ bound[s] <= 1 /\ (bound[s] > 0 => s \in listed[Owner[s]])
            /\ s \in waiting => bound[s] = 0
        BY <1>0 DEF ObjectInv, OneObjectPerTrack
      <4>2. CASE s \in asking \cap waiting
        <5>1. Owner[s] = p /\ s \in tracks
          BY <2>2, <3>2, <4>2 DEF TracksOf
        <5>2. bound'[s] = bound[s] + 1 /\ s \notin waiting' /\ bound[s] = 0
          BY <3>1, <4>1, <4>2
        <5>3. listed'[Owner[s]] = tracks
          BY <1>0, <3>1, <5>1
        <5> QED BY <4>1, <5>1, <5>2, <5>3
      <4>3. CASE s \notin asking \cap waiting /\ s \in missing /\ bound[s] > 0
        BY <3>1, <4>1, <4>3
      <4>4. CASE s \notin asking \cap waiting /\ ~(s \in missing /\ bound[s] > 0)
        <5>1. bound'[s] = bound[s]
          BY <3>1, <4>4
        <5>2. bound[s] > 0 => s \in listed'[Owner[s]]
          BY <1>0, <3>1, <3>2, <4>1, <4>4
        <5> QED BY <3>1, <4>1, <5>1, <5>2
      <4> QED BY <4>2, <4>3, <4>4
    <3>4. waiting' \subseteq waiting
      BY <3>1
    <3> QED BY <1>0, <2>3, <3>3, <3>4 DEF ObjectInv, OneObjectPerTrack
  <2> QED BY <2>2, <2>4, <2>5
<1>3. CASE OnRemoteTrackAdded
  <2>0. PICK s \in Tracks : s = Head(calls).track
    BY <1>3, HeadTrack DEF OnRemoteTrackAdded, Inv, TypeOK
  <2>1. /\ NextCall("add") /\ calls' = Tail(calls) /\ lock = "none"
        /\ UNCHANGED <<listed, removing>>
        /\ \/ Listed(s) /\ bound' = [bound EXCEPT ![s] = @ + 1] /\ UNCHANGED waiting
           \/ ~Listed(s) /\ waiting' = waiting \cup {s} /\ UNCHANGED bound
    BY <1>3, <2>0 DEF OnRemoteTrackAdded, AddMedia, AddNonBinded
  <2>2. Clean(s)
    BY <2>0, <2>1, AddedIsClean
  <2>3. removing = {}
    BY <2>1 DEF CallsInv, NextCall
  <2>4. CASE Listed(s) /\ bound' = [bound EXCEPT ![s] = @ + 1] /\ UNCHANGED waiting
    <3>1. \A r \in Tracks : bound'[r] = IF r = s THEN 1 ELSE bound[r]
      BY <1>0, <2>2, <2>4 DEF Clean
    <3>2. s \in listed[Owner[s]] /\ s \notin waiting
      BY <2>2, <2>4 DEF Listed, Clean
    <3> QED BY <1>0, <2>1, <2>3, <2>4, <3>1, <3>2 DEF ObjectInv, OneObjectPerTrack
  <2>5. CASE waiting' = waiting \cup {s} /\ UNCHANGED bound
    BY <1>0, <2>1, <2>2, <2>3, <2>5 DEF ObjectInv, OneObjectPerTrack, Clean
  <2> QED BY <2>1, <2>4, <2>5
<1>4. CASE OnRemoteTrackRemoved
  <2>1. /\ removing' = {Head(calls).track} /\ waiting' = waiting \ KeysOf(Head(calls).track)
        /\ UNCHANGED <<listed, bound>>
    BY <1>4 DEF OnRemoteTrackRemoved, roomVars
  <2>2. KeysOf(Head(calls).track) = {Head(calls).track}
    BY DEF KeysOf
  <2> QED BY <2>1, <2>2 DEF ObjectInv, OneObjectPerTrack
<1>5. CASE Unbind
  <2>1. /\ removing' = {} /\ UNCHANGED <<listed, waiting>>
        /\ \A s \in Tracks : bound'[s] = bound[s] \/ (bound[s] > 0 /\ bound'[s] = bound[s] - 1)
    BY <1>5 DEF Unbind
  <2>2. ASSUME NEW s \in Tracks
        PROVE  /\ bound'[s] <= 1 /\ (bound'[s] > 0 => s \in listed'[Owner[s]])
               /\ s \in waiting => bound'[s] = 0
    <3>1. /\ bound[s] \in Nat /\ bound[s] <= 1 /\ (bound[s] > 0 => s \in listed[Owner[s]])
          /\ s \in waiting => bound[s] = 0
      BY <1>0 DEF ObjectInv, OneObjectPerTrack
    <3> QED BY <2>1, <3>1
  <2> QED BY <1>0, <2>1, <2>2 DEF ObjectInv, OneObjectPerTrack
<1>6. CASE OnLeave \/ OnFailure
  <2>1. waiting' = {} /\ UNCHANGED <<listed, bound, removing>>
    BY <1>6 DEF OnLeave, OnFailure, ClearStorage, roomVars
  <2> QED BY <2>1 DEF ObjectInv, OneObjectPerTrack
<1>7. CASE \/ \E t \in Threads : Run(t)
           \/ CreateManager \/ Reconnect
           \/ \E news \in News : SetInfo(news) \/ UpdateInfo(news)
           \/ \E s \in Tracks : OnAddTrack(s) \/ OnRemoveTrack(s)
           \/ Fail \/ Disconnected \/ Connect
  <2>1. UNCHANGED <<listed, bound, waiting, removing>>
    BY <1>7 DEF Run, Finish, ResetRoom, Close, CreateManager, Reconnect, SetInfo, UpdateInfo,
                OnAddTrack, OnRemoveTrack, Fail, Disconnected, Connect, roomVars
  <2> QED BY <2>1 DEF ObjectInv, OneObjectPerTrack
<1> QED BY <1>1, <1>2, <1>3, <1>4, <1>5, <1>6, <1>7 DEF Next, Update, Serve

LEMMA CleaningStep ==
  ASSUME Inv, Rooms, ObjectInv, CleaningInv, Next
  PROVE  CleaningInv'
<1> USE DEF Threads
<1>0. at \in [Threads -> Steps] /\ bound \in [Tracks -> Nat] /\ Owner \in [Tracks -> Participants]
  BY RemoteParticipantsAssumption DEF RemoteParticipantsAssumption, Inv, TypeOK
<1>1. CASE \E p \in Participants : Update(p)
  <2>1. PICK p \in Participants : Update(p)
    BY <1>1
  <2>2. /\ \A s \in Tracks : Clean(s) => Clean(s)'
        /\ waiting' \subseteq waiting /\ UNCHANGED <<at, lock>>
    BY <2>1, UpdateIsClean
  <2>3. at["events"] = "resetting" => job'.enter = {} /\ present' = {}
    <3> SUFFICES ASSUME at["events"] = "resetting" PROVE job'.enter = {} /\ present' = {}
      OBVIOUS
    <3>1. job.enter = {} /\ present = {}
      BY DEF CleaningInv
    <3>2. Remove(p)
      BY <2>1, <3>1 DEF Update, Enter, Refresh, Rooms
    <3>3. present' = present \ {p} /\ job' = [job EXCEPT !.remove = @ \ {p}]
      BY <3>2 DEF Remove
    <3>4. job'.enter = job.enter
      BY <3>3 DEF Inv, TypeOK
    <3> QED BY <3>1, <3>3, <3>4
  <2> QED BY <2>2, <2>3 DEF CleaningInv, Cleaning
<1>2. CASE \E t \in Threads : Finish(t)
  <2>1. PICK t \in Threads : Finish(t)
    BY <1>2
  <2>2. /\ lock = t /\ job.remove = {} /\ UNCHANGED <<present, listed, bound, waiting>>
        /\ at' = [at EXCEPT ![t] = CASE at[t] = "join"      -> "create"
                                     [] at[t] = "resetting" -> "close"
                                     [] OTHER               -> "idle"]
    BY <2>1 DEF Finish, Go, roomVars
  <2>3. CASE t = "events"
    <3>1. at["events"] = "resetting" /\ at'["events"] = "close"
      BY <1>0, <2>2, <2>3 DEF Rooms
    <3>2. waiting = {} /\ present = {}
      BY <3>1 DEF CleaningInv, Cleaning
    <3>3. \A s \in Tracks : listed[Owner[s]] = {}
      BY <1>0, <2>2, <3>2 DEF Rooms
    <3>4. \A s \in Tracks : bound[s] = 0
      BY <1>0, <3>3 DEF ObjectInv, OneObjectPerTrack
    <3> QED BY <2>2, <3>1, <3>2, <3>4 DEF CleaningInv, Cleaning, Clean
  <2>4. CASE t = "ws"
    <3>1. at'["events"] = at["events"] /\ at["events"] # "resetting"
      BY <1>0, <2>2, <2>4 DEF CleaningInv
    <3> QED BY <2>2, <3>1 DEF CleaningInv, Cleaning, Clean
  <2> QED BY <2>3, <2>4
<1>3. CASE \E t \in Threads : ResetRoom(t)
  <2>1. PICK t \in Threads : ResetRoom(t)
    BY <1>3
  <2>2. /\ at[t] = "reset" /\ lock = "none" /\ lock' = t /\ present' = {} /\ job'.enter = {}
        /\ UNCHANGED <<bound, waiting>> /\ at' = [at EXCEPT ![t] = "resetting"]
    BY <2>1 DEF ResetRoom, Work, Go
  <2>3. CASE t = "events"
    BY <1>0, <2>2, <2>3 DEF CleaningInv, Cleaning
  <2>4. CASE t = "ws"
    <3>1. at'["events"] = at["events"] /\ at["events"] # "resetting"
      BY <1>0, <2>2, <2>4 DEF CleaningInv
    <3> QED BY <2>2, <3>1 DEF CleaningInv, Cleaning, Clean
  <2> QED BY <2>3, <2>4
<1>4. CASE \E news \in News : SetInfo(news) \/ UpdateInfo(news)
  <2>1. /\ lock = "none" /\ UNCHANGED <<bound, waiting>>
        /\ \E step : at' = [at EXCEPT !["ws"] = step]
    BY <1>4 DEF SetInfo, UpdateInfo, Work, Go, roomVars
  <2>2. at'["events"] = at["events"] /\ at["events"] # "resetting"
    BY <1>0, <2>1 DEF CleaningInv
  <2> QED BY <2>1, <2>2 DEF CleaningInv, Cleaning, Clean
<1>5. CASE \/ CreateManager \/ Reconnect \/ OnLeave
           \/ \E s \in Tracks : OnAddTrack(s) \/ OnRemoveTrack(s)
           \/ Fail \/ Disconnected \/ Connect
  <2>1. /\ UNCHANGED <<present, bound, lock, job>> /\ (UNCHANGED waiting \/ waiting' = {})
        /\ UNCHANGED at \/ \E step : at' = [at EXCEPT !["ws"] = step]
    BY <1>5 DEF CreateManager, Reconnect, OnLeave, ClearStorage, OnAddTrack, OnRemoveTrack, Fail,
                Disconnected, Connect, Go, roomVars
  <2>2. at'["events"] = at["events"]
    BY <1>0, <2>1
  <2> QED BY <2>1, <2>2 DEF CleaningInv, Cleaning, Clean
<1>6. CASE \E t \in Threads : Close(t)
  <2>1. PICK t \in Threads : Close(t)
    BY <1>6
  <2>2. /\ UNCHANGED <<present, bound, lock, job, waiting>> /\ at' = [at EXCEPT ![t] = "idle"]
    BY <2>1 DEF Close, Go, roomVars
  <2>3. at'["events"] \in {at["events"], "idle"}
    BY <1>0, <2>2
  <2> QED BY <2>2, <2>3 DEF CleaningInv, Cleaning, Clean
<1>7. CASE OnRemoteTrackAdded \/ OnRemoteTrackRemoved \/ Unbind
  <2>1. /\ at["events"] \in {"idle", "unbind"}
        /\ UNCHANGED at \/ \E step \in {"idle", "unbind"} : at' = [at EXCEPT !["events"] = step]
    BY <1>7 DEF OnRemoteTrackAdded, OnRemoteTrackRemoved, Unbind, NextCall, Go
  <2>2. at'["events"] \in {"idle", "unbind"}
    BY <1>0, <2>1
  <2> QED BY <2>2 DEF CleaningInv, Cleaning
<1>8. CASE OnFailure
  <2>1. waiting' = {} /\ at' = [at EXCEPT !["events"] = "reset"]
    BY <1>8 DEF OnFailure, ClearStorage, Go
  <2> QED BY <1>0, <2>1 DEF CleaningInv, Cleaning
<1> QED BY <1>1, <1>2, <1>3, <1>4, <1>5, <1>6, <1>7, <1>8 DEF Next, Run, Serve

LEMMA UnusedStep ==
  ASSUME Inv, Inv', Rooms, CallsInv, CleaningInv, UnusedInv, Next
  PROVE  UnusedInv'
<1> USE DEF Threads
<1>0. /\ at \in [Threads -> Steps] /\ bound \in [Tracks -> Nat] /\ calls \in Seq(Calls)
  BY DEF Inv, TypeOK
\* Who is clean stays so, and the connection was as unused before.
<1>1. ASSUME Unused' /\ ~Cleaning' /\ NoneLost' => Unused /\ ~Cleaning /\ NoneLost /\ UNCHANGED live,
             \A s \in Tracks : Clean(s) => Clean(s)',
             at'["ws"] # "idle" => socket' # "closed",
             at'["ws"] \in {"join", "create"} => ~fresh'
      PROVE  UnusedInv'
  BY <1>1 DEF UnusedInv
<1>2. CASE \E p \in Participants : Update(p)
  <2>1. /\ \A s \in Tracks : Clean(s) => Clean(s)'
        /\ UNCHANGED <<calls, live, at, socket, fresh>>
    BY <1>2, UpdateIsClean
  <2> QED BY <1>1, <2>1 DEF Unused, Cleaning, NoneLost, UnusedInv
<1>3. CASE \E t \in Threads : Finish(t) \/ ResetRoom(t)
  <2>1. PICK t \in Threads : Finish(t) \/ ResetRoom(t)
    BY <1>3
  <2>2. UNCHANGED <<bound, waiting, calls, live, socket, fresh>>
    BY <2>1 DEF Finish, ResetRoom, roomVars, peerVars, linkVars
  <2>3. at["ws"] # "idle" \/ at'["ws"] = at["ws"]
    <3>1. CASE t = "ws" /\ ResetRoom(t)
      BY <3>1 DEF ResetRoom
    <3>2. CASE t = "ws" /\ Finish(t)
      <4>1. at' = [at EXCEPT !["ws"] = CASE at["ws"] = "join"      -> "create"
                                         [] at["ws"] = "resetting" -> "close"
                                         [] OTHER                  -> "idle"]
        BY <3>2 DEF Finish, Go
      <4>2. CASE at["ws"] = "idle"
        BY <1>0, <4>1, <4>2
      <4> QED BY <4>2
    <3>3. CASE t # "ws"
      BY <1>0, <2>1, <3>3 DEF Finish, ResetRoom, Go
    <3> QED BY <2>1, <3>1, <3>2, <3>3
  <2>4. at'["ws"] \in {"join", "create"} => at["ws"] \in {"join", "create"}
    <3>1. CASE t = "ws" /\ ResetRoom(t)
      BY <1>0, <3>1 DEF ResetRoom, Go
    <3>2. CASE t = "ws" /\ Finish(t)
      <4>1. at' = [at EXCEPT !["ws"] = CASE at["ws"] = "join"      -> "create"
                                         [] at["ws"] = "resetting" -> "close"
                                         [] OTHER                  -> "idle"]
        BY <3>2 DEF Finish, Go
      <4>2. CASE at["ws"] # "join"
        BY <1>0, <4>1, <4>2
      <4> QED BY <4>2
    <3>3. CASE t # "ws"
      BY <1>0, <2>1, <3>3 DEF Finish, ResetRoom, Go
    <3> QED BY <2>1, <3>1, <3>2, <3>3
  <2>5. Cleaning => Cleaning'
    <3>1. CASE t = "events" /\ Finish(t)
      <4>1. at["events"] = "resetting"
        BY <3>1 DEF Finish, Rooms
      <4>2. at' = [at EXCEPT !["events"] = "close"]
        BY <3>1, <4>1 DEF Finish, Go
      <4> QED BY <1>0, <4>2 DEF Cleaning
    <3>2. CASE t = "events" /\ ResetRoom(t)
      BY <1>0, <3>2 DEF ResetRoom, Go, Cleaning
    <3>3. CASE t # "events"
      <4>1. at'["events"] = at["events"]
        BY <1>0, <2>1, <3>3 DEF Finish, ResetRoom, Go
      <4> QED BY <4>1 DEF Cleaning
    <3> QED BY <2>1, <3>1, <3>2, <3>3
  <2> QED BY <1>1, <2>2, <2>3, <2>4, <2>5 DEF Unused, NoneLost, UnusedInv, Clean
<1>4. CASE \/ \E news \in News : SetInfo(news) \/ UpdateInfo(news)
           \/ Reconnect \/ OnLeave
  <2>1. /\ UNCHANGED <<bound, calls, live, socket>> /\ (UNCHANGED waiting \/ waiting' = {})
        /\ socket = "open"
        /\ \/ fresh /\ fresh' = FALSE
           \/ UNCHANGED fresh /\ at' = [at EXCEPT !["ws"] = "update"]
           \/ UNCHANGED fresh /\ at' = [at EXCEPT !["ws"] = "reset"]
        /\ \E step : at' = [at EXCEPT !["ws"] = step]
    BY <1>4 DEF SetInfo, UpdateInfo, Reconnect, OnLeave, ClearStorage, Go, roomVars, peerVars, linkVars
  <2>2. at'["events"] = at["events"]
    BY <1>0, <2>1
  <2>3. Unused' => Unused
    BY <1>0, <2>1 DEF Unused
  <2>4. at'["ws"] \in {"join", "create"} => ~fresh'
    BY <1>0, <2>1
  <2>5. \A s \in Tracks : Clean(s) => Clean(s)'
    BY <2>1 DEF Clean
  <2> QED BY <1>1, <2>1, <2>2, <2>3, <2>4, <2>5 DEF Cleaning, NoneLost
<1>5. CASE CreateManager
  <2>1. at["ws"] = "create" /\ at' = [at EXCEPT !["ws"] = "idle"] /\ UNCHANGED <<socket, fresh>>
    BY <1>5 DEF CreateManager, Go, linkVars
  <2>2. at'["ws"] = "idle" /\ socket # "closed" /\ ~fresh
    BY <1>0, <2>1 DEF UnusedInv
  <2> QED BY <2>1, <2>2 DEF UnusedInv, Unused
<1>6. CASE \E t \in Threads : Close(t)
  <2>1. PICK t \in Threads : Close(t)
    BY <1>6
  <2>2. /\ at[t] = "close" /\ live' = FALSE /\ at' = [at EXCEPT ![t] = "idle"]
        /\ UNCHANGED <<bound, waiting, fresh>> /\ (socket' = "closed" <=> socket = "closed")
        /\ UNCHANGED calls \/ ManagerGone
    BY <2>1 DEF Close, Go, roomVars
  <2>3. NoneLost' => NoneLost
    <3>1. CASE UNCHANGED calls
      BY <3>1 DEF NoneLost
    <3>2. CASE ManagerGone
      BY <1>0, <3>2, GoneCalls DEF NoneLost, OnlyLost
    <3> QED BY <2>2, <3>1, <3>2
  <2>4. Unused' => Unused
    BY <1>0, <2>2 DEF Unused
  <2>5. CASE t = "events"
    <3>1. \A s \in Tracks : Clean(s)'
      BY <2>2, <2>5 DEF CleaningInv, Clean
    <3>2. at'["ws"] = at["ws"]
      BY <1>0, <2>2, <2>5
    <3> QED BY <2>2, <3>1, <3>2 DEF UnusedInv
  <2>6. CASE t = "ws"
    <3>1. at'["events"] = at["events"] /\ at'["ws"] = "idle"
      BY <1>0, <2>2, <2>6
    <3> QED BY <2>2, <2>3, <2>4, <3>1 DEF UnusedInv, Cleaning, Clean
  <2> QED BY <2>5, <2>6
<1>7. CASE Fail \/ \E s \in Tracks : OnAddTrack(s) \/ OnRemoveTrack(s)
  <2>1. live /\ UNCHANGED <<bound, waiting, live, at, socket, fresh>>
    BY <1>7 DEF Fail, OnAddTrack, OnRemoveTrack, roomVars, peerVars, linkVars
  <2>2. PICK c \in Calls : calls' = Append(calls, c)
    <3>1. \/ \E op \in {"add", "remove"}, s \in Tracks : calls' = Append(calls, [op |-> op, track |-> s])
          \/ calls' = Append(calls, [op |-> "failed"])
      BY <1>7 DEF Fail, OnAddTrack, OnRemoveTrack, Post
    <3> QED BY <3>1 DEF Calls
  <2>3. NoneLost' => NoneLost
    BY <1>0, <2>2, AppendFacts DEF NoneLost
  <2> QED BY <1>1, <2>1, <2>3 DEF Unused, Cleaning, UnusedInv, Clean
<1>8. CASE Disconnected
  <2>1. /\ calls' = Append(calls, [op |-> "lost"]) /\ at["ws"] = "idle" /\ UNCHANGED at
    BY <1>8 DEF Disconnected, Post
  <2>2. [op |-> "lost"] \in Calls
    BY DEF Calls
  <2>3. ~NoneLost'
    BY <1>0, <2>1, <2>2, AppendFacts DEF NoneLost
  <2> QED BY <2>1, <2>3 DEF UnusedInv
<1>9. CASE Connect
  <2>1. /\ socket = "closed" /\ socket' = "open"
        /\ UNCHANGED <<bound, waiting, live, at, calls>>
    BY <1>9 DEF Connect, roomVars, peerVars
  <2>2. at["ws"] = "idle"
    BY <2>1 DEF UnusedInv
  <2> QED BY <1>1, <2>1, <2>2 DEF Unused, Cleaning, NoneLost, Clean
<1>10. CASE OnRemoteTrackAdded \/ OnRemoteTrackRemoved
  <2>1. PICK op \in {"add", "remove"} : NextCall(op) /\ calls' = Tail(calls)
    BY <1>10 DEF OnRemoteTrackAdded, OnRemoteTrackRemoved
  <2>2. calls # <<>> /\ 1 \in DOMAIN calls /\ calls[1].op = op /\ at["events"] = "idle"
    BY <2>1, NextCallFacts
  <2>3. live
    BY <2>2 DEF CallsInv, OnlyLost
  <2>4. ~(Unused /\ NoneLost)
    BY <2>2, <2>3 DEF UnusedInv, Cleaning
  <2>5. /\ UNCHANGED <<socket, fresh>>
        /\ UNCHANGED at \/ at' = [at EXCEPT !["events"] = "unbind"]
    BY <1>10 DEF OnRemoteTrackAdded, OnRemoteTrackRemoved, Go, linkVars
  <2>6. at'["ws"] = at["ws"]
    BY <1>0, <2>5
  <2>7. NoneLost' => NoneLost
    <3> SUFFICES ASSUME NoneLost', NEW i \in DOMAIN calls PROVE calls[i].op # "lost"
      BY DEF NoneLost
    <3>1. CASE i = 1
      BY <2>2, <3>1
    <3>2. CASE i # 1
      BY <1>0, <2>1, <2>2, <3>2, TailFacts DEF NoneLost
    <3> QED BY <3>1, <3>2
  <2> QED BY <2>4, <2>5, <2>6, <2>7 DEF Unused, UnusedInv
<1>11. CASE Unbind
  <2>1. /\ at["events"] = "unbind" /\ at' = [at EXCEPT !["events"] = "idle"]
        /\ UNCHANGED <<waiting, calls, live, socket, fresh>>
        /\ \A s \in Tracks : bound[s] = 0 => bound'[s] = 0
    BY <1>0, <1>11 DEF Unbind, Go, peerVars, linkVars
  <2>2. at'["ws"] = at["ws"] /\ ~Cleaning
    BY <1>0, <2>1 DEF Cleaning
  <2> QED BY <1>1, <2>1, <2>2 DEF Unused, NoneLost, UnusedInv, Clean
<1>12. CASE OnFailure
  <2>1. at' = [at EXCEPT !["events"] = "reset"] /\ UNCHANGED <<socket, fresh>>
    BY <1>12 DEF OnFailure, ClearStorage, Go, linkVars
  <2>2. Cleaning' /\ at'["ws"] = at["ws"]
    BY <1>0, <2>1 DEF Cleaning
  <2> QED BY <2>1, <2>2 DEF UnusedInv
<1> QED BY <1>2, <1>3, <1>4, <1>5, <1>6, <1>7, <1>8, <1>9, <1>10, <1>11, <1>12 DEF Next, Run, Serve

LEMMA ServedStep ==
  ASSUME Foreign = {}, Inv, Rooms, CallsInv, ObjectInv, UnusedInv, ServedInv, Next
  PROVE  ServedInv'
<1> USE DEF Threads
<1>0. /\ at \in [Threads -> Steps] /\ bound \in [Tracks -> Nat] /\ calls \in Seq(Calls)
      /\ Owner \in [Tracks -> Participants]
  BY RemoteParticipantsAssumption DEF RemoteParticipantsAssumption, Inv, TypeOK
\* The calls stay, and so does who is clean.
<1>1. ASSUME UNCHANGED <<calls, media, live, removing>>, Cleaning => Cleaning',
             \A s \in Tracks : Clean(s) => Clean(s)'
      PROVE  ServedInv'
  BY <1>1 DEF ServedInv, Serves, Awaits, Settled, NextOn, About
<1>2. CASE \E p \in Participants : Update(p)
  BY <1>1, <1>2, UpdateIsClean DEF Cleaning
<1>3. CASE \/ \E t \in Threads : Finish(t) \/ ResetRoom(t)
           \/ \E news \in News : SetInfo(news) \/ UpdateInfo(news)
           \/ Reconnect \/ OnLeave \/ Connect
  <2>1. UNCHANGED <<calls, media, live, removing, bound>> /\ (UNCHANGED waiting \/ waiting' = {})
    BY <1>3 DEF Finish, ResetRoom, SetInfo, UpdateInfo, Reconnect, OnLeave, ClearStorage, Connect,
                roomVars, peerVars
  <2>2. Cleaning => Cleaning'
    <3>1. CASE \E t \in Threads : Finish(t) \/ ResetRoom(t)
      <4>1. PICK t \in Threads : Finish(t) \/ ResetRoom(t)
        BY <3>1
      <4>2. CASE t = "events" /\ Finish(t)
        <5>1. at["events"] = "resetting"
          BY <4>2 DEF Finish, Rooms
        <5>2. at' = [at EXCEPT !["events"] = "close"]
          BY <4>2, <5>1 DEF Finish, Go
        <5> QED BY <1>0, <5>2 DEF Cleaning
      <4>3. CASE t = "events" /\ ResetRoom(t)
        BY <1>0, <4>3 DEF ResetRoom, Go, Cleaning
      <4>4. CASE t # "events"
        <5>1. at'["events"] = at["events"]
          BY <1>0, <4>1, <4>4 DEF Finish, ResetRoom, Go
        <5> QED BY <5>1 DEF Cleaning
      <4> QED BY <4>1, <4>2, <4>3, <4>4
    <3>2. CASE \/ \E news \in News : SetInfo(news) \/ UpdateInfo(news)
               \/ Reconnect \/ OnLeave \/ Connect
      <4>1. UNCHANGED at \/ \E step : at' = [at EXCEPT !["ws"] = step]
        BY <3>2 DEF SetInfo, UpdateInfo, Reconnect, OnLeave, ClearStorage, Connect, Go
      <4>2. at'["events"] = at["events"]
        BY <1>0, <4>1
      <4> QED BY <4>2 DEF Cleaning
    <3> QED BY <1>3, <3>1, <3>2
  <2> QED BY <1>1, <2>1, <2>2 DEF Clean
<1>4. CASE \E t \in Threads : Close(t)
  <2>1. live' = FALSE
    BY <1>4 DEF Close
  <2> QED BY <2>1 DEF ServedInv, Serves
<1>5. CASE CreateManager
  <2>1. /\ ManagerGone /\ at["ws"] = "create" /\ UNCHANGED <<bound, waiting>>
        /\ at' = [at EXCEPT !["ws"] = "idle"]
    BY <1>5 DEF CreateManager, Go, roomVars
  <2>2. at'["events"] = at["events"]
    BY <1>0, <2>1
  <2>3. Serves' => NoneLost
    <3>1. OnlyLost' /\ ((\E i \in DOMAIN calls : calls[i].op = "lost") => 1 \in DOMAIN calls')
      BY <1>0, <2>1, GoneCalls
    <3> QED BY <3>1 DEF Serves, OnlyLost, NoneLost
  <2>4. Serves' => \A s \in Tracks : Clean(s)
    BY <2>1, <2>2, <2>3 DEF UnusedInv, Unused, Serves, Cleaning
  <2> QED BY <2>1, <2>4 DEF ServedInv, Clean
<1>6. CASE \/ \E s \in Tracks : OnAddTrack(s) \/ OnRemoveTrack(s)
           \/ Fail \/ Disconnected
  <2>1. UNCHANGED <<at, live, removing, bound, waiting>>
    BY <1>6 DEF OnAddTrack, OnRemoveTrack, Fail, Disconnected, roomVars, peerVars
  <2>2. PICK c \in Calls :
          /\ calls' = Append(calls, c)
          /\ IF c.op \in {"add", "remove"}
               THEN /\ c.op = "add" => c.track \notin media
                    /\ \A s : s # c.track => (s \in media' <=> s \in media)
               ELSE UNCHANGED media
    <3>1. CASE \E s \in Tracks : OnAddTrack(s)
      <4>1. PICK s \in Tracks : OnAddTrack(s)
        BY <3>1
      <4> DEFINE c == [op |-> "add", track |-> s]
      <4>2. c \in Calls /\ c.op = "add" /\ c.track = s
        BY DEF Calls
      <4>3. calls' = Append(calls, c) /\ s \notin media /\ media' = media \cup {s}
        BY <4>1 DEF OnAddTrack, Post
      <4> HIDE DEF c
      <4> QED BY <4>2, <4>3
    <3>2. CASE \E s \in Tracks : OnRemoveTrack(s)
      <4>1. PICK s \in Tracks : OnRemoveTrack(s)
        BY <3>2
      <4> DEFINE c == [op |-> "remove", track |-> s]
      <4>2. c \in Calls /\ c.op = "remove" /\ c.track = s
        BY DEF Calls
      <4>3. calls' = Append(calls, c) /\ media' = media \ {s}
        BY <4>1 DEF OnRemoveTrack, Post
      <4> HIDE DEF c
      <4> QED BY <4>2, <4>3
    <3>3. CASE Fail \/ Disconnected
      <4>1. PICK op \in {"failed", "lost"} : calls' = Append(calls, [op |-> op]) /\ UNCHANGED media
        BY <3>3 DEF Fail, Disconnected, Post, peerVars
      <4> DEFINE c == [op |-> op]
      <4>2. c \in Calls /\ c.op = op
        BY DEF Calls
      <4>3. calls' = Append(calls, c)
        BY <4>1
      <4> HIDE DEF c
      <4> QED BY <4>1, <4>2, <4>3
    <3> QED BY <1>6, <3>1, <3>2, <3>3
  <2>3. Serves' => Serves
    BY <1>0, <2>1, <2>2, AppendFacts DEF Serves, Cleaning
  <2>4. ASSUME NEW s \in Tracks, Awaits(s)' PROVE Awaits(s)
    <3>1. CASE c.op \in {"add", "remove"} /\ c.track = s
      <4>0. /\ \A n \in DOMAIN calls \cup {0} : ~Settled(n, s)'
            /\ \A n \in DOMAIN calls \cup {0} : \A i :
                 NextOn(n, i, s)' => NextOn(n, i, s) \/ (i = Len(calls) + 1 /\ Settled(n, s))
        BY <1>0, <2>2, <3>1, AppendAbout
      <4>1. /\ ~Settled(0, s)'
            /\ \A i : NextOn(0, i, s)' => NextOn(0, i, s) \/ (i = Len(calls) + 1 /\ Settled(0, s))
        BY <4>0
      <4>2. PICK i \in DOMAIN calls' : NextOn(0, i, s)' /\ calls'[i].op = "add"
        BY <2>4, <4>1 DEF Awaits
      <4>3. CASE NextOn(0, i, s)
        <5>1. i \in DOMAIN calls /\ calls[i].op = "add"
          BY <1>0, <2>2, <4>2, <4>3, AppendFacts DEF NextOn, About
        <5> QED BY <4>3, <5>1 DEF Awaits
      <4>4. CASE i = Len(calls) + 1 /\ Settled(0, s)
        <5>1. c.op = "add"
          BY <1>0, <2>2, <4>2, <4>4, AppendFacts
        <5> QED BY <2>2, <3>1, <4>4, <5>1 DEF Awaits
      <4> QED BY <4>1, <4>2, <4>3, <4>4
    <3>2. CASE ~(c.op \in {"add", "remove"} /\ c.track = s)
      <4>1. /\ Settled(0, s)' <=> Settled(0, s)
            /\ \A i : NextOn(0, i, s)' <=> NextOn(0, i, s)
        BY <1>0, <2>2, <3>2, AppendOther
      <4>2. s \in media' <=> s \in media
        BY <2>2, <3>2
      <4>3. \A i : NextOn(0, i, s) => i \in DOMAIN calls /\ calls'[i] = calls[i]
        BY <1>0, <2>2, AppendFacts DEF NextOn, About
      <4> QED BY <2>4, <4>1, <4>2, <4>3 DEF Awaits
    <3> QED BY <3>1, <3>2
  <2> QED BY <2>1, <2>3, <2>4 DEF ServedInv, Clean
<1>7. CASE OnRemoteTrackAdded
  <2>0. PICK s \in Tracks : s = Head(calls).track
    BY <1>0, <1>7, HeadTrack DEF OnRemoteTrackAdded
  <2>1. /\ NextCall("add") /\ calls' = Tail(calls) /\ UNCHANGED <<media, removing>>
        /\ \/ bound' = [bound EXCEPT ![s] = @ + 1] /\ UNCHANGED waiting
           \/ waiting' = waiting \cup {s} /\ UNCHANGED bound
    BY <1>7, <2>0 DEF OnRemoteTrackAdded, AddMedia, AddNonBinded, peerVars
  <2>2. Serves
    BY <2>1, AddedIsClean
  <2>3. /\ calls # <<>> /\ calls[1].op = "add" /\ \A r : About(1, r) <=> r = s
    BY <2>0, <2>1, NextCallFacts
  <2>4. ~Awaits(s)'
    <3>1. Alternates(s) /\ About(1, s)
      BY <2>3 DEF CallsInv
    <3>2. /\ Settled(0, s)' => s \in media'
          /\ \A i \in DOMAIN calls' : NextOn(0, i, s)' => calls'[i].op # "add"
      BY <1>0, <2>1, <2>3, <3>1, HeadAlternates
    <3> QED BY <3>2 DEF Awaits
  <2>5. ASSUME NEW r \in Tracks, r # s, Awaits(r)' PROVE Clean(r)' \/ r \in removing'
    <3>1. ~About(1, r)
      BY <2>3, <2>5
    <3>2. /\ Settled(0, r)' => Settled(0, r)
          /\ \A i \in DOMAIN calls' : NextOn(0, i, r)' =>
               i + 1 \in DOMAIN calls /\ calls'[i] = calls[i + 1] /\ NextOn(0, i + 1, r)
      BY <1>0, <2>1, <2>3, <3>1, HeadOther
    <3>3. Awaits(r)
      BY <2>1, <2>5, <3>2 DEF Awaits
    <3> QED BY <1>0, <2>1, <2>2, <2>5, <3>3 DEF ServedInv, Clean
  <2> QED BY <2>4, <2>5 DEF ServedInv
<1>8. CASE OnRemoteTrackRemoved
  <2>0. PICK s \in Tracks : s = Head(calls).track
    BY <1>0, <1>8, HeadTrack DEF OnRemoteTrackRemoved
  <2>1. /\ NextCall("remove") /\ calls' = Tail(calls) /\ UNCHANGED <<media, bound, live>>
        /\ removing' = {s} /\ waiting' \subseteq waiting
    BY <1>8, <2>0 DEF OnRemoteTrackRemoved, roomVars, peerVars
  <2>2. /\ calls # <<>> /\ 1 \in DOMAIN calls /\ calls[1].op = "remove" /\ at["events"] = "idle"
        /\ \A r : About(1, r) <=> r = s
    BY <2>0, <2>1, NextCallFacts
  <2>3. removing = {} /\ (live => Serves)
    BY <2>2 DEF CallsInv, Serves, Cleaning
  <2>4. ASSUME NEW r \in Tracks, r # s, Awaits(r)', live PROVE Clean(r)'
    <3>1. ~About(1, r)
      BY <2>2, <2>4
    <3>2. /\ Settled(0, r)' => Settled(0, r)
          /\ \A i \in DOMAIN calls' : NextOn(0, i, r)' =>
               i + 1 \in DOMAIN calls /\ calls'[i] = calls[i + 1] /\ NextOn(0, i + 1, r)
      BY <1>0, <2>1, <2>2, <3>1, HeadOther
    <3>3. Awaits(r)
      BY <2>1, <2>4, <3>2 DEF Awaits
    <3> QED BY <2>1, <2>3, <2>4, <3>3 DEF ServedInv, Clean
  <2> QED BY <2>1, <2>4 DEF ServedInv, Serves
<1>9. CASE Unbind
  <2>1. /\ at["events"] = "unbind" /\ lock = "none" /\ removing' = {}
        /\ UNCHANGED <<waiting, calls, media, live>>
        /\ bound' = [s \in Tracks |->
             IF /\ \E r \in removing : s \in KeysOf(r)
                /\ Owner[s] \in present
                /\ bound[s] > 0
               THEN bound[s] - 1 ELSE bound[s]]
    BY <1>9 DEF Unbind, peerVars
  <2>2. ASSUME NEW s \in removing, s \in Tracks PROVE Clean(s)'
    <3>1. /\ bound[s] \in Nat /\ bound[s] <= 1 /\ s \notin waiting
          /\ bound[s] > 0 => s \in listed[Owner[s]]
      BY <1>0, <2>2 DEF ObjectInv, OneObjectPerTrack
    <3>2. job.remove = {}
      BY <2>1 DEF Inv, JobNames, NoJob
    <3>3. bound[s] > 0 => Owner[s] \in present
      BY <1>0, <2>2, <3>1, <3>2 DEF Rooms
    <3>4. \E r \in removing : s \in KeysOf(r)
      BY <2>2 DEF KeysOf
    <3>5. bound'[s] = IF bound[s] > 0 THEN bound[s] - 1 ELSE bound[s]
      BY <2>1, <2>2, <3>3, <3>4
    <3> QED BY <2>1, <3>1, <3>5 DEF Clean
  <2>3. \A s \in Tracks : Clean(s) => Clean(s)'
    BY <1>0, <2>1 DEF Clean
  <2>4. Serves' => Serves
    BY <2>1 DEF Serves, Cleaning
  <2>5. \A s \in Tracks : Awaits(s)' => Awaits(s)
    BY <2>1 DEF Awaits, Settled, NextOn, About
  <2> QED BY <2>2, <2>3, <2>4, <2>5 DEF ServedInv
<1>10. CASE OnFailure
  <2>1. at' = [at EXCEPT !["events"] = "reset"]
    BY <1>10 DEF OnFailure, ClearStorage, Go
  <2> QED BY <1>0, <2>1 DEF ServedInv, Serves, Cleaning
<1> QED BY <1>2, <1>3, <1>4, <1>5, <1>6, <1>7, <1>8, <1>9, <1>10 DEF Next, Run, Serve

ObjectsInv == ObjectInv /\ CleaningInv /\ UnusedInv /\ ServedInv

LEMMA ObjectInvariance == ASSUME Foreign = {} PROVE Spec => []ObjectsInv
<1>1. Init => ObjectsInv
  <2> SUFFICES ASSUME Init PROVE ObjectsInv
    OBVIOUS
  <2>1. ObjectInv
    BY DEF Init, ObjectInv, OneObjectPerTrack
  <2>2. at["events"] = "idle" /\ at["ws"] = "idle"
    BY DEF Init, Threads
  <2>3. CleaningInv /\ UnusedInv
    BY <2>2 DEF Init, CleaningInv, Cleaning, UnusedInv, Clean
  <2>4. ServedInv
    BY DEF Init, ServedInv, Serves
  <2> QED BY <2>1, <2>3, <2>4 DEF ObjectsInv
<1>2. Inv /\ Inv' /\ Rooms /\ CallsInv /\ ObjectsInv /\ [Next]_vars => ObjectsInv'
  <2> SUFFICES ASSUME Inv, Inv', Rooms, CallsInv, ObjectsInv, [Next]_vars PROVE ObjectsInv'
    OBVIOUS
  <2>1. CASE Next
    BY <2>1, ObjectStep, CleaningStep, UnusedStep, ServedStep DEF ObjectsInv
  <2>2. CASE UNCHANGED vars
    <3>1. ObjectInv'
      BY <2>2 DEF vars, ObjectsInv, ObjectInv, OneObjectPerTrack
    <3>2. CleaningInv'
      BY <2>2 DEF vars, ObjectsInv, CleaningInv, Cleaning, Clean
    <3>3. UnusedInv'
      BY <2>2 DEF vars, ObjectsInv, UnusedInv, Unused, Cleaning, NoneLost, Clean
    <3>4. ServedInv'
      BY <2>2 DEF vars, ObjectsInv, ServedInv, Serves, Cleaning, Awaits, Settled, NextOn, About, Clean
    <3> QED BY <3>1, <3>2, <3>3, <3>4 DEF ObjectsInv
  <2> QED BY <2>1, <2>2
<1> QED BY <1>1, <1>2, Invariance, RoomInvariance, PTL DEF Spec

\* A track has one object at most, in the participant that lists it, over any
\* number of connections, when receivers are named like their tracks.
THEOREM ObjectsAreUnique == ASSUME Foreign = {} PROVE Spec => []OneObjectPerTrack
<1>1. ObjectsInv => OneObjectPerTrack
  BY DEF ObjectsInv, ObjectInv
<1> QED BY <1>1, ObjectInvariance, PTL

\* Once all calls are made, nothing is bound and nothing waits that the peer
\* connection has no receiver for any more.
THEOREM RemovedMediaIsForgotten == ASSUME Foreign = {} PROVE Spec => []RemovedMediaIsGone
<1>1. CallsInv /\ ObjectsInv => RemovedMediaIsGone
  <2> SUFFICES ASSUME CallsInv, ObjectsInv, live, Quiet, NEW s \in Tracks, s \notin media
               PROVE  ~(bound[s] > 0 \/ s \in waiting)
    BY DEF RemovedMediaIsGone
  <2>1. calls = <<>> /\ at["events"] = "idle"
    BY DEF Quiet, Threads
  <2>2. Serves /\ Awaits(s)
    BY <2>1 DEF Serves, Cleaning, Awaits, Settled
  <2>3. removing = {}
    BY <2>1 DEF CallsInv
  <2> QED BY <2>2, <2>3 DEF ObjectsInv, ServedInv, Clean
<1> QED BY <1>1, RoomInvariance, ObjectInvariance, PTL

=============================================================================
