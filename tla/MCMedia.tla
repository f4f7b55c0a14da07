------------------------------ MODULE MCMedia ------------------------------
(***************************************************************************)
(* The keys of the frames, the microphone, the camera and the shared screen *)
(* share no state: one of them moves and the others rest.                  *)
(***************************************************************************)
EXTENDS FrameKeys, AudioModule, CameraSource, ScreenSource, TLC

CONSTANTS p1, p2, k1, Tolerance, Window, m1, m2, t1, t2, v1, v2, o1, o2

\* DefaultKeyProvider, and a provider of the application with the default options.
BothProviders ==
  {[shared |-> TRUE, window |-> 0, tolerance |-> Forever],
   [shared |-> FALSE, window |-> Window, tolerance |-> Tolerance]}

\* Two microphones with volumes of their own.
Ranges == (m1 :> 2) @@ (m2 :> 4)

VARIABLE part  \* the one that moves

mediaVars == <<keyVars, audioVars, cameraVars, screenVars, part>>

\* Where the others may begin in several states, they rest in one of them.
MediaInit ==
  /\ part \in {"keys", "audio", "camera", "screen"}
  /\ KeysInit /\ (part # "keys" => opts.shared)
  /\ AudioInit /\ (part # "audio" => \A d \in Mics : ~hw[d].mute)
  /\ CameraInit
  /\ ScreenInit /\ (part # "screen" => platform = "mac" /\ fps = 1)

KeysMove == part = "keys" /\ KeysNext /\ UNCHANGED <<audioVars, cameraVars, screenVars, part>>
AudioMoves == part = "audio" /\ AudioNext /\ UNCHANGED <<keyVars, cameraVars, screenVars, part>>
CameraMoves == part = "camera" /\ CameraNext /\ UNCHANGED <<keyVars, audioVars, screenVars, part>>
ScreenMoves == part = "screen" /\ ScreenNext /\ UNCHANGED <<keyVars, audioVars, cameraVars, part>>

MediaNext == KeysMove \/ AudioMoves \/ CameraMoves \/ ScreenMoves

MediaSpec == MediaInit /\ [][MediaNext]_mediaVars

\* The types of the four parts.
MediaTypeOK == KeysTypeOK /\ AudioTypeOK /\ CameraTypeOK /\ ScreenTypeOK

\* Participants are alike, and threads, and viewers; the temporal property names none of them.
Alike == Permutations(Participants) \cup Permutations(Threads) \cup Permutations(Viewers)
=============================================================================
