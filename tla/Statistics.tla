----------------------------- MODULE Statistics -----------------------------
(***************************************************************************)
(* A report of statistics in the hands of the user: OnStatsDelivered hands *)
(* it to the listener, who keeps it or not, takes the statistics of one    *)
(* entry out of it and asks them for their type, their extensions, their   *)
(* time and their attributes, at a time when the report may be gone.       *)
(*                                                                         *)
(* External: the entries WebRTC has in a report, and their classes.        *)
(***************************************************************************)
EXTENDS Naturals

CONSTANT Times   \* when an entry was made, in microseconds

ASSUME StatisticsAssumption == Times \subseteq Nat

VARIABLES
  owners,     \* who keeps the report of WebRTC: the callback, a copy of the report, the statistics
  entry,      \* the class of the entry that was taken out, or "none"
  attribute,  \* an attribute was taken out of it, with its value
  reading     \* what was asked last, the answer, and whether the report was gone by then

statsVars == <<owners, entry, attribute, reading>>

----------------------------------------------------------------------------
(* The entries of WebRTC, by their class, and what the SDK makes of them.  *)

\* The type an entry has, by its name in WebRTC; a newer one may have another.
TypeOfEntry == [
  Codec |-> "Codec", InboundRtp |-> "InboundRtp", OutboundRtp |-> "OutboundRtp",
  RemoteInboundRtp |-> "RemoteInboundRtp", RemoteOutboundRtp |-> "RemoteOutboundRtp",
  AudioSource |-> "MediaSource", VideoSource |-> "MediaSource", AudioPlayout |-> "MediaPlayout",
  PeerConnection |-> "PeerConnection", DataChannel |-> "DataChannel", Transport |-> "Transport",
  CandidatePair |-> "CandidatePair", LocalCandidate |-> "LocalCandidate",
  RemoteCandidate |-> "RemoteCandidate", Certificate |-> "Certificate", Newer |-> "Uknown"]

Entries == DOMAIN TypeOfEntry

\* make: the class of the SDK, by the type of the entry and then by its class in WebRTC.
Impl == [e \in Entries |->
  IF e \in {"LocalCandidate", "RemoteCandidate"} THEN "IceCandidate"
  ELSE IF e = "Newer" THEN "Data" ELSE e]

\* The extensions a class derives from: what a dynamic cast of it finds.
Bases(i) ==
  CASE i \in {"InboundRtp", "RemoteInboundRtp"} -> {i, "ReceivedStream", "RtpStream"}
    [] i \in {"OutboundRtp", "RemoteOutboundRtp"} -> {i, "SentStream", "RtpStream"}
    [] i \in {"AudioSource", "VideoSource"} -> {i, "MediaSource"}
    [] i = "Data" -> {}
    [] OTHER -> {i}

\* The extensions Stats has a method for.
Extensions == (UNION {Bases(Impl[e]) : e \in Entries}) \ {"RtpStream", "ReceivedStream", "SentStream"}

\* Of the candidates and of what is newer StatsData tells the type, by the id of the entry.
TypeTold(i) ==
  CASE i \in {"IceCandidate", "Data"} -> "Uknown"
    [] i \in {"AudioSource", "VideoSource"} -> "MediaSource"
    [] i = "AudioPlayout" -> "MediaPlayout"
    [] OTHER -> i

----------------------------------------------------------------------------
(* The getters of each extension.                                          *)

InboundPacketGetters ==
  {"playoutId", "trackIdentifier", "mid", "remoteId", "packetsReceived", "packetsDiscarded",
   "fecPacketsReceived", "fecBytesReceived", "fecPacketsDiscarded", "fecSsrc", "bytesReceived",
   "headerBytesReceived", "retransmittedPacketsReceived", "retransmittedBytesReceived",
   "rtxSsrc", "lastPacketReceivedTimestamp", "jitterBufferDelay", "jitterBufferTargetDelay"}
InboundSampleGetters ==
  {"jitterBufferMinimumDelay", "jitterBufferEmittedCount", "totalSamplesReceived",
   "concealedSamples", "silentConcealedSamples", "concealmentEvents",
   "insertedSamplesForDeceleration", "removedSamplesForAcceleration", "audioLevel",
   "totalAudioEnergy", "totalSamplesDuration", "framesReceived", "frameWidth", "frameHeight",
   "framesPerSecond", "framesDecoded", "keyFramesDecoded", "framesDropped"}
InboundFrameGetters ==
  {"totalDecodeTime", "totalProcessingDelay", "totalAssemblyTime",
   "framesAssembledFromMultiplePackets", "totalInterFrameDelay", "totalSquaredInterFrameDelay",
   "pauseCount", "totalPausesDuration", "freezeCount", "totalFreezesDuration", "contentType",
   "estimatedPlayoutTimestamp", "decoderImplementation", "firCount", "pliCount", "nackCount",
   "qpSum", "totalCorruptionProbability"}
InboundOtherGetters ==
  {"totalSquaredCorruptionProbability", "corruptionMeasurements", "googTimingFrameInfo",
   "powerEfficientDecoder", "jitterBufferFlushes", "delayedPacketOutageSamples",
   "relativePacketArrivalDelay", "interruptionCount", "totalInterruptionDuration",
   "minPlayoutDelay"}
OutboundStreamGetters ==
  {"mediaSourceId", "remoteId", "mid", "rid", "retransmittedPacketsSent", "headerBytesSent",
   "retransmittedBytesSent", "targetBitrate", "framesEncoded", "keyFramesEncoded",
   "totalEncodeTime", "totalEncodedBytesTarget", "frameWidth", "frameHeight", "framesPerSecond",
   "framesSent", "hugeFramesSent", "totalPacketSendDelay"}
OutboundFrameGetters ==
  {"qualityLimitationReason", "qualityLimitationDurations",
   "qualityLimitationResolutionChanges", "contentType",
   "encoderImplementation", "firCount", "pliCount", "nackCount", "qpSum", "active",
   "powerEfficientEncoder", "scalabilityMode", "rtxSsrc"}
PairGetters ==
  {"transportId", "localCandidateId", "remoteCandidateId", "state", "priority", "nominated",
   "writable", "packetsSent", "packetsReceived", "bytesSent", "bytesReceived",
   "totalRoundTripTime", "currentRoundTripTime", "availableOutgoingBitrate",
   "availableIncomingBitrate", "requestsReceived", "requestsSent", "responsesReceived"}
PairConsentGetters ==
  {"responsesSent", "consentRequestsSent", "packetsDiscardedOnSend", "bytesDiscardedOnSend",
   "lastPacketReceivedTimestamp", "lastPacketSentTimestamp"}
CandidateGetters ==
  {"transportId", "networkType", "ip", "address", "port", "protocol", "relayProtocol",
   "candidateType", "priority", "url", "foundation", "relatedAddress", "relatedPort",
   "usernameFragment", "tcpType", "vpn", "networkAdapterType"}
TransportGetters ==
  {"bytesSent", "packetsSent", "bytesReceived", "packetsReceived", "rtcpTransport_stats_id",
   "dtlsState", "selectedCandidatePairId", "localCertificateId", "remoteCertificateId",
   "tlsVersion", "dtlsCipher", "dtlsRole", "srtpCipher", "selectedCandidatePairChanges",
   "iceRole", "iceLocalUsernameFragment", "iceState"}
ChannelGetters ==
  {"label", "protocol", "dataChannelIdentifier", "state", "messagesSent", "bytesSent",
   "messagesReceived", "bytesReceived"}
CodecGetters == {"transportId", "payloadType", "mimeType", "clockRate", "channels", "sdpFmtpLine"}
CertificateGetters ==
  {"fingerprint", "fingerprintAlgorithm", "base64Certificate", "issuerCertificateId"}
PeerConnectionGetters == {"dataChannelsOpened", "dataChannelsClosed"}
PlayoutGetters ==
  {"kind", "synthesizedSamplesDuration", "synthesizedSamplesEvents", "totalSamplesDuration",
   "totalPlayoutDelay", "totalSamplesCount"}
MediaSourceGetters == {"trackIdentifier", "kind"}
AudioSourceGetters ==
  {"audioLevel", "totalAudioEnergy", "totalSamplesDuration", "echoReturnLoss",
   "echoReturnLossEnhancement"}
VideoSourceGetters == {"width", "height", "frames", "framesPerSecond"}
RtpStreamGetters == {"ssrc", "kind", "transportId", "codecId"}
ReceivedStreamGetters == {"jitter", "packetsLost"}
SentStreamGetters == {"packetsSent", "bytesSent"}
RemoteInboundGetters ==
  {"localId", "roundTripTime", "fractionLost", "totalRoundTripTime", "roundTripTimeMeasurements"}
RemoteOutboundGetters ==
  {"localId", "remoteTimestamp", "reportsSent", "roundTripTime", "roundTripTimeMeasurements",
   "totalRoundTripTime"}

Getters == [
  InboundRtp |-> InboundPacketGetters \cup InboundSampleGetters \cup InboundFrameGetters \cup
    InboundOtherGetters,
  OutboundRtp |-> OutboundStreamGetters \cup OutboundFrameGetters,
  CandidatePair |-> PairGetters \cup PairConsentGetters,
  IceCandidate |-> CandidateGetters, Transport |-> TransportGetters, DataChannel |-> ChannelGetters,
  Codec |-> CodecGetters, Certificate |-> CertificateGetters,
  PeerConnection |-> PeerConnectionGetters, AudioPlayout |-> PlayoutGetters,
  MediaSource |-> MediaSourceGetters, AudioSource |-> AudioSourceGetters,
  VideoSource |-> VideoSourceGetters, RtpStream |-> RtpStreamGetters,
  ReceivedStream |-> ReceivedStreamGetters, SentStream |-> SentStreamGetters,
  RemoteInboundRtp |-> RemoteInboundGetters, RemoteOutboundRtp |-> RemoteOutboundGetters]

\* The attribute a getter returns.
AttributeOf(getter) == IF getter = "responsesReceived" THEN "requestsReceived" ELSE getter

\* Timestamps of WebRTC are microseconds, which are taken for nanoseconds.
MapTime(us) == us \div 1000

----------------------------------------------------------------------------
OnStatsDelivered ==
  /\ owners = {} /\ entry = "none"
  /\ owners' = {"callback"}
  /\ UNCHANGED <<entry, attribute, reading>>

CopyReport ==
  /\ "callback" \in owners /\ "report" \notin owners
  /\ owners' = owners \cup {"report"}
  /\ UNCHANGED <<entry, attribute, reading>>

\* Mutant: the statistics do not keep the data of the report.
MutGet(e) ==
  /\ owners \cap {"callback", "report"} # {} /\ entry = "none"
  /\ entry' = e
  /\ UNCHANGED <<owners, attribute, reading>>

\* StatsReport::get: what it makes keeps the data of the report.
Get(e) ==
  /\ owners \cap {"callback", "report"} # {} /\ entry = "none"
  /\ entry' = e /\ owners' = owners \cup {"statistics"}
  /\ UNCHANGED <<attribute, reading>>

\* The listener returns, or the user destroys the report.
DropReport(owner) ==
  /\ owner \in owners
  /\ owners' = owners \ {owner}
  /\ UNCHANGED <<entry, attribute, reading>>

DropStatistics ==
  /\ entry # "none"
  /\ entry' = "none" /\ owners' = owners \ {"statistics"}
  /\ UNCHANGED <<attribute, reading>>

\* The value of an attribute is a pointer into the entry.
TakeAttribute ==
  /\ entry # "none" /\ ~attribute
  /\ attribute' = TRUE
  /\ UNCHANGED <<owners, entry, reading>>

Answer(what, asked, value) ==
  reading' = [what |-> what, asked |-> asked, value |-> value, of |-> entry, gone |-> owners = {}]

AskType ==
  /\ entry # "none"
  /\ Answer("type", "type", TypeTold(Impl[entry]))
  /\ UNCHANGED <<owners, entry, attribute>>

AskTime(us) ==
  /\ entry # "none"
  /\ Answer("time", us, MapTime(us))
  /\ UNCHANGED <<owners, entry, attribute>>

\* An extension is the object itself, or null.
AskExtension(x) ==
  /\ entry # "none"
  /\ Answer("extension", x, x \in Bases(Impl[entry]))
  /\ UNCHANGED <<owners, entry, attribute>>

AskGetter(getter) ==
  /\ Answer("getter", getter, AttributeOf(getter))
  /\ UNCHANGED <<owners, entry, attribute>>

AskAttribute ==
  /\ attribute
  /\ Answer("attribute", "value", "value")
  /\ UNCHANGED <<owners, entry, attribute>>

NoReading == [what |-> "none", asked |-> "none", value |-> "none", of |-> "none", gone |-> FALSE]

StatsInit == owners = {} /\ entry = "none" /\ attribute = FALSE /\ reading = NoReading

\* One question is followed to its answer.
Ask ==
  \/ AskType
  \/ \E us \in Times : AskTime(us)
  \/ \E x \in Extensions : AskExtension(x)
  \/ entry # "none" /\ \E x \in Bases(Impl[entry]) : \E getter \in Getters[x] : AskGetter(getter)
  \/ AskAttribute

StatsNext ==
  /\ reading = NoReading
  /\ \/ OnStatsDelivered
     \/ CopyReport
     \/ \E e \in Entries : Get(e)
     \/ \E owner \in {"callback", "report"} : DropReport(owner)
     \/ DropStatistics
     \/ TakeAttribute
     \/ Ask

StatsSpec == StatsInit /\ [][StatsNext]_statsVars

----------------------------------------------------------------------------
\* Types of the variables.
StatsTypeOK ==
  /\ owners \subseteq {"callback", "report", "statistics"}
  /\ entry \in Entries \cup {"none"} /\ attribute \in BOOLEAN
  /\ reading.what \in {"none", "type", "time", "extension", "getter", "attribute"}
  /\ reading.gone \in BOOLEAN

\* The types whose entries have an extension.
TypesWith(x) ==
  CASE x = "IceCandidate" -> {"LocalCandidate", "RemoteCandidate"}
    [] x \in {"AudioSource", "VideoSource"} -> {"MediaSource"}
    [] x = "AudioPlayout" -> {"MediaPlayout"}
    [] OTHER -> {x}

\* What the getters and the type say of an entry is what WebRTC has in it, the type tells which
\* extension there is, and the report is there as long as anything is asked, whoever dropped
\* what before. Known exceptions: one getter of a candidate pair, the type of a candidate, and
\* an attribute that is read when the report is gone, since nothing it has keeps it.
StatisticsAreTrue ==
  /\ reading.what = "getter" /\ reading.asked # "responsesReceived" => reading.value = reading.asked
  /\ reading.what = "type" /\ reading.of \notin {"LocalCandidate", "RemoteCandidate"} =>
       reading.value = TypeOfEntry[reading.of]
  /\ reading.what = "extension" =>
       reading.value = (/\ TypeOfEntry[reading.of] \in TypesWith(reading.asked)
                        /\ reading.asked \in {"AudioSource", "VideoSource"} => reading.asked = reading.of)
  /\ reading.gone => reading.what = "attribute"
=============================================================================
