---------------------------- MODULE MCDataPorts ------------------------------
(* One run for what the audio thread exchanges with the others: OSC        *)
(* packets, streams, pictures, texts, paths and files to be listened to    *)
(* share nothing, so the initial state says which of them the behaviour is *)
(* about, and the variables of the others keep a dummy or their first      *)
(* value.  "events" are files requested in the audio thread alone.         *)
EXTENDS MCOscBuffer

CONSTANTS nFrames, nFrameCap, MaxFrameSize, nBufMax, MaxFrames,
          nRows, nCapacity, MaxRows,
          Text, NoText, Default, Torn, Path, NoPath, Mixed, MaxRequests, MaxResets,
          File, NoFile, Sample, NULL, MaxPlays, MaxFails, none, a, b

VARIABLES
  port,
  src, dst, adding, reader, written, past,
  writer, cleared,
  sData, sPending, nSerial, nRequest, nLock, nUIPending, nUISerial,
  pData, known, audio, main, crossed,
  sPath, sDspRequest, sUiPath, nDspSerial, nDspCommit, nUiSerial, nUiCommit,
  nFlags, nDspRequest, dsp, requested, loaded,
  sReqFileName, nUpdateReq, ui, request, sFileName, nUpdateResp, rt, played,
  sLoadTask, sGCTask, pLoaded, bound, playing, garbage, pGCList, collected,
  content, fails

MCTexts == {none, a, b}
MCFiles == {a, b}
MCSamples == 1..4

Stream == INSTANCE StreamPort
Frames == INSTANCE FrameBuffer
String == INSTANCE StringPort
Paths == INSTANCE PathPort
Player == INSTANCE SamplePlayer

ASSUME PortsAssumption ==
  /\ Stream!StreamConstants /\ Frames!RowConstants
  /\ String!TextConstants /\ Paths!PathConstants /\ Player!PlayerConstants

buffers == <<src, dst, reader>>
streamOnly == <<adding, written, past>>
frameOnly == <<writer, cleared>>
textOnly == <<sData, sPending, nSerial, nRequest, nLock, nUIPending, nUISerial,
              pData, known, audio, crossed>>
pathOnly == <<sPath, sDspRequest, sUiPath, nDspSerial, nDspCommit, nUiSerial, nUiCommit,
              nFlags, nDspRequest, dsp, requested, loaded>>
playerOnly == <<sReqFileName, nUpdateReq, ui, request, sFileName, nUpdateResp, rt, played,
                sLoadTask, sGCTask, pLoaded, bound, playing, garbage, pGCList,
                collected, content, fails>>

NoBuffers == src = 0 /\ dst = 0 /\ reader = 0
NoStream == adding = 0 /\ written = 0 /\ past = 0
NoFrames == writer = 0 /\ cleared = 0
NoString ==
  /\ sData = 0 /\ sPending = 0 /\ nSerial = 0 /\ nRequest = 0 /\ nLock = 0
  /\ nUIPending = 0 /\ nUISerial = 0 /\ pData = 0 /\ known = 0 /\ audio = 0
  /\ crossed = 0
NoPaths ==
  /\ sPath = 0 /\ sDspRequest = 0 /\ sUiPath = 0 /\ nDspSerial = 0 /\ nDspCommit = 0
  /\ nUiSerial = 0 /\ nUiCommit = 0 /\ nFlags = 0 /\ nDspRequest = 0 /\ dsp = 0
  /\ requested = 0 /\ loaded = 0

StreamInit ==
  /\ Init /\ port = "stream" /\ Stream!Init
  /\ NoFrames /\ NoString /\ NoPaths /\ Player!Init /\ main = 0
StreamNext ==
  /\ port = "stream" /\ Stream!Next
  /\ UNCHANGED <<vars, port, frameOnly, textOnly, pathOnly, playerOnly, main>>

PortsInit ==
  \/ StreamInit
  \/ /\ Init /\ port = "osc"
     /\ NoBuffers /\ NoStream /\ NoFrames /\ NoString /\ NoPaths /\ Player!Init /\ main = 0
  \/ /\ Init /\ port = "frames" /\ Frames!Init
     /\ NoStream /\ NoString /\ NoPaths /\ Player!Init /\ main = 0
  \/ /\ Init /\ port = "string" /\ String!Init
     /\ NoBuffers /\ NoStream /\ NoFrames /\ NoPaths /\ Player!Init
  \/ /\ Init /\ port = "path" /\ Paths!Init
     /\ NoBuffers /\ NoStream /\ NoFrames /\ NoString /\ Player!Init
  \/ /\ Init /\ port \in {"player", "events"} /\ Player!Init
     /\ NoBuffers /\ NoStream /\ NoFrames /\ NoString /\ NoPaths /\ main = 0

pathOthers == <<vars, port, buffers, streamOnly, frameOnly, textOnly, playerOnly>>
playerOthers ==
  <<vars, port, buffers, streamOnly, frameOnly, textOnly, pathOnly, main>>

PortsNext ==
  \/ StreamNext
  \/ /\ port = "osc" /\ Alternating
     /\ UNCHANGED <<port, buffers, streamOnly, frameOnly, textOnly, pathOnly,
                    playerOnly, main>>
  \/ /\ port = "frames" /\ Frames!Next
     /\ UNCHANGED <<vars, port, streamOnly, textOnly, pathOnly, playerOnly, main>>
  \/ /\ port = "string" /\ String!Next
     /\ UNCHANGED <<vars, port, buffers, streamOnly, frameOnly, pathOnly, playerOnly>>
  \/ port = "path" /\ Paths!Next /\ UNCHANGED pathOthers
  \/ port = "player" /\ Player!Next /\ UNCHANGED playerOthers
  \/ port = "events" /\ Player!Next /\ ui' = "idle" /\ UNCHANGED playerOthers

others == <<port, buffers, streamOnly, frameOnly, textOnly, pathOnly, playerOnly, main>>
PathStep == port = "path" /\ UNCHANGED pathOthers
PlayerStep == port = "player" /\ UNCHANGED playerOthers

PortsSpec ==
  /\ PortsInit /\ [][PortsNext]_<<vars, others>>
  /\ WF_<<vars, others>>(PathStep /\ Paths!Dsp)
  /\ WF_<<vars, others>>(PathStep /\ Paths!UiSync)
  /\ WF_<<vars, others>>(PathStep /\ Paths!Deserializing)
  /\ WF_<<vars, others>>(PlayerStep /\ Player!UiStep)
  /\ WF_<<vars, others>>(PlayerStep /\ Player!Process)
  /\ SF_<<vars, others>>(PlayerStep /\ Player!Ending)
  /\ WF_<<vars, others>>(PlayerStep /\ Player!Load)
  /\ WF_<<vars, others>>(PlayerStep /\ Player!Gc)

(* The stream by itself *)
StreamSpec == StreamInit /\ [][StreamNext]_<<vars, others>>

-----------------------------------------------------------------------------
(* Each has its types. *)
PortsTypeOK ==
  CASE port = "stream" -> Stream!TypeOK
    [] port = "frames" -> Frames!TypeOK
    [] port = "string" -> String!TypeOK
    [] port = "path" -> Paths!TypeOK
    [] port = "osc" -> TypeOK
    [] port \in {"player", "events"} -> Player!TypeOK

(* StreamPort!SourceReads: the plugin's stream gives the last samples.     *)
SourceReads == port = "stream" => Stream!SourceReads

(* StreamPort!CopyReads: frames copied one by one give the same.           *)
CopyReads == port = "stream" => Stream!CopyReads

(* StreamPort!SyncCopies: also after the frames were copied all at once.   *)
SyncCopies == Stream!SyncCopies

(* FrameBuffer!PictureWhole: no row is torn or out of place.               *)
PictureWhole == port = "frames" => Frames!PictureWhole

(* FrameBuffer!ClearShown: no row that was cleared stays.                  *)
ClearShown == port = "frames" => Frames!ClearShown

(* StringPort!TextShown: the text shown is the text in force.              *)
TextShown == port = "string" => String!TextShown

(* PathPort!PathSettles: the path requested last is loaded and shown.      *)
PathSettles == port = "path" => Paths!PathSettles

(* PathPort!PathArrives: it gets there in the end.                         *)
PathArrives == port = "path" => Paths!PathArrives

(* SamplePlayer!SamplesOwned: no sample is lost or destroyed too early.    *)
SamplesOwned == port \in {"player", "events"} => Player!SamplesOwned

(* SamplePlayer!RequestedPlays: the file requested last is played.         *)
RequestedPlays == port = "events" => Player!RequestedPlays

(* SamplePlayer!RequestsSettle: requests are answered, samples returned.   *)
RequestsSettle == port = "player" => Player!RequestsSettle
=============================================================================
