---------------------------- MODULE MCAudioLinks ----------------------------
(* One run for the two ends of an audio link, which share nothing but the  *)
(* catalog: the initial state says whether the client is a send or a       *)
(* return, and the other variables then keep a dummy value.                *)
EXTENDS Naturals

CONSTANTS NULL, Serials, Name, NoName, Self, Everyone, Slot, Threshold,
          MaxStreams, MaxNames,
          a, me

VARIABLES
  side,
  entry, news, made, pName, bChanged, names, sLastName, bActive,
  enStatus, bProcessing, pStream, sParams, vState, sStream, sRecord,
  sUpdate, sApply, rt, srv, took, result,
  bPublish,
  written, closed, bConnect, sSetup, for, refused

OneName == {a}
OneClient == {me}
FourSlots == 1..4

Send == INSTANCE AudioSend
Return == INSTANCE AudioReturn

ASSUME LinksAssumption == Send!SendConstants /\ Return!ReturnConstants

sendOnly == bPublish
returnOnly == <<written, closed, bConnect, sSetup, for, refused>>
vars == <<side, Send!vars, returnOnly>>

Init ==
  \/ /\ side = "send" /\ Send!Init
     /\ written = {} /\ closed = {}
     /\ bConnect = FALSE /\ sSetup = NoName /\ for = NULL /\ refused = FALSE
  \/ side = "return" /\ Return!Init /\ bPublish = FALSE

Next ==
  \/ side = "send" /\ Send!Next /\ UNCHANGED <<side, returnOnly>>
  \/ side = "return" /\ Return!Next /\ UNCHANGED <<side, sendOnly>>

Spec == Init /\ [][Next]_vars

(* Serials matter through their differences only. *)
Behind(s) == (s.nRequest + Serials - s.nResponse) % Serials
Since(s) == (s.nRequest + Serials - took) % Serials
View ==
  <<side, entry, news, made, pName, bChanged, names, sLastName, bActive,
    enStatus, bProcessing, pStream, sParams, vState, sStream, sRecord, rt, srv,
    result, bPublish, written, closed, bConnect, sSetup, for, refused,
    Behind(sUpdate), Behind(sApply),
    IF srv = "idle" THEN <<>> ELSE <<Since(sUpdate), Since(sApply)>>>>

-----------------------------------------------------------------------------
(* The types of both ends. *)
TypeOK == IF side = "send" THEN Send!TypeOK ELSE Return!TypeOK

(* AudioSend!LastSettingsWin: the last settings published are in force     *)
(* when both threads are done.                                             *)
LastSettingsWin == side = "send" => Send!LastSettingsWin

(* AudioReturn!LastNameWins: the last name a return was given decides what *)
(* it reads from.                                                          *)
LastNameWins == side = "return" => Return!LastNameWins

(* SlotsSuffice of both: publish() and connect() always find an element of *)
(* vState.                                                                 *)
SlotsSuffice ==
  IF side = "send" THEN Send!SlotsSuffice ELSE Return!SlotsSuffice
=============================================================================
