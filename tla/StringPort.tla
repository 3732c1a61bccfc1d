----------------------------- MODULE StringPort ------------------------------
(***************************************************************************)
(* plug::string_t (src/main/plug/data.cpp) between the two string ports of *)
(* CLAP (wrap/clap/ports.h, wrap/clap/ui_ports.h): a text that the host    *)
(* and the user interface submit, both in the main thread, and the audio   *)
(* thread takes over with sync().                                          *)
(*                                                                         *)
(* The user interface keeps a copy, pData, and the serial it belongs to.   *)
(* The audio thread may also reset the text (set_default()), without the   *)
(* lock and without a new serial: the ports count resets on their own.     *)
(***************************************************************************)
EXTENDS Integers

CONSTANTS
  Text, NoText,   \* the texts, and the empty one
  Default,        \* the text of the metadata
  Torn,           \* a text that is being copied
  MaxRequests,    \* bound: texts submitted
  MaxResets       \* bound: resets

TextConstants ==
  /\ {NoText, Default} \subseteq Text /\ Torn \notin Text
  /\ MaxRequests \in Nat /\ MaxResets \in Nat

VARIABLES
  sData, sPending, nSerial, nRequest,
  nLock,          \* the audio thread is in sync(); the main thread takes the
                  \* lock for one copy, during which sync() does nothing
  nUIPending, nUISerial,
  pData, known,   \* UIStringPort: pData, nSerial
  audio, main,    \* where the threads are; main with the serial fetch() read
  crossed         \* history: a text came into force between a reset and the
                  \* moment the user interface hears of the reset

vars == <<sData, sPending, nSerial, nRequest, nLock, nUIPending, nUISerial,
          pData, known, audio, main, crossed>>

resets == <<nUIPending, nUISerial>>
copy == <<pData, known>>

MainIdle == [at |-> "idle", serial |-> 0]

(* The user interface shows an empty text and asks for the first one. *)
Init ==
  /\ sData = NoText /\ sPending = NoText
  /\ nSerial = 0 /\ nRequest = 0 /\ nLock = FALSE
  /\ nUIPending = 0 /\ nUISerial = 0
  /\ pData = NoText /\ known = -1
  /\ audio = "idle" /\ main = MainIdle /\ crossed = FALSE

TypeOK ==
  /\ sData \in Text \cup {Torn} /\ sPending \in Text
  /\ nSerial \in 0..(2 * MaxRequests + 1) /\ nRequest \in nSerial..(2 * MaxRequests + 1)
  /\ nLock \in BOOLEAN /\ (nLock <=> audio \in {"copy", "store"})
  /\ nUIPending \in 0..MaxResets /\ nUISerial \in 0..nUIPending
  /\ pData \in Text \cup {Torn} /\ known \in -1..nRequest
  /\ audio \in {"idle", "copy", "store", "reset", "raise"}
  /\ main \in [at : {"idle", "submit", "fetch", "check"}, serial : 0..nSerial]
  /\ crossed \in BOOLEAN

-----------------------------------------------------------------------------
(* The serial of a new text: even, and odd for one of a restored state.    *)
NextRequest(state) == ((nRequest + 2) \div 2) * 2 + (IF state THEN 1 ELSE 0)

(* submit(), under the lock *)
Submit(text, state) ==
  /\ ~nLock /\ nRequest < 2 * MaxRequests
  /\ sPending' = text
  /\ nRequest' = NextRequest(state)

(* StringPort::deserialize(), by the host *)
Deserialize(text) ==
  /\ main = MainIdle /\ Submit(text, TRUE)
  /\ UNCHANGED <<sData, nSerial, nLock, resets, copy, audio, main, crossed>>

(* UIStringPort::write(): the copy first, *)
Write(text) ==
  /\ main = MainIdle /\ main' = [main EXCEPT !.at = "submit"]
  /\ nRequest < 2 * MaxRequests
  /\ pData' = text
  /\ UNCHANGED <<sData, sPending, nSerial, nRequest, nLock, resets, known, audio, crossed>>

(* then the text. *)
WriteSubmit ==
  /\ main.at = "submit" /\ main' = MainIdle
  /\ Submit(pData, FALSE) /\ known' = nRequest'
  /\ UNCHANGED <<sData, nSerial, nLock, resets, pData, audio, crossed>>

(* UIStringPort::sync(): fetch() compares the serials without the lock, *)
FetchCheck ==
  /\ main = MainIdle
  /\ main' = [at |-> IF nSerial = known THEN "check" ELSE "fetch", serial |-> nSerial]
  /\ UNCHANGED <<sData, sPending, nSerial, nRequest, nLock, resets, copy, audio, crossed>>

(* and copies the text under the lock, as the text of the serial it read.  *)
FetchCopy ==
  /\ main.at = "fetch" /\ main' = MainIdle
  /\ ~nLock
  /\ pData' = sData /\ known' = main.serial
  /\ crossed' = (crossed /\ nUIPending # nUISerial)
  /\ UNCHANGED <<sData, sPending, nSerial, nRequest, nLock, resets, audio>>

(* Without a new text sync() looks for a reset: check_reset_pending().     *)
ResetCheck ==
  /\ main.at = "check" /\ main' = MainIdle
  /\ nUISerial' = nUIPending
  /\ pData' = IF nUIPending # nUISerial THEN Default ELSE pData
  /\ UNCHANGED <<sData, sPending, nSerial, nRequest, nLock, nUIPending, known, audio, crossed>>

-----------------------------------------------------------------------------
(* The audio thread: string_t::sync() when it gets the lock, *)
SyncLock ==
  /\ audio = "idle" /\ nSerial # nRequest
  /\ nLock' = TRUE /\ audio' = "copy"
  /\ sData' = Torn
  /\ UNCHANGED <<sPending, nSerial, nRequest, resets, copy, main, crossed>>

SyncCopy ==
  /\ audio = "copy" /\ audio' = "store"
  /\ sData' = sPending
  /\ UNCHANGED <<sPending, nSerial, nRequest, nLock, resets, copy, main, crossed>>

SyncStore ==
  /\ audio = "store" /\ audio' = "idle"
  /\ nSerial' = nRequest /\ nLock' = FALSE
  /\ crossed' = (crossed \/ nUIPending # nUISerial)
  /\ UNCHANGED <<sData, sPending, nRequest, resets, copy, main>>

(* StringPort::set_default(), by ShmClient when another send took over *)
SetDefault ==
  /\ audio = "idle" /\ audio' = "reset"
  /\ nUIPending < MaxResets
  /\ sData' = Torn
  /\ UNCHANGED <<sPending, nSerial, nRequest, nLock, resets, copy, main, crossed>>

DefaultCopy ==
  /\ audio = "reset" /\ audio' = "raise"
  /\ sData' = Default
  /\ UNCHANGED <<sPending, nSerial, nRequest, nLock, resets, copy, main, crossed>>

(* Slip: the user interface is not told. *)
DefaultRaiseQuiet ==
  /\ audio = "raise" /\ audio' = "idle"
  /\ UNCHANGED <<sData, sPending, nSerial, nRequest, nLock, resets, copy, main, crossed>>

DefaultRaise ==
  /\ audio = "raise" /\ audio' = "idle"
  /\ nUIPending' = nUIPending + 1
  /\ UNCHANGED <<sData, sPending, nSerial, nRequest, nLock, nUISerial, copy, main, crossed>>

-----------------------------------------------------------------------------
Audio == SyncLock \/ SyncCopy \/ SyncStore \/ SetDefault \/ DefaultCopy \/ DefaultRaise
UiSync == FetchCheck \/ FetchCopy \/ ResetCheck
Main ==
  \/ \E text \in Text : Deserialize(text) \/ Write(text)
  \/ WriteSubmit \/ UiSync

Next == Audio \/ Main
Spec == Init /\ [][Next]_vars

-----------------------------------------------------------------------------
(* Neither thread is in a call, and each has seen what the other told it.  *)
Settled ==
  /\ audio = "idle" /\ main = MainIdle
  /\ known = nSerial /\ nUIPending = nUISerial

(* A user interface that has heard of everything shows the text the plugin *)
(* works with: no text is shown under the serial of another one, no copy   *)
(* is torn for good, no reset is missed.  The exception is a text that     *)
(* came into force while a reset was on the way: see TextShownAlways.      *)
TextShown == Settled /\ ~crossed => pData = sData

(* The same without the exception, which the code does not give: the user  *)
(* interface applies the reset to the newer text.                          *)
TextShownAlways == Settled => pData = sData
=============================================================================
