----------------------------- MODULE MCPresets -----------------------------
(* One run for the two sides of the preset state: what the user interface  *)
(* does with presets and with A and B (PresetManager), and how the state   *)
(* travels between it and the plugin (PresetExchange).  The initial state  *)
(* says which; the other variables then keep their first value.            *)
EXTENDS PresetManager, TLC

CONSTANTS
  Exchanged,          \* the names of presets that travel
  MaxActs, MaxCalls, a, f, u, w

VARIABLES
  side,
  format, ui, open, counted, type, force, lock, sPresetState, copy, pc, state, acts, calls

TwoSettings == {Default, a}
OneFactory == {f}
TwoUsers == {u, w}
MaxTogether == 3            \* of the user and the host, where messages cross
FactoryBetween == (u :> 1) @@ (f :> 2) @@ (w :> 3)

Exchange == INSTANCE PresetExchange WITH Preset <- Exchanged

ASSUME MCAssumption == Exchange!ExchangeConstants

exchangeVars ==
  <<format, ui, open, counted, type, force, lock, sPresetState, copy, pc, state, acts,
    calls>>
sumVars == <<side, vars, exchangeVars>>

(* The list of presets with one set of settings; or A and B with one user  *)
(* preset and wrappers that give nothing back.  The factory preset differs *)
(* from the default settings.                                              *)
ManagerNext ==
  \/ side = "list" /\ Next /\ nActivePresetData' = nActivePresetData /\ left' = left
  \/ side = "slots" /\ Next /\ w \notin vPresets' /\ ~echo'

SumInit ==
  /\ side \in {"list", "slots", "exchange"}
  /\ Init /\ Exchange!Init
  /\ side # "exchange" => format = "shared"
  /\ side = "slots" => w \notin vPresets
  /\ side # "exchange" => content[f] # Default
  /\ side = "exchange" => content = [p \in Preset |-> Default]

SumNext ==
  \/ ManagerNext /\ UNCHANGED <<side, exchangeVars>>
  \/ /\ side = "exchange" /\ Exchange!Next /\ UNCHANGED <<side, vars>>
     /\ format = "messages" => acts' + calls' <= MaxTogether

ManagerSpec == SumInit /\ side = "slots" /\ [][SumNext]_sumVars
SharedSpec ==
  SumInit /\ side = "exchange" /\ format = "shared" /\ [][SumNext]_sumVars
FairSpec == SumInit /\ [][SumNext]_sumVars /\ Exchange!Fairness

-----------------------------------------------------------------------------
(* The types of the exchange; TypeOK is that of the manager. *)
ExchangeTypeOK == Exchange!TypeOK

(* PresetExchange!NoneTorn: every state read was stored as a whole.        *)
NoneTorn == Exchange!NoneTorn

(* PresetExchange!Settled: in the end an open interface shows what the     *)
(* plugin holds.                                                           *)
Settled == Exchange!Settled

(* PresetExchange!ChoiceStands: the user's own earlier choice does not     *)
(* come back in place of a later one.                                      *)
ChoiceStands == Exchange!ChoiceStands
=============================================================================
