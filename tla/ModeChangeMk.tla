---------------------------- MODULE ModeChangeMk ----------------------------
(***************************************************************************)
(* mode_change_mk.c: a new master key is typed twice, the table is loaded  *)
(* into s_work and committed again under the new key.                      *)
(***************************************************************************)
EXTENDS Session

CmFrame == UNCHANGED <<sesVars, fm, ma, rt, gn>>

\* Mode_ChangeMk_Enter: unlike the login screens it keeps what was typed ahead
CmEnter ==
  /\ Entering("CHANGE_MK")
  /\ cm' = CmWiped
  /\ screenGen' = gen
  /\ Goto("run")
  /\ CmFrame /\ UNCHANGED <<rx, appVars, callVars, storeVars>>

CmPrompt ==
  /\ \/ Running("CHANGE_MK") /\ cm.sub = "prompt" /\ Goto("cmPrompted") /\ UNCHANGED <<callVars, cm>>
     \/ pc = "cmPrompted" /\ cm' = [cm EXCEPT !.sub = "waitNew"] /\ EndPass
  /\ CmFrame /\ UNCHANGED <<rx, screenGen, appVars, storeVars>>

CmPoll ==
  /\ Running("CHANGE_MK") /\ cm.sub # "prompt"
  /\ \/ rx = None /\ EndPass /\ UNCHANGED rx
     \/ TakeLine /\ UNCHANGED <<derived, result>>
        /\ Goto(IF cm.sub = "waitNew" THEN "cmNew" ELSE "cmConfirm")
  /\ CmFrame /\ UNCHANGED <<screenGen, appVars, cm, storeVars>>

\* OnNewEntry
CmNew ==
  /\ \/ pc = "cmNew" /\ line = "enter" /\ Leave /\ UNCHANGED <<callVars, cm>>
     \/ pc = "cmNew" /\ line # "enter" /\ ~MkPolicyOk(line) /\ EndPass /\ UNCHANGED cm
     \/ /\ pc = "cmNew" /\ MkPolicyOk(line)
        /\ cm' = [cm EXCEPT !.new = line]
        /\ Goto("cmKept") /\ UNCHANGED callVars
     \/ pc = "cmKept" /\ cm' = [cm EXCEPT !.sub = "waitConfirm"] /\ EndPass
  /\ CmFrame /\ UNCHANGED <<rx, screenGen, appVars, storeVars>>

\* OnConfirmEntry: an empty line equals a wiped entry
CmMatch == line = cm.new \/ (line = "enter" /\ cm.new = None)

\* mutant: the table is not loaded before it is committed again
CmConfirmUnloaded ==
  /\ pc = "cmConfirm"
  /\ \/ CmMatch /\ Goto("snPolicy") /\ UNCHANGED <<callVars, cm>>
     \/ ~CmMatch /\ cm' = CmWiped /\ EndPass
  /\ CmFrame /\ UNCHANGED <<rx, screenGen, appVars, storeVars>>

CmConfirm ==
  /\ pc = "cmConfirm"
  /\ \/ CmMatch /\ Goto("ldKey") /\ UNCHANGED <<callVars, cm>>
     \/ ~CmMatch /\ cm' = CmWiped /\ EndPass
  /\ CmFrame /\ UNCHANGED <<rx, screenGen, appVars, storeVars>>

\* Apply after Session_LoadTable
CmLoaded ==
  /\ pc = "ldDone" /\ st = "CHANGE_MK"
  /\ \/ result = "ok" /\ Goto("snPolicy") /\ result' = None /\ UNCHANGED cm
     \/ result # "ok" /\ cm' = CmWiped /\ Leave /\ UNCHANGED result
  /\ Store!Return
  /\ CmFrame /\ UNCHANGED <<rx, screenGen, appVars, line, derived>>

\* mutant: no wipe after Apply
CmDoneUnwiped ==
  /\ pc = "snDone" /\ st = "CHANGE_MK"
  /\ Leave
  /\ Store!Return
  /\ CmFrame /\ UNCHANGED <<rx, screenGen, appVars, callVars, cm>>

\* Apply after Session_SetNewKey, and the wipe in OnConfirmEntry
CmDone ==
  /\ pc = "snDone" /\ st = "CHANGE_MK"
  /\ cm' = CmWiped
  /\ Leave
  /\ Store!Return
  /\ CmFrame /\ UNCHANGED <<rx, screenGen, appVars, callVars>>

ChangeMk == CmEnter \/ CmPrompt \/ CmPoll \/ CmNew \/ CmConfirm \/ CmLoaded \/ CmDone
=============================================================================
