--------------------------- MODULE ModeFirstMeet ----------------------------
(***************************************************************************)
(* mode_first_meet.c: the master key is typed twice on a device that has   *)
(* no partition yet.  Every Send may spin in USART_Drv_WaitTxReady, so a   *)
(* panic may come between what precedes it and what follows.               *)
(***************************************************************************)
EXTENDS Session

FmFrame == UNCHANGED <<sesVars, ma, cm, rt, gn, storeVars>>

\* Mode_FirstMeet_Enter
FmEnter ==
  /\ Entering("FIRST_MEET")
  /\ fm' = FmWiped
  /\ rx' = None
  /\ screenGen' = gen
  /\ Goto("run")
  /\ FmFrame /\ UNCHANGED <<appVars, callVars>>

\* FM_PROMPT: the text is sent, then the state is set
FmPrompt ==
  /\ \/ Running("FIRST_MEET") /\ fm.sub = "prompt" /\ Goto("fmPrompted") /\ UNCHANGED <<callVars, fm>>
     \/ pc = "fmPrompted" /\ fm' = [fm EXCEPT !.sub = "waitFirst"] /\ EndPass
  /\ FmFrame /\ UNCHANGED <<rx, screenGen, appVars>>

FmPoll ==
  /\ Running("FIRST_MEET") /\ fm.sub # "prompt"
  /\ \/ rx = None /\ EndPass /\ UNCHANGED rx
     \/ TakeLine /\ UNCHANGED <<derived, result>>
        /\ Goto(IF fm.sub = "waitFirst" THEN "fmFirst" ELSE "fmConfirm")
  /\ FmFrame /\ UNCHANGED <<screenGen, appVars, fm>>

\* OnFirstEntry
FmFirst ==
  /\ \/ pc = "fmFirst" /\ ~MkPolicyOk(line) /\ EndPass /\ UNCHANGED fm
     \/ /\ pc = "fmFirst" /\ MkPolicyOk(line)
        /\ fm' = [fm EXCEPT !.first = line]
        /\ Goto("fmKept") /\ UNCHANGED callVars
     \/ pc = "fmKept" /\ fm' = [fm EXCEPT !.sub = "waitConfirm"] /\ EndPass
  /\ FmFrame /\ UNCHANGED <<rx, screenGen, appVars>>

\* the comparison in OnConfirmEntry: an empty line equals a wiped first entry
FmMatch == line = fm.first \/ (line = "enter" /\ fm.first = None)

FmConfirm ==
  /\ pc = "fmConfirm"
  /\ \/ FmMatch /\ Goto("snPolicy") /\ UNCHANGED <<callVars, fm>>
     \/ ~FmMatch /\ fm' = FmWiped /\ EndPass
  /\ FmFrame /\ UNCHANGED <<rx, screenGen, appVars>>

\* OnConfirmEntry after Session_SetNewKey
FmDone ==
  /\ pc = "snDone" /\ st = "FIRST_MEET"
  /\ fm' = FmWiped
  /\ IF result = "ok" THEN Leave /\ UNCHANGED callVars ELSE EndPass
  /\ Store!Return
  /\ UNCHANGED <<rx, screenGen, appVars, sesVars, ma, cm, rt, gn>>

FirstMeet == FmEnter \/ FmPrompt \/ FmPoll \/ FmFirst \/ FmConfirm \/ FmDone
=============================================================================
