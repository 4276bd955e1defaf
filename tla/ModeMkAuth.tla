----------------------------- MODULE ModeMkAuth -----------------------------
(***************************************************************************)
(* mode_mk_auth.c: the login screen of a device that has a partition.      *)
(***************************************************************************)
EXTENDS Session

MaFrame == UNCHANGED <<sesVars, fm, cm, rt, gn>>

\* Mode_MkAuth_Enter
MaEnter ==
  /\ Entering("MK_AUTH")
  /\ ma' = "prompt"
  /\ rx' = None
  /\ screenGen' = gen
  /\ Goto("run")
  /\ MaFrame /\ UNCHANGED <<appVars, callVars, storeVars>>

MaPrompt ==
  /\ \/ Running("MK_AUTH") /\ ma = "prompt" /\ Goto("maPrompted") /\ UNCHANGED <<callVars, ma>>
     \/ pc = "maPrompted" /\ ma' = "wait" /\ EndPass
  /\ MaFrame /\ UNCHANGED <<rx, screenGen, appVars, storeVars>>

MaPoll ==
  /\ Running("MK_AUTH") /\ ma = "wait"
  /\ \/ rx = None /\ EndPass /\ UNCHANGED rx
     \/ TakeLine /\ Goto("maCheck") /\ UNCHANGED <<derived, result>>
  /\ MaFrame /\ UNCHANGED <<screenGen, appVars, ma, storeVars>>

\* Check up to the call of Session_Authenticate
MaCheck ==
  /\ pc = "maCheck"
  /\ \/ line = "enter" /\ EndPass
     \/ line # "enter" /\ Goto("auStart") /\ UNCHANGED callVars
  /\ MaFrame /\ UNCHANGED <<rx, screenGen, appVars, ma, storeVars>>

\* the rest of Check, and what App_Run does with its status
MaDone ==
  /\ pc = "auDone"
  /\ \/ result = "ok" /\ Leave /\ UNCHANGED <<callVars, g, ma>>
     \/ result = "noPartition" /\ g' = "INIT" /\ EndPass /\ UNCHANGED ma
     \/ result = "cancelled" /\ ma' = "prompt" /\ EndPass /\ UNCHANGED g
     \/ result = "wrong" /\ EndPass /\ UNCHANGED <<g, ma>>
  /\ MaFrame /\ UNCHANGED <<rx, screenGen, st, ent, prev, storeVars>>

MkAuth == MaEnter \/ MaPrompt \/ MaPoll \/ MaCheck \/ MaDone
=============================================================================
