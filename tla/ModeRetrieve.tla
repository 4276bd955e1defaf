---------------------------- MODULE ModeRetrieve ----------------------------
(***************************************************************************)
(* mode_retrieve.c and the display half of password_table.c: the table is  *)
(* loaded into s_table when the mode is entered and stays there until the  *)
(* user leaves or a panic wipes it.                                        *)
(***************************************************************************)
EXTENDS Session

RtFrame == UNCHANGED <<sesVars, fm, ma, cm, gn>>

\* Mode_Retrieve_Enter up to Session_LoadTable
RtEnter ==
  /\ Entering("RETRIEVE")
  /\ rt' = [rt EXCEPT !.sub = "show"]
  /\ Goto("ldKey")
  /\ RtFrame /\ UNCHANGED <<rx, screenGen, appVars, callVars, storeVars>>

\* the rest of Mode_Retrieve_Enter; refused, App_Run goes back to INIT
RtLoaded ==
  /\ pc = "ldDone" /\ st = "RETRIEVE"
  /\ \/ result = "ok" /\ Goto("run") /\ UNCHANGED <<callVars, g, rt>>
     \/ result # "ok" /\ rt' = [rt EXCEPT !.table = EmptyTable] /\ g' = "INIT" /\ EndPass
  /\ Store!Return
  /\ RtFrame /\ UNCHANGED <<rx, screenGen, st, ent, prev>>

\* RETRIEVE_SUB_SHOW_TABLE
RtShow ==
  /\ Running("RETRIEVE") /\ rt.sub = "show"
  /\ rt' = [rt EXCEPT !.sub = "wait"]
  /\ EndPass
  /\ RtFrame /\ UNCHANGED <<rx, screenGen, appVars, storeVars>>

\* RETRIEVE_SUB_ID_WAIT: anything but a quit shows one entry, or an error
RtPoll ==
  /\ Running("RETRIEVE") /\ rt.sub = "wait"
  /\ \/ rx = None /\ EndPass /\ UNCHANGED rx
     \/ TakeLine /\ Goto("rtLine") /\ UNCHANGED <<derived, result>>
  /\ RtFrame /\ UNCHANGED <<screenGen, appVars, rt, storeVars>>

RtLine ==
  /\ pc = "rtLine"
  /\ \/ line \in {"enter", "q"} /\ rt' = [rt EXCEPT !.table = EmptyTable] /\ Leave /\ UNCHANGED callVars
     \/ line \notin {"enter", "q"} /\ EndPass /\ UNCHANGED rt
  /\ RtFrame /\ UNCHANGED <<rx, screenGen, appVars, storeVars>>

Retrieve == RtEnter \/ RtLoaded \/ RtShow \/ RtPoll \/ RtLine
=============================================================================
