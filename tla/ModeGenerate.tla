---------------------------- MODULE ModeGenerate ----------------------------
(***************************************************************************)
(* mode_generate.c: asks for id, name, character classes and length,       *)
(* samples the sensors until the password is complete, and saves table and *)
(* password in one critical section.                                       *)
(*                                                                         *)
(* Name and classes are not kept: the properties tell passwords apart, not *)
(* names.  A line that is a master key stands for any longer text: it has  *)
(* class letters in it and is accepted as a name.  The sampling states     *)
(* succeed or fail nondeterministically; a panic empties the pool, so that *)
(* nothing more is produced from it.                                       *)
(***************************************************************************)
EXTENDS Session

GnFrame == UNCHANGED <<sesVars, fm, ma, cm, rt>>

Prompts   == {"promptId", "promptName", "promptClasses", "promptLength"}
LineWaits == {"waitId", "waitOverwrite", "waitName", "waitClasses", "waitLength"}
Sampling  == {"startRound", "waitTemp", "waitLight"}

NameIsValid(l)  == l # "long"
HasClass(l)     == l \in MasterKeys
LengthIsValid(l) == l \in {"1", "2", "3"}

\* Mode_Generate_Enter up to Session_LoadTable
GnEnter ==
  /\ Entering("GENERATE")
  /\ gn' = [GnClear(gn) EXCEPT !.wiped = FALSE]
  /\ Goto("ldKey")
  /\ GnFrame /\ UNCHANGED <<rx, screenGen, appVars, callVars, storeVars>>

\* the rest of Mode_Generate_Enter
GnLoaded ==
  /\ pc = "ldDone" /\ st = "GENERATE"
  /\ gn' = [gn EXCEPT !.loaded = (result = "ok"), !.sub = "promptId"]
  /\ Goto("run")
  /\ line' = None /\ derived' = None /\ result' = None
  /\ Store!Return
  /\ GnFrame /\ UNCHANGED <<rx, screenGen, appVars>>

-----------------------------------------------------------------------------
(* Mode_Generate_Run. *)

MayRun == Running("GENERATE") /\ ~gn.wiped /\ gn.loaded

GnRefuse ==
  /\ Running("GENERATE") /\ (gn.wiped \/ ~gn.loaded)
  /\ Goto("gnEnd")
  /\ GnFrame /\ UNCHANGED <<rx, screenGen, appVars, callVars, gn, storeVars>>

GnPrompt ==
  /\ MayRun /\ gn.sub \in Prompts
  /\ gn' = [gn EXCEPT !.sub = CASE gn.sub = "promptId"      -> "waitId"
                                [] gn.sub = "promptName"    -> "waitName"
                                [] gn.sub = "promptClasses" -> "waitClasses"
                                [] gn.sub = "promptLength"  -> "waitLength"]
  /\ EndPass
  /\ GnFrame /\ UNCHANGED <<rx, screenGen, appVars, storeVars>>

GnPoll ==
  /\ MayRun /\ gn.sub \in LineWaits
  /\ \/ rx = None /\ EndPass /\ UNCHANGED rx
     \/ TakeLine /\ Goto("gnLine") /\ UNCHANGED <<derived, result>>
  /\ GnFrame /\ UNCHANGED <<screenGen, appVars, gn, storeVars>>

\* a line that ends the mode
Quits == \/ gn.sub # "waitOverwrite" /\ line = "enter"
         \/ gn.sub = "waitId" /\ line = "q"

\* HandleId, the overwrite question, HandleName, HandleClasses, HandleLength
NextSub ==
  CASE gn.sub = "waitId" /\ line \notin Ids               -> "promptId"
    [] gn.sub = "waitId" /\ line \in Ids                  ->
         IF gn.table[line] # None THEN "waitOverwrite" ELSE "promptName"
    [] gn.sub = "waitOverwrite"                           ->
         IF line = "y" THEN "promptName" ELSE "promptId"
    [] gn.sub = "waitName"                                ->
         IF NameIsValid(line) THEN "promptClasses" ELSE "promptName"
    [] gn.sub = "waitClasses"                             ->
         IF HasClass(line) THEN "promptLength" ELSE "promptClasses"
    [] gn.sub = "waitLength"                              ->
         IF LengthIsValid(line) THEN "startRound" ELSE "promptLength"

GnLine ==
  /\ pc = "gnLine"
  /\ \/ Quits /\ Goto("gnEnd") /\ UNCHANGED <<callVars, gn>>
     \/ /\ ~Quits
        /\ gn' = [gn EXCEPT !.sub = NextSub,
                            !.id = IF gn.sub = "waitId" /\ line \in Ids THEN line ELSE @]
        /\ EndPass
  /\ GnFrame /\ UNCHANGED <<rx, screenGen, appVars, storeVars>>

\* StepSampling: wait for a block, fail, start the next round, or complete
\* the password
GnSample ==
  /\ MayRun /\ gn.sub \in Sampling
  /\ \/ EndPass /\ UNCHANGED gn
     \/ Goto("gnEnd") /\ UNCHANGED <<callVars, gn>>
     \/ /\ gn' = [gn EXCEPT !.sub = CASE gn.sub = "startRound" -> "waitTemp"
                                      [] gn.sub = "waitTemp"   -> "waitLight"
                                      [] gn.sub = "waitLight"  -> "startRound"]
        /\ EndPass
     \/ /\ gn.sub = "startRound"
        /\ \E p \in Passwords : gn' = [gn EXCEPT !.sub = "save", !.pwd = p]
        /\ EndPass
  /\ GnFrame /\ UNCHANGED <<rx, screenGen, appVars, storeVars>>

GnSave ==
  /\ MayRun /\ gn.sub = "save"
  /\ Goto("gnSave")
  /\ GnFrame /\ UNCHANGED <<rx, screenGen, appVars, callVars, gn, storeVars>>

\* SaveEntry, from Critical_Enter to Session_Save's copy of the key
SaveEntry ==
  /\ pc = "gnSave"
  /\ \/ gn.wiped /\ result' = "wrong" /\ Goto("gnReport") /\ UNCHANGED <<derived, gn>>
     \/ /\ ~gn.wiped
        /\ gn' = [gn EXCEPT !.table[gn.id] = gn.pwd]
        /\ \/ /\ authd /\ cell # None
              /\ derived' = skey
              /\ Goto("gnCommit") /\ UNCHANGED result
           \/ /\ ~authd \/ cell = None
              /\ result' = "wrong" /\ Goto("gnReport")
              /\ UNCHANGED derived
  /\ GnFrame /\ UNCHANGED <<rx, screenGen, appVars, line, storeVars>>

\* Partition_Store_Commit up to its copy of the table.  The header keeps the
\* stored salt and auth value; the table is sealed with the session's key.
GnCommit ==
  /\ pc = "gnCommit"
  /\ Store!Request([key |-> derived, table |-> gn.table])
  /\ Goto("gnWrite")
  /\ GnFrame /\ UNCHANGED <<rx, screenGen, appVars, callVars, gn>>

GnWrite ==
  /\ pc = "gnWrite"
  /\ Store!Persist \/ UNCHANGED storeVars
  /\ Goto("gnVerify")
  /\ GnFrame /\ UNCHANGED <<rx, screenGen, appVars, callVars, gn>>

\* the read-back of the commit, then Critical_Exit
GnVerify ==
  /\ pc = "gnVerify"
  /\ Store!Answer
  /\ result' = IF answer' = "ok" THEN "ok" ELSE "storage"
  /\ Goto("gnReport")
  /\ GnFrame /\ UNCHANGED <<rx, screenGen, appVars, line, derived, gn>>

\* mutant: the password is shown whether or not it was saved
GnReportAlways ==
  /\ pc = "gnReport"
  /\ Goto("gnPrint")
  /\ Store!Return
  /\ GnFrame /\ UNCHANGED <<rx, screenGen, appVars, callVars, gn>>

GnReport ==
  /\ pc = "gnReport"
  /\ IF ~gn.wiped /\ result = "ok" THEN Goto("gnPrint") ELSE Goto("gnEnd")
  /\ Store!Return
  /\ GnFrame /\ UNCHANGED <<rx, screenGen, appVars, callVars, gn>>

\* "Saved as id ... Password: ..." is formatted from s_pwd and sent
GnPrint ==
  /\ pc = "gnPrint"
  /\ Goto("gnEnd")
  /\ GnFrame /\ UNCHANGED <<rx, screenGen, appVars, callVars, gn, storeVars>>

\* the end of Mode_Generate_Run when the mode is done
GnEnd ==
  /\ pc = "gnEnd"
  /\ gn' = GnClear(gn)
  /\ Leave
  /\ GnFrame /\ UNCHANGED <<rx, screenGen, appVars, callVars, storeVars>>

Generate == GnEnter \/ GnLoaded \/ GnRefuse \/ GnPrompt \/ GnPoll \/ GnLine \/ GnSample
            \/ GnSave \/ SaveEntry \/ GnCommit \/ GnWrite \/ GnVerify \/ GnReport \/ GnPrint \/ GnEnd
=============================================================================
