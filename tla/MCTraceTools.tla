---------------------------- MODULE MCTraceTools ----------------------------
(***************************************************************************)
(* A small instance of TraceTools: every tool, one at a time, each with    *)
(* the operations its breakpoints are about.  Two keys, so that an entry   *)
(* can differ from the other; four entries and a window of three, so that  *)
(* the window is clamped; draws 0..3 for three characters, so that one draw is  *)
(* rejected.  The lines typed at the id prompt: an id, one with a space    *)
(* before it, an id too large, three digits, and two ways to leave.        *)
(***************************************************************************)
EXTENDS TraceTools

CONSTANTS k1, k2

MCKeys == {k1, k2}
MCTyped == {<<"3">>, <<" ", "1">>, <<"1", "2">>, <<"0", "0", "1">>, <<"q">>, <<>>}

MCUses ==
    [t \in AllTools |->
        CASE t \in {"mk_auth", "mk_auth_tui"}               -> {}
          [] t = "change_mk"                                -> {"first", "change", "generate"}
          [] t = "power_loss"                               -> {"change", "generate"}
          [] t = "other_change_mk"                          -> {"change"}
          [] t \in {"first_meet", "other_first_meet"}       -> {"first"}
          [] t \in {"retrieve", "other_retrieve"}           -> {"retrieve"}
          [] OTHER                                          -> {"generate"}]

MCPowerWords == {0, TableWords - 1}
=============================================================================
