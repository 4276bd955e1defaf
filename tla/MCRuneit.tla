------------------------------ MODULE MCRuneit ------------------------------
(***************************************************************************)
(* Small instances of Runeit.  Two master keys, so that a key change has   *)
(* another key to change to; two salts, the smallest number with which a   *)
(* commit can choose a fresh one; one password, since it only has to differ *)
(* from an unused entry.  The other lines are those the prompts need:      *)
(* Enter alone, an id which is also a menu choice, "2" and "3".            *)
(***************************************************************************)
EXTENDS Runeit

CONSTANTS k1, k2, p1

MCMasterKeys == {k1, k2}
MCOneKey     == {k1}
MCSalts      == {0, 1}
MCPasswords  == {p1}
MCMenuLines  == {"enter", "1", "2", "3"}
MCOneId      == {"1"}
MCGenLines   == {"enter", "2", "3"}
MCGenId      == {"2"}
MCTwoIds     == {"1", "2"}
=============================================================================
