--------------------------- MODULE MkAuthTraceTui ---------------------------
(***************************************************************************)
(* tools/mk_auth_trace_tui.py: the login on a dashboard.  Its dictionary   *)
(* outlives the pauses, so that a value of an earlier attempt stays on the *)
(* screen until something overwrites or clears it.                         *)
(***************************************************************************)
EXTENDS TraceCommon

FreshState ==
    [highlight |-> None, hot_rows |-> {}, mk |-> None, salt |-> None, auth_computed |-> None,
     enc |-> None, auth_stored |-> None, verdict |-> None, result |-> None,
     g_state |-> None, s_key |-> None, s_authorized |-> None,
     transition_before |-> None, transition_after |-> None]

\* 355-359, as in the plain tool.
Breakpoints ==
    {Breakpoint("auth"), OnlyIn("kdf78", "MK_AUTH"), Breakpoint("session161"),
     Breakpoint("app167")}

\* The partitions are not in fresh_state(): an update() with it keeps them.
ReadPersistent(d, x) ==
    Updated(d, [g_state |-> x.g_state, s_key |-> x.s_key, s_authorized |-> x.s_authorized,
                active |-> x.s_active, flash_a |-> ReadPartitionHeader(x, 2),
                flash_b |-> ReadPartitionHeader(x, 3),
                entry0 |-> ReadEntries(x, x.s_active, {0})])

\* A new attempt clears all that was left of the one before it.
HandleBp1(d, x) ==
    ReadPersistent(Updated(d, [FreshState EXCEPT !.highlight = "typed", !.mk = x.mk]), x)

HandleBp2(d, x) ==
    ReadPersistent([d EXCEPT !.highlight = "computed", !.salt = x.salt,
                             !.auth_computed = x.derived, !.enc = x.derived], x)

HandleBp3(d, x) ==
    LET match == x.derived = x.flash[x.s_active].auth IN
    ReadPersistent([d EXCEPT !.highlight = "compared", !.auth_computed = x.derived,
                             !.auth_stored = x.flash[x.s_active].auth,
                             !.verdict = IF match THEN "MATCH" ELSE "MISMATCH",
                             !.result = x.result,
                             !.hot_rows = IF match THEN {"s_key", "s_authorized"} ELSE @], x)

HandleBp4(d, x) == [d EXCEPT !.transition_before = x.g_state]
AfterBp4(d, x) ==
    ReadPersistent([d EXCEPT !.highlight = "transition", !.hot_rows = {"g_state"},
                             !.transition_after = x.g_state], x)

Handle(d, x) ==
    CASE x.loc = "auth"       -> Paused(HandleBp1(d, x))
      [] x.loc = "kdf78"      -> Paused(HandleBp2(d, x))
      [] x.loc = "session161" -> Paused(HandleBp3(d, x))
      [] x.loc = "app167"     -> Steps(HandleBp4(d, x))

HandleAfter(d, x) == AfterBp4(d, x)

-----------------------------------------------------------------------------
(* The panels; None is the dash of a value not yet read.                   *)

BorderFor(d, name) == d.highlight = name

PanelTyped(d) == [mk |-> d.mk, live |-> BorderFor(d, "typed")]

PanelComputed(d) ==
    [salt |-> d.salt, auth |-> IF d.salt = None THEN None ELSE d.auth_computed,
     enc |-> IF d.salt = None THEN None ELSE d.enc, live |-> BorderFor(d, "computed")]

\* The two hashes byte by byte, in green where they agree.
DiffHex(a, b) == [bytes |-> a, green |-> a = b]

PanelCompared(d) ==
    IF d.auth_computed = None \/ d.auth_stored = None
      THEN [verdict |-> None, result |-> None]
      ELSE [computed |-> DiffHex(d.auth_computed, d.auth_stored),
            stored |-> DiffHex(d.auth_stored, d.auth_computed),
            verdict |-> d.verdict, result |-> d.result]

PanelSession(d) ==
    [g_state |-> d.g_state, s_key |-> d.s_key, s_authorized |-> d.s_authorized,
     transition |-> IF d.transition_after = None THEN None
                    ELSE <<d.transition_before, d.transition_after>>]

PanelFlash(d) ==
    [active |-> d.active, flash_a |-> HeaderLine(d.flash_a),
     flash_b |-> HeaderLine(d.flash_b), entry0 |-> d.entry0]

\* active_sector is gdb's text and never equals the number 3: the header is
\* that of A, under the addresses of the active partition.
PanelHeaderTable(d) == [header |-> d.flash_a, base |-> d.active]

Render(d) ==
    [typed |-> PanelTyped(d), computed |-> PanelComputed(d), compared |-> PanelCompared(d),
     session |-> PanelSession(d), flash |-> PanelFlash(d), header |-> PanelHeaderTable(d)]

Live(d) == Updated(Render(d).session, Render(d).flash)
=============================================================================
