------------------------- MODULE FirstMeetTraceTui -------------------------
(***************************************************************************)
(* tools/first_meet_trace_tui.py: the first key of a blank board.  The     *)
(* dictionary is never cleared, and only partition A is looked at.         *)
(***************************************************************************)
EXTENDS TraceCommon

FreshState ==
    [step |-> None, first_entry |-> None, confirm_entry |-> None, verdict |-> None,
     salt |-> None, auth |-> None, enc |-> None, g_state |-> None, g_state_before |-> None,
     g_state_after |-> None, s_authorized |-> None, s_key |-> None, active |-> None,
     flash_a |-> None, flash_b |-> None, header_raw |-> None, entries |-> None]

\* 316-319.
Breakpoints ==
    {Breakpoint("first63"), Breakpoint("kdf78"), Breakpoint("session202"),
     Breakpoint("app153")}

ReadSession(d, x) ==
    [d EXCEPT !.g_state = x.g_state, !.s_authorized = x.s_authorized, !.s_key = x.s_key]

ReadFlash(d, x) ==
    LET a == ReadPartitionHeader(x, 2) IN
    [d EXCEPT !.flash_a = a, !.flash_b = ReadPartitionHeader(x, 3), !.header_raw = a,
              !.entries = ReadEntries(x, 2, 0..Entries - 1),
              !.active = IF a.valid THEN x.s_active ELSE @]

Read(d, x) == ReadFlash(ReadSession(d, x), x)

\* The same comparison as line 63: the lengths, then the bytes.
HandleConfirm(d, x) ==
    Read([d EXCEPT !.first_entry = x.s_new, !.confirm_entry = x.line,
                   !.verdict = (x.line = x.s_new /\ x.s_new # None),
                   !.step = "confirmed"], x)

HandleDerived(d, x) ==
    Read([d EXCEPT !.salt = x.salt, !.auth = x.derived, !.enc = x.derived,
                   !.step = "derived"], x)

HandleCommitted(d, x) == Read([d EXCEPT !.step = "committed"], x)

HandleTransition(d, x) == [d EXCEPT !.g_state_before = x.g_state]
AfterTransition(d, x) ==
    Read([d EXCEPT !.g_state_after = x.g_state, !.step = "transitioned"], x)

\* pause_or_fast: the first pause of each step waits for Enter, later ones 0.2 s.
PauseOrFast(d) == Paused(d)

Handle(d, x) ==
    CASE x.loc = "first63"    -> PauseOrFast(HandleConfirm(d, x))
      [] x.loc = "kdf78"      -> PauseOrFast(HandleDerived(d, x))
      [] x.loc = "session202" -> PauseOrFast(HandleCommitted(d, x))
      [] x.loc = "app153"     -> Steps(HandleTransition(d, x))

HandleAfter(d, x) == AfterTransition(d, x)

-----------------------------------------------------------------------------
PanelInput(d) ==
    [first |-> d.first_entry, confirm |-> d.confirm_entry,
     verdict |-> IF d.first_entry = None THEN None
                 ELSE IF d.verdict THEN "MATCH" ELSE "MISMATCH",
     live |-> d.step = "confirmed"]

\* "not written yet" for every header without the magic.
PanelFlashCompact(d) == [flash_a |-> HeaderLine(d.flash_a), flash_b |-> HeaderLine(d.flash_b)]

PanelDerive(d) ==
    [salt |-> d.salt, auth |-> d.auth, enc |-> d.enc,
     live |-> d.step \in {"derived", "committed", "transitioned"}]

\* s_authorized is gdb's text, "true" or "false", and always true of a string:
\* the key is shown, never "never held a value".
PanelSession(d) ==
    [g_state |-> d.g_state, s_authorized |-> d.s_authorized, s_key |-> d.s_key,
     transition |-> IF d.step = "transitioned" THEN <<d.g_state_before, d.g_state_after>>
                    ELSE None]

\* Both tables say "just written" as soon as A holds the magic.
Written(d) == d.flash_a.valid

PanelHeaderTable(d) == [header |-> d.header_raw, just_written |-> Written(d)]
PanelEntries(d) == [entries |-> d.entries, ciphertext |-> Written(d)]

Render(d) ==
    [input |-> PanelInput(d), flash |-> PanelFlashCompact(d), derive |-> PanelDerive(d),
     session |-> PanelSession(d), header |-> PanelHeaderTable(d),
     entries |-> PanelEntries(d)]

Live(d) == Updated(Render(d).session, Render(d).flash)
=============================================================================
