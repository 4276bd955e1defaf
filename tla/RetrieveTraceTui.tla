-------------------------- MODULE RetrieveTraceTui --------------------------
(***************************************************************************)
(* tools/retrieve_trace_tui.py: the retrieval of an entry on a dashboard.  *)
(* The tool parses the id with a copy of its own of the firmware's ParseId *)
(* and shows the entry it finds in the table the firmware decrypted.       *)
(***************************************************************************)
EXTENDS TraceCommon, SequencesExt

FreshState ==
    [step |-> None, typed |-> None, valid |-> None, entry_id |-> None, g_state |-> None,
     s_authorized |-> None, session_key |-> None, active_sector |-> None,
     active_version |-> None, flash_a |-> None, flash_b |-> None, raw |-> None,
     dec |-> None, window_start |-> 0, window |-> None]

\* 331-334.
Breakpoints ==
    {Breakpoint("retEnter"), Breakpoint("ret34"), Breakpoint("ret80"), Breakpoint("ret88")}

\* A bug: any number of digits will do.
ParseIdLong(line) ==
    LET from == SelectInSeq(line, LAMBDA c : c # " ")
        rest == IF from = 0 THEN <<>> ELSE SubSeq(line, from, Len(line))
    IN  IF rest # <<>> /\ \A i \in 1..Len(rest) : rest[i] \in Digits
          THEN FoldLeft(LAMBDA v, c : 10 * v + Digit[c], 0, rest) ELSE Entries

\* The tool's own parse_id: spaces, digits, and the end of the line.
ParseIdCopy(line) ==
    LET spaces == SelectInSeq(line, LAMBDA c : c # " ")
        i      == IF spaces = 0 THEN Len(line) + 1 ELSE spaces
        rest   == SubSeq(line, i, Len(line))
        digits == LET n == SelectInSeq(rest, LAMBDA c : c \notin Digits)
                  IN  IF n = 0 THEN Len(rest) ELSE n - 1
        value  == FoldLeft(LAMBDA v, c : 10 * v + Digit[c], 0, SubSeq(rest, 1, digits))
    IN  IF digits = 0 \/ digits > 2 \/ digits # Len(rest) THEN Entries ELSE value

\* The entries around the id, clamped to the table.
WindowStartFor(id) ==
    LET half == WindowSize \div 2
        from == IF id < half THEN 0 ELSE id - half
    IN  IF id >= Entries THEN 0
        ELSE IF from > Entries - WindowSize THEN Entries - WindowSize ELSE from

ReadSession(d, x) ==
    [d EXCEPT !.g_state = x.g_state, !.s_authorized = x.s_authorized, !.session_key = x.s_key]

ReadFlash(d, x) ==
    [d EXCEPT !.active_sector = x.s_active, !.active_version = ActiveVersion(x),
              !.flash_a = ReadPartitionHeader(x, 2), !.flash_b = ReadPartitionHeader(x, 3)]

ReadWindow(d, x, id) ==
    LET start == WindowStartFor(id) IN
    [d EXCEPT !.window_start = start,
              !.window = ReadEntries(x, d.active_sector, start..start + WindowSize - 1)]

ReadEntry(d, x, id) ==
    [d EXCEPT !.raw = ReadEntries(x, d.active_sector, {id})[id], !.dec = x.table[id]]

HandleEnter(d, x) ==
    ReadFlash(ReadSession(Updated(d, [FreshState EXCEPT !.step = "menu"]), x), x)

\* The session is not read again here.
HandleDecrypted(d, x) == ReadFlash(d, x)

HandleInput(d, x) ==
    LET id    == ParseIdCopy(x.line)
        seen  == ReadFlash(ReadSession([d EXCEPT !.typed = x.line, !.entry_id = id,
                                                 !.valid = id < Entries, !.step = "input"],
                                       x), x)
        shown == ReadWindow(seen, x, id)
    IN  IF id < Entries THEN ReadEntry(shown, x, id) ELSE [shown EXCEPT !.raw = None]

\* A bug: the entry of line 80 is shown as the one printed.
HandleShownKept(d, x) == [d EXCEPT !.step = "shown"]

\* Nothing but the entry is read again.
HandleShown(d, x) ==
    LET shown == [d EXCEPT !.step = "shown"]
    IN  IF d.valid = TRUE THEN ReadEntry(shown, x, d.entry_id) ELSE shown

\* The first pause of an input waits for Enter, the others 0.2 s.
Handle(d, x) ==
    CASE x.loc = "retEnter" -> Paused(HandleEnter(d, x))
      [] x.loc = "ret34"    -> Paused(HandleDecrypted(d, x))
      [] x.loc = "ret80"    -> Paused(HandleInput(d, x))
      [] x.loc = "ret88"    -> Paused(HandleShown(d, x))

-----------------------------------------------------------------------------
\* A line of "q", or an empty one, is shown as an invalid id too.
PanelInput(d) ==
    [typed |-> d.typed, parsed |-> IF d.valid = TRUE THEN d.entry_id ELSE None,
     entry |-> IF d.step = "shown" /\ d.valid = TRUE THEN d.dec ELSE None]

PanelRam(d) ==
    IF d.raw = None THEN [raw |-> None, dec |-> None] ELSE [raw |-> d.raw, dec |-> d.dec]

\* s_authorized is gdb's text, "true" or "false", and always true of a string:
\* the key is shown, never "zeroed - no session yet".
PanelSession(d) ==
    [g_state |-> d.g_state, s_authorized |-> d.s_authorized, s_key |-> d.session_key]

\* active_sector is gdb's text and never equals the number 2: "[active]" is given
\* to the row of partition B, whichever is active.
PanelFlash(d) ==
    [marked |-> 3, flash_a |-> HeaderLine(d.flash_a), flash_b |-> HeaderLine(d.flash_b)]

PanelTable(d) ==
    IF d.window = None THEN [window |-> None, hot |-> None]
    ELSE [window |-> d.window, hot |-> IF d.valid = TRUE THEN d.entry_id ELSE None]

Render(d) ==
    [input |-> PanelInput(d), ram |-> PanelRam(d), session |-> PanelSession(d),
     flash |-> PanelFlash(d), table |-> PanelTable(d)]

\* The session panel is titled "live, every pause" at every step.  But
\* HandleDecrypted does not read the session, and HandleShown nothing but the
\* entry.
Live(d) == Updated(Render(d).session, Render(d).flash)
=============================================================================
