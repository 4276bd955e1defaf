--------------------------- MODULE OtherModesTrace ---------------------------
(***************************************************************************)
(* tools/other_modes_trace.py: four of the modes printed block by block,   *)
(* one armed per run of the tool.  d is the block on the terminal, and the *)
(* stash the tool keeps of the change of the key.                          *)
(***************************************************************************)
EXTENDS TraceCommon, SequencesExt

FreshState == [block |-> None, stash |-> None]

\* A block is printed whole; the stash is what remains of the blocks before.
Block(d, fields) == Updated(fields, [stash |-> d.stash])

\* The two entries of a key, compared as the firmware compares them.
Confirmed(d, x) ==
    Block(d, [block |-> "confirmed", first |-> x.s_new, second |-> x.line,
              verdict |-> (x.line = x.s_new /\ x.s_new # None), base |-> DumpBaseState(x)])

Computed(d, x) ==
    Block(d, [block |-> "computed", salt |-> x.salt, auth |-> x.derived, enc |-> x.derived,
              base |-> DumpBaseState(x)])

\* g_state before, a step over the assignment, g_state after.
Transition(d, x) == Block(d, [block |-> "stepping", before |-> x.g_state])
AfterTransition(d, x) ==
    Block(d, [block |-> "transition", before |-> d.before, after |-> x.g_state,
              base |-> DumpBaseState(x)])

-----------------------------------------------------------------------------
(* --mode first_meet                                                       *)

SetupFirstMeet ==
    {Breakpoint("first63"), OnlyIn("kdf78", "FIRST_MEET"), OnlyIn("session202", "FIRST_MEET"),
     Breakpoint("app153")}

FirstMeetBp1(d, x) == Confirmed(d, x)
FirstMeetBp2(d, x) == Computed(d, x)

\* "written to flash", whatever the commit returned.
FirstMeetBp3(d, x) ==
    Block(d, [block |-> "committed", salt |-> x.salt, auth |-> x.derived, enc |-> x.derived,
              base |-> DumpBaseState(x)])

FirstMeetBp4(d, x) == Transition(d, x)

HandleFirstMeet(d, x) ==
    CASE x.loc = "first63"    -> Paused(FirstMeetBp1(d, x))
      [] x.loc = "kdf78"      -> Paused(FirstMeetBp2(d, x))
      [] x.loc = "session202" -> Paused(FirstMeetBp3(d, x))
      [] x.loc = "app153"     -> Steps(FirstMeetBp4(d, x))

-----------------------------------------------------------------------------
(* --mode change_mk                                                        *)

SetupChangeMk ==
    {Breakpoint("change87"), Breakpoint("change66"), OnlyIn("kdf78", "CHANGE_MK"),
     OnlyIn("session202", "CHANGE_MK"), Breakpoint("app211")}

ChangeMkBp1(d, x) == Confirmed(d, x)

ChangeMkBp2(d, x) ==
    Block([d EXCEPT !.stash = x.s_key],
          [block |-> "before", old_key |-> x.s_key, entry0 |-> x.table[0],
           base |-> DumpBaseState(x)])

ChangeMkBp3(d, x) == Computed(d, x)

\* The key of the stash is printed as "retired" beside the new one.
ChangeMkBp4(d, x) ==
    Block(d, [block |-> "committed", retired |-> d.stash, salt |-> x.salt,
              auth |-> x.derived, enc |-> x.derived, base |-> DumpBaseState(x)])

ChangeMkBp5(d, x) == Transition(d, x)

HandleChangeMk(d, x) ==
    CASE x.loc = "change87"   -> Paused(ChangeMkBp1(d, x))
      [] x.loc = "change66"   -> Paused(ChangeMkBp2(d, x))
      [] x.loc = "kdf78"      -> Paused(ChangeMkBp3(d, x))
      [] x.loc = "session202" -> Paused(ChangeMkBp4(d, x))
      [] x.loc = "app211"     -> Steps(ChangeMkBp5(d, x))

-----------------------------------------------------------------------------
(* --mode retrieve                                                         *)

SetupRetrieve == {Breakpoint("retEnter"), Breakpoint("ret34"), Breakpoint("ret88")}

\* This tool's own copy of the firmware's ParseId.
ParseIdCopy(line) ==
    LET Number(i) == SubSeq(line, i + 1, Len(line))
        Fits(i)   == /\ \A j \in 1..i : line[j] = " "
                     /\ Len(Number(i)) \in 1..2
                     /\ \A j \in 1..Len(Number(i)) : Number(i)[j] \in Digits
    IN  IF \E i \in 0..Len(line) : Fits(i)
          THEN FoldLeft(LAMBDA v, c : 10 * v + Digit[c], 0,
                        Number(CHOOSE i \in 0..Len(line) : Fits(i)))
          ELSE Entries

RetrieveBp1(d, x) ==
    Block(d, [block |-> "ciphertext", sector |-> x.s_active, version |-> ActiveVersion(x),
              entry0 |-> ReadEntries(x, x.s_active, {0})[0], base |-> DumpBaseState(x)])

RetrieveBp2(d, x) ==
    Block(d, [block |-> "plaintext", entry0 |-> x.table[0], base |-> DumpBaseState(x)])

\* "exactly what the serial terminal just printed", unless the id is invalid.
RetrieveBp3(d, x) ==
    LET id == ParseIdCopy(x.line) IN
    Block(d, [block |-> "shown", typed |-> x.line, id |-> id,
              entry |-> IF id < Entries THEN x.table[id] ELSE None, base |-> DumpBaseState(x)])

HandleRetrieve(d, x) ==
    CASE x.loc = "retEnter" -> Paused(RetrieveBp1(d, x))
      [] x.loc = "ret34"    -> Paused(RetrieveBp2(d, x))
      [] x.loc = "ret88"    -> Paused(RetrieveBp3(d, x))

-----------------------------------------------------------------------------
(* --mode generate                                                         *)

SetupGenerate == {Breakpoint("gen370"), Breakpoint("gen386"), Breakpoint("gen424")}

\* Round 1 with a block and a pause; the later rounds scroll by on one line.
GenerateAbsorb(d, x, channel) ==
    Block(d, [block |-> IF x.rounds = 1 THEN "raw" ELSE "round", channel |-> channel,
              done |-> Len(x.pwd), base |-> DumpBaseState(x)])

GenerateBp1(d, x) == GenerateAbsorb(d, x, "temp")
GenerateBp2(d, x) == GenerateAbsorb(d, x, "light")

GenerateBp3(d, x) ==
    Block(d, [block |-> "saving", id |-> x.id, name |-> x.name, pwd |-> x.pwd])
AfterGenerateBp3(d, x) ==
    Block(d, [block |-> "saved", id |-> d.id, name |-> d.name, pwd |-> d.pwd,
              cipher |-> ReadEntries(x, x.s_active, {d.id})[d.id], base |-> DumpBaseState(x)])

HandleGenerate(d, x) ==
    CASE x.loc = "gen370" -> Paused(GenerateBp1(d, x))
      [] x.loc = "gen386" -> Paused(GenerateBp2(d, x))
      [] x.loc = "gen424" -> Steps(GenerateBp3(d, x))

-----------------------------------------------------------------------------
\* MODE_SETUP: one mode is armed per run of the tool.
Breakpoints(mode) ==
    CASE mode = "first_meet" -> SetupFirstMeet
      [] mode = "change_mk"  -> SetupChangeMk
      [] mode = "retrieve"   -> SetupRetrieve
      [] mode = "generate"   -> SetupGenerate

\* The loop of main().
Handle(mode, d, x) ==
    CASE mode = "first_meet" -> HandleFirstMeet(d, x)
      [] mode = "change_mk"  -> HandleChangeMk(d, x)
      [] mode = "retrieve"   -> HandleRetrieve(d, x)
      [] mode = "generate"   -> HandleGenerate(d, x)

HandleAfter(mode, d, x) ==
    IF mode = "generate" THEN AfterGenerateBp3(d, x) ELSE AfterTransition(d, x)

Live(d) == d.base
=============================================================================
