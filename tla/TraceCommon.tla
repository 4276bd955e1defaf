---------------------------- MODULE TraceCommon ----------------------------
(***************************************************************************)
(* tools/_gdb_trace_common.py: what the trace tools read of the board's    *)
(* memory.  A tool is modelled by pure operators: x is the memory it reads *)
(* (TracedBoard's m, while the core is halted), d the dictionary it keeps  *)
(* between two pauses, and each handler gives the dictionary it leaves.    *)
(***************************************************************************)
EXTENDS BoardMemory

\* read_partition_header: the status says nothing of the table.
HeaderStatus(p) ==
    CASE p.magic = "magic"  -> "valid"
      [] p.magic = "erased" -> "empty"
      [] OTHER              -> "INVALID"

ReadPartitionHeader(x, s) ==
    LET p == x.flash[s]
    IN [valid |-> HeaderStatus(p) = "valid", status |-> HeaderStatus(p),
        version |-> p.version, auth |-> p.auth]

\* A bug: the magic is taken for the whole check.
ReadPartitionMagicOk(x, s) == x.flash[s].magic = "magic"

\* read_partition_crc_ok: gdb has the firmware run its own check.
ReadPartitionCrcOk(x, s) == ValidateCrc(x.flash[s])

\* read_bytes of the entries ids of a partition: their ciphertext is told by
\* the plaintext and the key.
ReadEntries(x, s, ids) ==
    [i \in ids |-> IF s \in Sectors THEN <<x.flash[s].table[i], x.flash[s].auth>> ELSE None]

ActiveVersion(x) == IF x.s_active = 0 THEN 0 ELSE x.flash[x.s_active].version

\* dump_base_state: the block the plain-text tools print at every pause.
DumpBaseState(x) ==
    [g_state |-> x.g_state, s_authorized |-> x.s_authorized, s_key |-> x.s_key,
     active |-> x.s_active, have_active |-> x.s_active # 0, version |-> ActiveVersion(x),
     flash_a |-> ReadPartitionHeader(x, 2), flash_b |-> ReadPartitionHeader(x, 3)]

\* One line of a flash panel.
HeaderLine(hdr) == [valid |-> hdr.valid, version |-> hdr.version]

\* Are the values a screen shows as live those of the memory?  Of a header it
\* shows one line; not every tool shows every value.
IsLive(shown, x) ==
    /\ \A f \in {"g_state", "s_authorized", "s_key", "active"} \intersect DOMAIN shown :
        shown[f] = DumpBaseState(x)[f]
    /\ \A f \in {"flash_a", "flash_b"} \intersect DOMAIN shown :
        HeaderLine(shown[f]) = HeaderLine(DumpBaseState(x)[f])

\* What a handler leaves to the main loop: a pause (for Enter, or short), a
\* "next" to be run before the rest of it, a pause and then a "next", a hold
\* for the power cut, or an exception.
Paused(d)     == [d |-> d, then |-> "pause"]
Steps(d)      == [d |-> d, then |-> "next"]
PausesSteps(d) == [d |-> d, then |-> "pauseNext"]
Holds(d)      == [d |-> d, then |-> "hold"]
Raises(d)     == [d |-> d, then |-> "ended"]

\* dict.update(): the values of g where it has them, those of f elsewhere.
Updated(f, g) == [k \in DOMAIN f \union DOMAIN g |-> IF k \in DOMAIN g THEN g[k] ELSE f[k]]
=============================================================================
