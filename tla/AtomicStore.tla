---------------------------- MODULE AtomicStore ----------------------------
(***************************************************************************)
(* What the partition store promises to the rest of the firmware: ONE      *)
(* durable cell that holds a password table and the key it is sealed with. *)
(* A commit replaces the cell in one step, or leaves it alone and says so; *)
(* a power loss at any moment leaves the old content or the new one.       *)
(*                                                                         *)
(* PartitionStore, the model of partition_store.c, implements this module; *)
(* Runeit, the model of the main loop, is built on top of it.              *)
(***************************************************************************)

CONSTANTS
  Keys,    \* what seals a table: auth value and cipher key of one derivation
  Tables,  \* the password tables
  None     \* nothing stored, nothing pending, nothing returned: no content and no table

Contents == [key : Keys, table : Tables]

VARIABLES
  cell,     \* the durable content, None on a device that holds nothing yet
  pending,  \* the content a running commit was asked to store, else None
  applied,  \* the running commit has reached the durable cell
  answer,   \* the result of the last commit
  loaded    \* the result of the last load, None when it was refused

vars == <<cell, pending, applied, answer, loaded>>

TypeOK == /\ cell \in Contents \cup {None}
          /\ pending \in Contents \cup {None}
          /\ applied \in BOOLEAN
          /\ answer \in {"ok", "failed", None}
          /\ loaded \in Tables \cup {None}

Init == /\ cell = None
        /\ pending = None
        /\ applied = FALSE
        /\ answer = None
        /\ loaded = None

Request(c) == /\ pending = None
              /\ pending' = c
              /\ applied' = FALSE
              /\ UNCHANGED <<cell, answer, loaded>>

Persist == /\ pending # None
           /\ ~applied
           /\ cell' = pending
           /\ applied' = TRUE
           /\ UNCHANGED <<pending, answer, loaded>>

Answer == /\ pending # None
          /\ answer' = IF applied THEN "ok" ELSE "failed"
          /\ pending' = None
          /\ applied' = FALSE
          /\ UNCHANGED <<cell, loaded>>

Load(k) == /\ pending = None
           /\ loaded' = IF cell # None /\ cell.key = k THEN cell.table ELSE None
           /\ UNCHANGED <<cell, pending, applied, answer>>

\* the caller has used the results
Return == /\ answer' = None
          /\ loaded' = None
          /\ UNCHANGED <<cell, pending, applied>>

PowerLoss == /\ pending' = None
             /\ applied' = FALSE
             /\ answer' = None
             /\ loaded' = None
             /\ UNCHANGED cell

Next == \/ \E c \in Contents : Request(c)
        \/ Persist
        \/ Answer
        \/ \E k \in Keys : Load(k)
        \/ Return
        \/ PowerLoss

Spec == Init /\ [][Next]_vars
=============================================================================
