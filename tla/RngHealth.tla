----------------------------- MODULE RngHealth -----------------------------
(***************************************************************************)
(* rng_health.c: the two continuous tests of one noise channel, on whole    *)
(* samples of the converter.                                               *)
(***************************************************************************)
EXTENDS Naturals

CONSTANTS
  Samples,    \* values of a sample, 12 bits
  RctCutoff,  \* RNG_HEALTH_RCT_CUTOFF
  AptWindow,  \* RNG_HEALTH_APT_WINDOW
  AptCutoff   \* RNG_HEALTH_APT_CUTOFF

ASSUME SamplesAssumption == Samples \subseteq Nat
ASSUME CutoffsAssumption == /\ RctCutoff \in Nat /\ RctCutoff > 1
                            /\ AptCutoff \in Nat /\ AptCutoff > 1
                            /\ AptWindow \in Nat /\ AptWindow > 1

Healths == [started : BOOLEAN, last : Nat, repeat : Nat, ref : Nat, match : Nat, pos : Nat]

RNG_Health_Init == [started |-> FALSE, last |-> 0, repeat |-> 0, ref |-> 0, match |-> 0, pos |-> 0]

\* what RNG_Health_Check leaves in the state: the sample that ends a window
\* is the reference of the next one, at position 0
RNG_Health_Next(h, x) ==
  IF ~h.started
    THEN [started |-> TRUE, last |-> x, repeat |-> 1, ref |-> x, match |-> 1, pos |-> 1]
    ELSE LET over == h.pos + 1 >= AptWindow
         IN  [started |-> TRUE,
              last    |-> x,
              repeat  |-> IF x = h.last THEN h.repeat + 1 ELSE 1,
              ref     |-> IF over THEN x ELSE h.ref,
              match   |-> IF over THEN 1 ELSE h.match + (IF x = h.ref THEN 1 ELSE 0),
              pos     |-> IF over THEN 0 ELSE h.pos + 1]

\* mutant: one repetition too many passes
RNG_Health_OkLate(h, x) ==
  h.started => ~ \/ x = h.last /\ h.repeat + 1 > RctCutoff
                 \/ x = h.ref /\ h.match + 1 >= AptCutoff

\* its verdict on the sample
RNG_Health_Ok(h, x) ==
  h.started => ~ \/ x = h.last /\ h.repeat + 1 >= RctCutoff
                 \/ x = h.ref /\ h.match + 1 >= AptCutoff
=============================================================================
