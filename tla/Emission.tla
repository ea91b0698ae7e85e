------------------------------ MODULE Emission ------------------------------
(***************************************************************************)
(* What controlled delivery promises, whatever the number of gateways and  *)
(* through crashes and restored databases: bytes leave through the writer  *)
(* only for chunks that were cleared before, a request is cleared for one  *)
(* chunk and released at most once, and the chunks cleared under a grant   *)
(* stay within its allowance.                                              *)
(***************************************************************************)
EXTENDS Naturals, Sequences, FiniteSets, FiniteSetsExt

CONSTANTS Chunks,     \* records with the fields grant, request and length
          Allowance   \* bytes that may be attempted under one grant

VARIABLES cleared,    \* chunks whose admission is retained
          released    \* requests whose bytes were given to the writer, in order

Attempted(chunks, g) ==
  MapThenSumSet(LAMBDA c : c.length, {c \in chunks : c.grant = g})

Init == cleared = {} /\ released = << >>

Clear(c) ==
  /\ \A d \in cleared : d.request # c.request
  /\ Attempted(cleared \cup {c}, c.grant) <= Allowance
  /\ cleared' = cleared \cup {c}
  /\ UNCHANGED released

Release(c) ==
  /\ c \in cleared /\ \A i \in DOMAIN released : released[i] # c.request
  /\ released' = Append(released, c.request)
  /\ UNCHANGED cleared

Next ==
  \/ \E c \in Chunks \cap cleared' : Clear(c)
  \/ \E c \in cleared : Release(c)

Spec == Init /\ [][Next]_<<cleared, released>>
=============================================================================
