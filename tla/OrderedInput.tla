---------------------------- MODULE OrderedInput ----------------------------
(***************************************************************************)
(* What a queue of input operations promises: what was accepted comes out  *)
(* in the order it went in, once, except that a pointer move may be left   *)
(* out for one that comes in.  A press, a release or a turn of the wheel   *)
(* is never left out, and no move overtakes one.                           *)
(***************************************************************************)
EXTENDS Sequences, SequencesExt

CONSTANTS
  Operations,   \* InputOperation
  Moves,        \* those that only move the pointer
  Capacity      \* how many it may hold

VARIABLE pending   \* accepted and not taken yet

OrderedInit == pending = <<>>

\* What may be left of it when another operation comes in.
Rest ==
  {pending} \cup {RemoveAt(pending, i) : i \in {j \in 1 .. Len(pending) : pending[j] \in Moves}}

Accept(operation) ==
  \E rest \in Rest : Len(rest) < Capacity /\ pending' = Append(rest, operation)

Take == pending # <<>> /\ pending' = Tail(pending)

OrderedNext == Take \/ \E operation \in Operations : Accept(operation)

OrderedSpec == OrderedInit /\ [][OrderedNext]_pending

=============================================================================
