---------------------------- MODULE Persistence ----------------------------
(***************************************************************************)
(* What the handlers of the back office share. A call of a handler has an  *)
(* entity manager of its own: it loads a row as a copy and as a base that  *)
(* the manager remembers, changes the copy, and a flush writes the columns *)
(* in which the copy differs from the base. Nothing locks a row, so calls  *)
(* interleave between any two of their queries.                            *)
(***************************************************************************)
EXTENDS Naturals

CONSTANTS
    Null,       (* a column without a value                                *)
    MaxCalls,   (* bound: calls of each component                          *)
    MaxFaults   (* bound: calls that fail half way                         *)

ASSUME PersistenceAssumption == MaxCalls \in Nat /\ MaxFaults \in Nat

(* Calls are numbered in the order they arrive.                            *)
Call == 1..MaxCalls

(* A flush after the copy of a row was assigned to the managed entity.     *)
WrittenWhole(row, base, copy) == copy
Written(row, base, copy) ==
    [k \in DOMAIN row |-> IF copy[k] = base[k] THEN row[k] ELSE copy[k]]

(* A query by anything but the primary key that meets a row the manager    *)
(* already has: fresh values replace the base, but null replaces nothing.  *)
Refreshed(base, row) ==
    [k \in DOMAIN row |-> IF row[k] = Null THEN base[k] ELSE row[k]]
=============================================================================
