------------------------------ MODULE HoldingLog ------------------------------
(***************************************************************************)
(* The collection as an event log.  An operation adds a holding, adjusts   *)
(* its quantity, updates or removes it; the server validates every log it  *)
(* stores against these rules (validateSyncOperationSemantics) and every   *)
(* device replays its own log by them.                                     *)
(***************************************************************************)
EXTENDS Integers, FiniteSets, Sequences

CONSTANTS
  Holdings,    \* holding identifiers
  Operations,  \* the operations clients submit, see OperationType
  MaxQuantity  \* MAX_HOLDING_QUANTITY

Kinds == {"holding.added", "holding.quantity-adjusted", "holding.updated",
          "holding.removed"}

ASSUME QuantityType == MaxQuantity \in Nat \ {0}

ASSUME OperationType ==
  \A op \in Operations :
    /\ op.type \in Kinds
    /\ op.holding \in Holdings
    /\ op.amount \in Int  \* quantity added, or delta of an adjustment

-----------------------------------------------------------------------------
(* What a holding is at a point of the log: NeverAdded, 0 once it is gone,  *)
(* else its quantity.                                                       *)

NeverAdded == -1

After(q, op) ==
  LET sum == q[op.holding] + op.amount
      value ==
        IF op.type = "holding.added"
        THEN IF op.amount \in 1..MaxQuantity THEN op.amount ELSE 0
        ELSE IF q[op.holding] <= 0 THEN q[op.holding]
        ELSE IF op.type = "holding.removed" THEN 0
        ELSE IF op.type = "holding.updated" THEN q[op.holding]
        ELSE IF sum \in 0..MaxQuantity THEN sum ELSE 0
  IN  [q EXCEPT ![op.holding] = value]

Legal(q, op) ==
  \/ /\ op.type = "holding.added"
     /\ q[op.holding] = NeverAdded
     /\ op.amount \in 1..MaxQuantity
  \/ /\ op.type = "holding.quantity-adjusted"
     /\ q[op.holding] > 0
     /\ op.amount # 0
     /\ q[op.holding] + op.amount \in 0..MaxQuantity
  \/ /\ op.type \in {"holding.updated", "holding.removed"}
     /\ q[op.holding] > 0

\* The quantities before each operation of a sequence, and after the last.
Quantities(ops) ==
  LET q[n \in 0..Len(ops)] ==
        IF n = 0 THEN [h \in Holdings |-> NeverAdded] ELSE After(q[n-1], ops[n])
  IN  q

\* Every operation from position first on is legal where it stands.
LegalFrom(ops, first) ==
  LET q == Quantities(ops)
  IN  \A n \in first..Len(ops) : Legal(q[n-1], ops[n])

-----------------------------------------------------------------------------
(* Rows carry the sequence number the server gave an operation.             *)

Rank(S, i) == Cardinality({j \in S : j <= i})

\* The operations of a set of rows, ORDER BY sequence.
OpsOf(rows) ==
  [n \in 1..Cardinality(rows) |->
     (CHOOSE row \in rows : Rank({r.seq : r \in rows}, row.seq) = n).op]

=============================================================================
