------------------------------ MODULE AccountLog ------------------------------
(***************************************************************************)
(* What the service promises the devices of an account, whatever the       *)
(* tables, transactions and messages behind it: a log of distinct          *)
(* operations that always replays, that only grows while its generation    *)
(* lasts, and that a generation above every one ever issued replaces by an *)
(* empty one.                                                              *)
(***************************************************************************)
EXTENDS HoldingLog

CONSTANT Users

VARIABLES
  issued,      \* the highest generation ever issued
  generation,  \* the generation of each user, 0 without an account
  log          \* the operations of the user's generation

vars == <<issued, generation, log>>

Init ==
  /\ issued \in Nat
  /\ generation \in [Users -> {0, issued}]
  /\ log \in [Users -> Seq(Operations)]
  /\ \A u \in Users :
       /\ generation[u] = 0 => log[u] = <<>>
       /\ LegalFrom(log[u], 1)
       /\ \A i, j \in DOMAIN log[u] : log[u][i].id = log[u][j].id => i = j

\* New operations go to the end of the log, each after what makes it legal.
Extend(u) ==
  /\ generation[u] # 0
  /\ log'[u] \in Seq(Operations)
  /\ log' = [log EXCEPT ![u] = log'[u]]
  /\ Len(log'[u]) > Len(log[u])
  /\ SubSeq(log'[u], 1, Len(log[u])) = log[u]
  /\ LegalFrom(log'[u], Len(log[u]) + 1)
  /\ \A i, j \in DOMAIN log'[u] : log'[u][i].id = log'[u][j].id => i = j
  /\ UNCHANGED <<issued, generation>>

\* Deletion, expiry or first use: the user starts over in a generation nobody
\* had before.
Renew(u) ==
  /\ issued' \in Nat
  /\ issued' > issued
  /\ generation' = [generation EXCEPT ![u] = issued']
  /\ log' = [log EXCEPT ![u] = <<>>]

\* Retention: some accounts are removed.
Forget(P) ==
  /\ generation' = [u \in Users |-> IF u \in P THEN 0 ELSE generation[u]]
  /\ log' = [u \in Users |-> IF u \in P THEN <<>> ELSE log[u]]
  /\ UNCHANGED issued

Next ==
  \/ \E u \in Users : Extend(u) \/ Renew(u)
  \/ \E P \in SUBSET Users : Forget(P)

Spec == Init /\ [][Next]_vars

=============================================================================
