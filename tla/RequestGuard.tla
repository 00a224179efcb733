----------------------------- MODULE RequestGuard -----------------------------
(***************************************************************************)
(* CatalogueRequestGuard (server/catalog/guard.ts): a limit on requests at *)
(* a time, and limits per window for everybody and for each client.  The   *)
(* table of clients is bounded; the catalogue counts by address, the       *)
(* collection API by subject.                                              *)
(*                                                                         *)
(* A guard is a value; the operators say what a call makes of it.          *)
(***************************************************************************)
EXTENDS Integers, FiniteSets, Functions

CONSTANTS
  Clients,
  PerClient,      \* requests of a client in a window
  Global,         \* requests of everybody in a window
  MaxConcurrent,  \* requests at a time
  MaxTracked,     \* MAX_TRACKED_CLIENTS
  Window          \* WINDOW_MS

ASSUME GuardType ==
  \A n \in {PerClient, Global, MaxConcurrent, MaxTracked, Window} : n \in Nat \ {0}

\* When a window began, what was admitted in it; when a client was last seen.
Total == [start : Int, count : Nat]
Counter == [start : Int, count : Nat, seen : Int]

NewGuard ==
  [active |-> 0, global |-> [start |-> 0, count |-> 0], clients |-> <<>>]

\* Mutants: a window lasts one tick too long, or ends at once.
OverLate(counter, now) == now - counter.start > Window
WindowOver(counter, now) == now - counter.start >= Window \/ now < counter.start

\* currentWindow, of everybody and of a client.
GlobalWindow(guard, now) ==
  IF WindowOver(guard.global, now) THEN [start |-> now, count |-> 0] ELSE guard.global

ClientWindow(guard, client, now) ==
  IF client \notin DOMAIN guard.clients \/ WindowOver(guard.clients[client], now)
  THEN [start |-> now, count |-> 0, seen |-> now]
  ELSE guard.clients[client]

\* Mutant: nobody is forgotten.
KeepAll(guard, client, counter, now) ==
  {[k \in DOMAIN guard.clients \cup {client} |->
      IF k = client THEN counter ELSE guard.clients[k]]}

\* rememberClient: the tables there may be after it.  The one client too many
\* is one that was idle for a window, or else the one seen longest ago; which
\* of several is a matter of the Map's order.
Remember(guard, client, counter, now) ==
  LET table == [k \in DOMAIN guard.clients \cup {client} |->
                  IF k = client THEN counter ELSE guard.clients[k]]
      others == DOMAIN table \ {client}
      idle == {k \in others : now - table[k].seen >= Window}
      oldest == {k \in others : \A o \in others : table[k].seen <= table[o].seen}
  IN  IF Cardinality(DOMAIN table) <= MaxTracked THEN {table}
      ELSE {Restrict(table, DOMAIN table \ {k}) :
              k \in IF idle # {} THEN idle ELSE oldest}

\* enter: the guards there may be after it, whether the request may go on, and
\* else why not and when to come back.
Enter(guard, client, now) ==
  LET global == GlobalWindow(guard, now)
      counter == ClientWindow(guard, client, now)
      full == global.count >= Global
      limited == counter.count >= PerClient
      after(active, g, c) ==
        {[active |-> active, global |-> g, clients |-> table] :
           table \in Remember(guard, client, c, now)}
  IN  IF guard.active >= MaxConcurrent
      THEN [guards |-> {guard}, allowed |-> FALSE, reason |-> "concurrency",
            retryAt |-> now]
      ELSE IF full \/ limited
      THEN [guards |-> after(guard.active, global, [counter EXCEPT !.seen = now]),
            allowed |-> FALSE,
            reason |-> IF limited THEN "client" ELSE "global",
            retryAt |-> counter.start + Window]
      ELSE [guards |-> after(guard.active + 1,
                             [global EXCEPT !.count = @ + 1],
                             [counter EXCEPT !.count = @ + 1, !.seen = now]),
            allowed |-> TRUE, reason |-> "none", retryAt |-> now]

\* release, of n leases.
Release(guard, n) == [guard EXCEPT !.active = @ - n]

GuardOK(guard) ==
  /\ guard.active \in 0..MaxConcurrent
  /\ guard.global \in Total
  /\ DOMAIN guard.clients \subseteq Clients
  /\ Cardinality(DOMAIN guard.clients) <= MaxTracked
  /\ \A c \in DOMAIN guard.clients : guard.clients[c] \in Counter

=============================================================================
