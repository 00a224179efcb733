----------------------------- MODULE MCCatalogue -----------------------------
(* Catalogue with three requests of two clients.                             *)
EXTENDS Catalogue, TLC

CONSTANTS pikachu, salameche, alice, bob, r1, r2, r3

MCRequests == {r1, r2, r3}
MCClients == {alice, bob}
MCCards == {pikachu, salameche}
MCCardIn == [l \in Languages |-> IF l = "en" THEN pikachu ELSE salameche]

\* Searches in both languages beside one in English, a card, and the card again.
MCAsking ==
  [r \in MCRequests |->
     CASE r = r1 -> {Languages, {"en"}}
       [] r = r2 -> {Languages, {pikachu}}
       [] r = r3 -> {{pikachu}}]

\* Only the primary limits its callers.
MCReplies == <<Exchanges, Exchanges \ {"429"}>>

MCClientOf == [r \in MCRequests |-> IF r = r2 THEN bob ELSE alice]

\* What both sources gave an earlier process: stale now, expired at time 1.
Old(key, detail) ==
  <<{1, 2}, key>> :> [source |-> 2, ids |-> IF key = "en" THEN {} ELSE {2}, at |-> -1,
                      detail |-> detail]
MCSaved == {Old("en", TRUE) @@ Old(pikachu, TRUE)}

\* Both sources, and the primary alone.
MCConfigurations == {{1, 2}, {1}}
=============================================================================
