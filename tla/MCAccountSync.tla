---------------------------- MODULE MCAccountSync ----------------------------
(* AccountSync on small instances: a phone and a laptop, or two tabs of one   *)
(* browser.                                                                   *)
EXTENDS AccountSync, TLC

CONSTANTS phone, laptop, tab1, tab2, h1, h2

Op(id, type, holding, amount) ==
  [id |-> id, type |-> type, holding |-> holding, amount |-> amount]

Add == Op("add", "holding.added", h1, 2)
Less == Op("less", "holding.quantity-adjusted", h1, -1)
RemoveIt == Op("remove", "holding.removed", h1, 0)
AddOther == Op("other", "holding.added", h2, 1)

MCHoldings == {h1, h2}

\* Two devices with one tab each.
TwoDevices == {phone, laptop}
TwoTabs == {tab1, tab2}
OneEach == [t \in TwoTabs |-> IF t = tab1 THEN phone ELSE laptop]
\* Two tabs of one device.
OneDevice == {phone}
TabSymmetry == Permutations(TwoTabs)
Shared == [t \in TwoTabs |-> phone]

\* The laptop removes the holding the phone adjusts.
Racing == [d \in TwoDevices |-> IF d = phone THEN {Add, Less} ELSE {RemoveIt}]
RacingOps == {Add, Less, RemoveIt}

AddOnly == [d \in OneDevice |-> {Add}]
AddOp == {Add}
\* Each device edits holdings of its own.
Apart == [d \in TwoDevices |-> IF d = phone THEN {Add} ELSE {AddOther}]
ApartOps == {Add, AddOther}
=============================================================================
