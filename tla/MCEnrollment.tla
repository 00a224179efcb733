----------------------------- MODULE MCEnrollment -----------------------------
(* Enrollment in one browser and two accounts, or in two tabs.               *)
EXTENDS Enrollment, TLC

CONSTANTS ann, bob, tab1, tab2, theirs

Both == {ann, bob}
Ann == {ann}
OneTab == {tab1}
TwoTabs == {tab1, tab2}
One == {1}
Three == 1..3
Theirs == {theirs}
=============================================================================
