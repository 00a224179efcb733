------------------------ MODULE SyncCoordinatorProofs ------------------------
(* What holds of SyncCoordinator for any number of edits and deletions.       *)
EXTENDS SyncCoordinator, TLAPS

HonestInv == FieldsOK /\ StateIsHonest

\* A request keeps the coordinator's fields together, for every availability.
LEMMA RequestHonest ==
  ASSUME HonestInv, NEW immediate \in BOOLEAN,
         NEW availability \in {"ready", "offline", "disabled"},
         Request(immediate, availability)
  PROVE  /\ state' \in {"idle", "pending", "syncing", "synced", "offline",
                        "auth-required", "error"}
         /\ timer' \in {"none", "debounce", "retry"}
         /\ flight' \in {"none", "open", "reading", "read"}
         /\ running' \in BOOLEAN /\ rerun' \in BOOLEAN /\ aborted' \in BOOLEAN
         /\ failure' = failure
         /\ ~stopped => /\ state' = "syncing" <=> running'
                        /\ state' = "pending" <=> timer' = "debounce"
                        /\ running' => timer' = "none" /\ flight' # "none"
                        /\ timer' = "retry" => state' = "error"
BY DEF HonestInv, FieldsOK, StateIsHonest, Request, Run, PerformSync, Unavailable,
       coordinator

\* An availability is one of three.
LEMMA AvailabilityRange ==
  \A connected, selected \in BOOLEAN :
    AvailabilityWith(connected, selected) \in {"ready", "offline", "disabled"}
BY DEF AvailabilityWith

\* The coordinator's fields are consistent at the start.
LEMMA InitHonest == Init => HonestInv
BY DEF Init, HonestInv, FieldsOK, StateIsHonest, Outcomes

\* The end of a flight leaves a timer only beside an error.
LEMMA FlightHonest ==
  ASSUME HonestInv, NEW outcome \in Outcomes, FlightEnds(outcome)
  PROVE  HonestInv'
<1>1. CASE running /\ ~stopped
  <2>1. Settle(outcome) /\ aborted' = FALSE
        /\ UNCHANGED <<stopped, online, ready, suspended, known, announced,
                       dirty, counters>>
    BY <1>1 DEF FlightEnds
  <2>2. timer = "none"
    BY <1>1 DEF HonestInv, StateIsHonest
  <2>3. FieldsOK'
    BY <2>1 DEF HonestInv, FieldsOK, Settle, Fail, Unavailable, Outcomes
  <2>4. StateIsHonest'
    BY <1>1, <2>1, <2>2
    DEF HonestInv, StateIsHonest, FieldsOK, Settle, Fail, Unavailable
  <2>5. QED
    BY <2>3, <2>4 DEF HonestInv
<1>2. CASE ~(running /\ ~stopped)
  BY <1>2 DEF FlightEnds, HonestInv, FieldsOK, StateIsHonest
<1>3. QED
  BY <1>1, <1>2

\* Every step keeps the coordinator's fields consistent.
LEMMA StepHonest == HonestInv /\ [Next]_vars => HonestInv'
<1> SUFFICES ASSUME HonestInv, [Next]_vars PROVE HonestInv'
  OBVIOUS
<1> USE DEF HonestInv
<1>1. CASE TimerFires
  <2>1. Availability \in {"ready", "offline", "disabled"}
    BY AvailabilityRange DEF Availability, FieldsOK
  <2>2. FieldsOK'
    <3>1. CASE Availability = "ready"
      BY <1>1, <3>1 DEF TimerFires, Run, PerformSync, FieldsOK
    <3>2. CASE Availability # "ready"
      BY <1>1, <3>2 DEF TimerFires, Run, Unavailable, FieldsOK
    <3>3. QED
      BY <3>1, <3>2
  <2>3. StateIsHonest'
    BY <1>1, <2>1, SMTT(30)
    DEF TimerFires, Run, PerformSync, Unavailable, FieldsOK, StateIsHonest
  <2>4. QED
    BY <2>2, <2>3
<1>2. CASE Answered \/ LastRead
  <2>1. FieldsOK'
    BY <1>2 DEF Answered, LastRead, FieldsOK, coordinator
  <2>2. StateIsHonest'
    BY <1>2 DEF Answered, LastRead, StateIsHonest, coordinator
  <2>3. QED
    BY <2>1, <2>2
<1>3. ASSUME NEW outcome \in Outcomes, FlightEnds(outcome)
      PROVE  HonestInv'
  BY <1>3, FlightHonest
<1>4. CASE Edit
  BY <1>4 DEF Edit, FieldsOK, StateIsHonest, coordinator
<1>5. CASE Announce
  <2>1. CASE ready /\ Request(FALSE, Availability)
    BY <1>5, <2>1, RequestHonest, AvailabilityRange
    DEF Announce, Availability, FieldsOK, StateIsHonest
  <2>2. CASE UNCHANGED <<coordinator, flight, aborted>>
    <3>0. /\ announced' \in BOOLEAN
          /\ UNCHANGED <<stopped, online, ready, suspended, known, dirty>>
      BY <1>5 DEF Announce
    <3>1. FieldsOK'
      BY <2>2, <3>0 DEF FieldsOK, coordinator
    <3>2. StateIsHonest'
      BY <1>5, <2>2 DEF Announce, StateIsHonest, coordinator
    <3>3. QED
      BY <3>1, <3>2
  <2>3. QED
    BY <1>5, <2>1, <2>2 DEF Announce
<1>6. CASE Trigger
  BY <1>6, RequestHonest, AvailabilityRange
  DEF Trigger, Availability, FieldsOK, StateIsHonest
<1>7. CASE Connection
  <2>1. CASE ready /\ Request(~online, AvailabilityWith(~online, ready))
    BY <1>7, <2>1, RequestHonest, AvailabilityRange
    DEF Connection, FieldsOK, StateIsHonest
  <2>2. CASE UNCHANGED <<coordinator, flight, aborted>>
    BY <1>7, <2>2 DEF Connection, FieldsOK, StateIsHonest, coordinator
  <2>3. QED
    BY <1>7, <2>1, <2>2 DEF Connection
<1>8. CASE SignIn
  BY <1>8, RequestHonest, AvailabilityRange
  DEF SignIn, FieldsOK, StateIsHonest
<1>9. CASE SignOut
  <2>0. /\ aborted' \in BOOLEAN /\ ready' \in BOOLEAN
        /\ UNCHANGED <<coordinator, stopped, online, suspended, flight, known,
                       announced, dirty>>
    BY <1>9 DEF SignOut
  <2>1. FieldsOK'
    BY <2>0 DEF FieldsOK, coordinator
  <2>2. StateIsHonest'
    BY <1>9 DEF SignOut, StateIsHonest, coordinator
  <2>3. QED
    BY <2>1, <2>2
<1>10. CASE DirectSync
  BY <1>10 DEF DirectSync, PerformSync, FieldsOK, StateIsHonest, coordinator
<1>11. CASE BeginDelete
  BY <1>11 DEF BeginDelete, FieldsOK, StateIsHonest, coordinator
<1>12. CASE AbortForDelete
  BY <1>12 DEF AbortForDelete, FieldsOK, StateIsHonest, coordinator
<1>13. CASE EndDelete
  <2>0. /\ dirty' \in BOOLEAN /\ suspended' \in BOOLEAN
        /\ UNCHANGED <<coordinator, stopped, online, ready, flight, aborted, known,
                       announced>>
    BY <1>13, Zenon DEF EndDelete, FieldsOK
  <2>1. FieldsOK'
    BY <2>0 DEF FieldsOK, coordinator
  <2>2. StateIsHonest'
    BY <1>13 DEF EndDelete, StateIsHonest, coordinator
  <2>3. QED
    BY <2>1, <2>2
<1>14. CASE Stop
  BY <1>14 DEF Stop, FieldsOK, StateIsHonest
<1>15. CASE UNCHANGED vars
  BY <1>15 DEF vars, coordinator, FieldsOK, StateIsHonest
<1>16. QED
  BY <1>1, <1>2, <1>3, <1>4, <1>5, <1>6, <1>7, <1>8, <1>9, <1>10, <1>11, <1>12,
     <1>13, <1>14, <1>15 DEF Next, FlightStep

\* What the user is told is what is going on, in every reachable state.
THEOREM Honest == Spec => []StateIsHonest
<1>1. HonestInv => StateIsHonest
  BY DEF HonestInv
<1>2. QED
  BY <1>1, InitHonest, StepHonest, PTL DEF Spec

\* The bounds of the model are kept.
LEMMA StepCounts == CountsOK /\ [Next]_vars => CountsOK'
<1> SUFFICES ASSUME CountsOK, [Next]_vars PROVE CountsOK'
  OBVIOUS
<1> USE CountType DEF CountsOK, counters
<1>1. CASE UNCHANGED counters
  BY <1>1
<1>2. CASE Edit
  BY <1>2 DEF Edit
<1>3. CASE DirectSync
  BY <1>3 DEF DirectSync
<1>4. CASE BeginDelete
  BY <1>4 DEF BeginDelete
<1>5. QED
  BY <1>1, <1>2, <1>3, <1>4
  DEF Next, FlightStep, TimerFires, Answered, LastRead, FlightEnds, Announce,
      Trigger, Connection, SignIn, SignOut, AbortForDelete, EndDelete, Stop, vars

\* The coordinator's fields and App.svelte's variables keep their types.
THEOREM TypeCorrect == Spec => []TypeOK
<1>1. Init => CountsOK
  BY CountType DEF Init, CountsOK
<1>2. HonestInv /\ CountsOK => TypeOK
  BY DEF HonestInv, TypeOK
<1>3. QED
  BY <1>1, <1>2, InitHonest, StepHonest, StepCounts, PTL DEF Spec

-----------------------------------------------------------------------------
(* Stopping.                                                                 *)

\* A stopped coordinator is idle and has no timer.
Quiet == stopped => state = "idle" /\ timer = "none"

\* No step wakes a stopped coordinator.
LEMMA StoppedStep ==
  ASSUME Quiet, [Next]_vars, stopped
  PROVE  stopped' /\ state' = "idle" /\ timer' = "none" /\ (running' => running)
<1>1. CASE UNCHANGED <<coordinator, stopped>>
  BY <1>1 DEF Quiet, coordinator
<1>2. ASSUME NEW outcome, FlightEnds(outcome)
      PROVE  stopped' /\ UNCHANGED <<state, timer>> /\ ~running'
  BY <1>2 DEF FlightEnds
<1>3. ASSUME NEW immediate, NEW availability, Request(immediate, availability)
      PROVE  UNCHANGED coordinator
  BY <1>3 DEF Request
<1>4. ~TimerFires
  BY DEF TimerFires, Quiet
<1>5. ~Stop
  BY DEF Stop
<1>6. CASE Announce \/ Trigger \/ Connection \/ SignIn
  <2>1. stopped' = stopped
    BY <1>6 DEF Announce, Trigger, Connection, SignIn
  <2>2. UNCHANGED coordinator
    BY <1>3, <1>6 DEF Announce, Trigger, Connection, SignIn
  <2>3. QED
    BY <1>1, <2>1, <2>2
<1>7. QED
  BY <1>1, <1>2, <1>4, <1>5, <1>6
  DEF Next, FlightStep, Answered, LastRead, Edit, SignOut, DirectSync,
      BeginDelete, AbortForDelete, EndDelete, Quiet, vars

\* A stopped coordinator is idle and has no timer, always.
LEMMA QuietAlways == (Init => Quiet) /\ (Quiet /\ [Next]_vars => Quiet')
<1>1. Init => Quiet
  BY DEF Init, Quiet
<1>2. ASSUME Quiet, [Next]_vars, stopped PROVE Quiet'
  BY <1>2, StoppedStep DEF Quiet
<1>3. ASSUME Quiet, [Next]_vars, ~stopped PROVE Quiet'
  <2>1. CASE Stop
    BY <2>1 DEF Stop, Quiet
  <2>2. CASE ~Stop
    <3>1. ~stopped'
      BY <1>3, <2>2
      DEF Next, FlightStep, TimerFires, Answered, LastRead, FlightEnds, Edit,
          Announce, Trigger, Connection, SignIn, SignOut, DirectSync,
          BeginDelete, AbortForDelete, EndDelete, vars
    <3> QED
      BY <3>1 DEF Quiet
  <2> QED
    BY <2>1, <2>2
<1> QED
  BY <1>1, <1>2, <1>3

\* Once the application is closed nothing is scheduled and no sync begins.
THEOREM StopFinal == Spec => StopIsFinal
<1>1. Quiet /\ [Next]_vars =>
        [stopped => /\ state' = "idle" /\ timer' = "none"
                    /\ running' => running]_vars
  BY StoppedStep
<1> QED
  BY <1>1, QuietAlways, PTL DEF Spec, StopIsFinal

-----------------------------------------------------------------------------
(* Saving.  Without syncs of prepareMutation every flight is the             *)
(* coordinator's, and whatever was asked for during one is in rerun.         *)

SavedInv ==
  direct = 0 /\ ~stopped =>
    /\ flight # "none" => running
    /\ flight = "read" /\ ready /\ dirty => announced \/ rerun
    /\ state = "synced" /\ ready /\ dirty => announced

\* A request ends the state "synced", unless it is kept for the end of the flight.
LEMMA RequestSaves ==
  ASSUME HonestInv, NEW immediate, NEW availability, Request(immediate, availability),
         ~stopped, flight # "none" => running
  PROVE  /\ running => rerun' /\ UNCHANGED <<state, flight, running>>
         /\ ~running => state' # "synced" /\ flight' # "read"
         /\ flight' # "none" => running'
<1>1. CASE running
  BY <1>1 DEF Request, coordinator
<1>2. CASE ~running
  <2>1. CASE Run(availability)
    BY <1>2, <2>1 DEF Run, PerformSync, Unavailable
  <2>2. CASE timer = "retry" /\ UNCHANGED <<coordinator, flight, aborted>>
    BY <1>2, <2>2 DEF HonestInv, StateIsHonest, coordinator
  <2>3. CASE state' = "pending" /\ UNCHANGED <<running, flight>>
    BY <1>2, <2>3
  <2> QED
    BY <1>2, <2>1, <2>2, <2>3 DEF Request
<1> QED
  BY <1>1, <1>2

\* No step leaves an edit behind unannounced.
LEMMA StepSaves ==
  ASSUME HonestInv, CountsOK, SavedInv, [Next]_vars
  PROVE  SavedInv'
<1> SUFFICES ASSUME direct' = 0, ~stopped'
             PROVE  /\ flight' # "none" => running'
                    /\ flight' = "read" /\ ready' /\ dirty' => announced' \/ rerun'
                    /\ state' = "synced" /\ ready' /\ dirty' => announced'
  BY DEF SavedInv
<1>1. CASE DirectSync
  <2>1. direct \in Nat /\ direct' = direct + 1
    BY <1>1 DEF DirectSync, CountsOK
  <2> QED
    BY <2>1
<1>2. CASE Stop
  BY <1>2 DEF Stop
<1>3. ASSUME ~DirectSync, ~Stop
      PROVE  direct = 0 /\ ~stopped
  <2>1. CASE TimerFires \/ FlightStep
    BY <2>1 DEF FlightStep, TimerFires, Answered, LastRead, FlightEnds, counters
  <2>2. CASE Edit \/ BeginDelete
    BY <2>2 DEF Edit, BeginDelete
  <2>3. CASE Announce \/ Trigger \/ Connection \/ SignIn \/ SignOut
    <3>1. UNCHANGED <<stopped, counters>>
      BY <2>3, Zenon DEF Announce, Trigger, Connection, SignIn, SignOut
    <3> QED
      BY <3>1 DEF counters
  <2>4. CASE AbortForDelete \/ EndDelete \/ UNCHANGED vars
    <3>1. UNCHANGED <<stopped, counters>>
      BY <2>4, Zenon DEF AbortForDelete, EndDelete, vars
    <3> QED
      BY <3>1 DEF counters
  <2> QED
    BY <1>3, <2>1, <2>2, <2>3, <2>4 DEF Next
<1> SUFFICES ASSUME ~DirectSync, ~Stop, direct = 0, ~stopped
             PROVE  /\ flight' # "none" => running'
                    /\ flight' = "read" /\ ready' /\ dirty' => announced' \/ rerun'
                    /\ state' = "synced" /\ ready' /\ dirty' => announced'
  BY <1>1, <1>2, <1>3
<1>4. /\ flight # "none" => running
      /\ flight = "read" /\ ready /\ dirty => announced \/ rerun
      /\ state = "synced" /\ ready /\ dirty => announced
      /\ running => state = "syncing" /\ flight # "none"
  BY DEF SavedInv, HonestInv, StateIsHonest
<1>5. CASE TimerFires
  BY <1>4, <1>5 DEF TimerFires, Run, PerformSync, Unavailable, HonestInv, StateIsHonest
<1>6. CASE Answered \/ LastRead \/ Edit \/ SignOut \/ BeginDelete \/ AbortForDelete
           \/ UNCHANGED vars
  BY <1>4, <1>6
  DEF Answered, LastRead, Edit, SignOut, BeginDelete, AbortForDelete, coordinator, vars
<1>7. CASE EndDelete
  <2>1. dirty' = dirty \/ dirty' = FALSE
    BY <1>7, Zenon DEF EndDelete
  <2>2. UNCHANGED <<coordinator, ready, flight, announced>>
    BY <1>7, Zenon DEF EndDelete
  <2>3. dirty' => dirty
    BY <2>1
  <2> QED
    BY <1>4, <2>2, <2>3 DEF coordinator
<1>8. ASSUME NEW outcome \in Outcomes, FlightEnds(outcome)
      PROVE  /\ flight' # "none" => running'
             /\ flight' = "read" /\ ready' /\ dirty' => announced' \/ rerun'
             /\ state' = "synced" /\ ready' /\ dirty' => announced'
  <2>1. running /\ Settle(outcome) /\ Possible(outcome)
        /\ UNCHANGED <<ready, dirty, announced>>
    BY <1>4, <1>8 DEF FlightEnds
  <2>2. outcome = "ok" => flight = "read"
    BY <2>1 DEF Possible
  <2> QED
    BY <1>4, <2>1, <2>2 DEF Settle, Fail, Unavailable
<1>9. ASSUME NEW immediate, NEW availability, Request(immediate, availability)
      PROVE  /\ running => rerun' /\ UNCHANGED <<state, flight, running>>
             /\ ~running => state' # "synced" /\ flight' # "read"
             /\ flight' # "none" => running'
  BY <1>4, <1>9, RequestSaves
<1>10. CASE Announce \/ Trigger \/ Connection
  <2>1. ready' = ready /\ dirty' = dirty
    BY <1>10 DEF Announce, Trigger, Connection
  <2>2. CASE ~ready
    BY <1>4, <1>10, <2>1, <2>2 DEF Announce, Trigger, Connection, coordinator
  <2>3. CASE ready
    <3>1. \E immediate, availability : Request(immediate, availability)
      BY <1>10, <2>3 DEF Announce, Trigger, Connection
    <3> QED
      BY <1>4, <1>9, <2>1, <3>1
  <2> QED
    BY <2>2, <2>3
<1>11. CASE SignIn
  <2>1. ~running
    BY <1>4, <1>11 DEF SignIn
  <2>2. Request(TRUE, AvailabilityWith(online, TRUE))
    BY <1>11 DEF SignIn
  <2> QED
    BY <1>9, <2>1, <2>2
<1> QED
  BY <1>5, <1>6, <1>7, <1>8, <1>10, <1>11 DEF Next, FlightStep

\* "All changes are saved to your account" is true as long as no sync of
\* prepareMutation was joined.
THEOREM Saved == Spec => []SyncedMeansSaved
<1>1. Init => SavedInv /\ CountsOK
  BY CountType DEF Init, SavedInv, CountsOK
<1>2. Quiet /\ SavedInv => SyncedMeansSaved
  BY DEF Quiet, SavedInv, SyncedMeansSaved
<1> QED
  BY <1>1, <1>2, InitHonest, StepHonest, StepCounts, StepSaves, QuietAlways, PTL DEF Spec

=============================================================================
