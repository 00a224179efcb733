--------------------------- MODULE SyncCoordinator ---------------------------
(***************************************************************************)
(* When a tab synchronizes: the coordinator (lib/sync-coordinator.ts) and  *)
(* what App.svelte does around it.  App.svelte tells it of edits, of the   *)
(* browser's events and of the account, says whether a sync is possible,   *)
(* and runs it; performSync shares one flight between all its callers.     *)
(*                                                                         *)
(* A step is a JavaScript task: a request, a timer, or what becomes of a   *)
(* flight together with everything that waits for it.  Delays are left     *)
(* out: a timer that is set may fire at any time.                          *)
(***************************************************************************)
EXTENDS Integers

CONSTANTS
  MaxEdits,    \* bound of the model on edits
  MaxDirect,   \* bound of the model on syncs started by prepareMutation
  MaxDeletes   \* bound of the model on deletions

ASSUME CountType == MaxEdits \in Nat /\ MaxDirect \in Nat /\ MaxDeletes \in Nat

VARIABLES
  \* the coordinator
  state, running, rerun,
  timer,        \* scheduledKind
  stopped,
  \* App.svelte
  online,
  ready,        \* signed in, and the repository is on that subject
  suspended,    \* deleteCloud is in progress
  flight,       \* activeSync: "none", "open", "reading", or "read" once it
                \* found the queue empty for the last time
  aborted,      \* its controller
  known,        \* the account's generation is known
  announced,    \* an edit is committed, its scheduleSync is not called yet
  \* what happened
  dirty,        \* the queue is not empty
  failure,      \* how the last sync the coordinator ran ended
  edits, direct, deletes

coordinator == <<state, running, rerun, timer, failure>>
counters == <<edits, direct, deletes>>
vars == <<coordinator, stopped, online, ready, suspended, flight, aborted, known,
          announced, dirty, counters>>

Outcomes == {"ok", "retryable", "permanent", "unauthorized", "aborted"}

Init ==
  /\ state = "idle" /\ running = FALSE /\ rerun = FALSE /\ timer = "none"
  /\ stopped = FALSE
  /\ online \in BOOLEAN
  /\ ready = FALSE /\ suspended = FALSE
  /\ flight = "none" /\ aborted = FALSE
  /\ known \in BOOLEAN
  /\ announced = FALSE
  /\ dirty \in BOOLEAN /\ (dirty => known)
  /\ failure = "ok"
  /\ edits = 0 /\ direct = 0 /\ deletes = 0

\* availability(), which is never "auth-required": a subject that is gone is
\* not ready.
AvailabilityWith(connected, selected) ==
  IF suspended \/ ~selected THEN "disabled"
  ELSE IF connected THEN "ready" ELSE "offline"
Availability == AvailabilityWith(online, ready)

\* Mutant: an availability is taken for a state.
UnavailableAsIs(availability) == state' = availability

Unavailable(availability) ==
  state' = IF availability = "offline" THEN "offline" ELSE "idle"

\* performSync joins the flight there is.
PerformSync ==
  IF flight = "none" THEN flight' = "open" /\ aborted' = FALSE
  ELSE UNCHANGED <<flight, aborted>>

\* Mutant: the timer that was set is not cleared.
RunBesideTimer(availability) ==
  /\ UNCHANGED timer
  /\ IF availability = "ready"
     THEN /\ running' = TRUE /\ rerun' = FALSE /\ state' = "syncing"
          /\ PerformSync
     ELSE /\ Unavailable(availability)
          /\ UNCHANGED <<running, rerun, flight, aborted>>
  /\ UNCHANGED failure

\* run(), for an availability that may just have changed.
Run(availability) ==
  /\ timer' = "none"
  /\ IF availability = "ready"
     THEN /\ running' = TRUE /\ rerun' = FALSE /\ state' = "syncing"
          /\ PerformSync
     ELSE /\ Unavailable(availability)
          /\ UNCHANGED <<running, rerun, flight, aborted>>
  /\ UNCHANGED failure

\* Mutant: a request during a run is taken for granted.
RequestIgnoredDuringRun(immediate, availability) ==
  IF stopped \/ running \/ (~immediate /\ timer = "retry" /\ availability = "ready")
  THEN UNCHANGED <<coordinator, flight, aborted>>
  ELSE IF immediate \/ availability # "ready" THEN Run(availability)
  ELSE /\ timer' = "debounce" /\ state' = "pending"
       /\ UNCHANGED <<running, rerun, failure, flight, aborted>>

\* Mutant: stop is forgotten.
RequestAfterStop(immediate, availability) ==
  IF running \/ (~immediate /\ timer = "retry" /\ availability = "ready")
  THEN rerun' = running /\ UNCHANGED <<state, running, timer, failure, flight, aborted>>
  ELSE IF immediate \/ availability # "ready" THEN Run(availability)
  ELSE /\ timer' = "debounce" /\ state' = "pending"
       /\ UNCHANGED <<running, rerun, failure, flight, aborted>>

\* request().
Request(immediate, availability) ==
  \/ stopped /\ UNCHANGED <<coordinator, flight, aborted>>
  \/ /\ ~stopped /\ running
     /\ rerun' = TRUE
     /\ UNCHANGED <<state, running, timer, failure, flight, aborted>>
  \/ /\ ~stopped /\ ~running /\ (immediate \/ availability # "ready")
     /\ Run(availability)
  \/ /\ ~stopped /\ ~running /\ ~immediate /\ availability = "ready"
     /\ timer = "retry"
     /\ UNCHANGED <<coordinator, flight, aborted>>
  \/ /\ ~stopped /\ ~running /\ ~immediate /\ availability = "ready"
     /\ timer # "retry"
     /\ timer' = "debounce" /\ state' = "pending"
     /\ UNCHANGED <<running, rerun, failure, flight, aborted>>

TimerFires ==
  /\ timer # "none"
  /\ Run(Availability)
  /\ UNCHANGED <<stopped, online, ready, suspended, known, announced, dirty, counters>>

-----------------------------------------------------------------------------
(* A flight.  It reads the queue after every exchange and ends well when it  *)
(* is empty.                                                                *)

Answered ==
  /\ flight = "open" /\ ~aborted
  /\ flight' = "reading" /\ known' = TRUE
  /\ UNCHANGED <<coordinator, stopped, online, ready, suspended, aborted,
                 announced, dirty, counters>>

LastRead ==
  /\ flight = "reading"
  /\ flight' = "read" /\ dirty' = FALSE
  /\ UNCHANGED <<coordinator, stopped, online, ready, suspended, aborted, known,
                 announced, counters>>

\* Mutant: a failure that may pass is final.
FailWithoutRetry(outcome) ==
  /\ state' = IF outcome = "unauthorized" THEN "auth-required" ELSE "error"
  /\ timer' = "none"

Fail(outcome) ==
  /\ state' = IF outcome = "unauthorized" THEN "auth-required" ELSE "error"
  /\ timer' = IF outcome = "retryable" THEN "retry" ELSE "none"

\* The coordinator awaited this flight.
Settle(outcome) ==
  /\ failure' = outcome
  /\ rerun' = FALSE
  /\ \/ /\ outcome = "ok" /\ rerun /\ Availability = "ready"
        /\ flight' = "open"
        /\ UNCHANGED <<state, running, timer>>
     \/ /\ outcome = "ok" /\ rerun /\ Availability # "ready"
        /\ running' = FALSE /\ flight' = "none"
        /\ Unavailable(Availability)
        /\ UNCHANGED timer
     \/ /\ outcome = "ok" /\ ~rerun
        /\ running' = FALSE /\ flight' = "none" /\ state' = "synced"
        /\ UNCHANGED timer
     \/ /\ outcome # "ok"
        /\ running' = FALSE /\ flight' = "none"
        /\ Fail(outcome)

Possible(outcome) ==
  CASE outcome = "ok" -> flight = "read"
    [] outcome = "aborted" -> aborted
    [] OTHER -> flight \in {"open", "reading"} /\ ~aborted

FlightEnds(outcome) ==
  /\ flight # "none"
  /\ Possible(outcome)
  /\ aborted' = FALSE
  /\ IF running /\ ~stopped
     THEN Settle(outcome)
     ELSE /\ flight' = "none" /\ running' = FALSE
          /\ UNCHANGED <<state, rerun, timer, failure>>
  /\ UNCHANGED <<stopped, online, ready, suspended, known, announced, dirty, counters>>

-----------------------------------------------------------------------------
(* App.svelte.                                                              *)

\* add, adjustQuantity, update, remove: the transaction commits ...
Edit ==
  /\ edits < MaxEdits
  /\ ready /\ known /\ ~suspended
  /\ edits' = edits + 1
  /\ dirty' = TRUE /\ announced' = TRUE
  /\ UNCHANGED <<coordinator, stopped, online, ready, suspended, flight, aborted,
                 known, direct, deletes>>

\* ... and then scheduleSync.
Announce ==
  /\ announced
  /\ announced' = FALSE
  /\ IF ready THEN Request(FALSE, Availability)
     ELSE UNCHANGED <<coordinator, flight, aborted>>
  /\ UNCHANGED <<stopped, online, ready, suspended, known, dirty, counters>>

\* pageshow, visibilitychange, the button.
Trigger ==
  /\ ready
  /\ Request(TRUE, Availability)
  /\ UNCHANGED <<stopped, online, ready, suspended, known, announced, dirty, counters>>

\* setOnline.
Connection ==
  /\ online' = ~online
  /\ IF ready THEN Request(~online, AvailabilityWith(~online, ready))
     ELSE UNCHANGED <<coordinator, flight, aborted>>
  /\ UNCHANGED <<stopped, ready, suspended, known, announced, dirty, counters>>

\* observeAuthState.
SignIn ==
  /\ ~ready /\ flight = "none"
  /\ ready' = TRUE
  /\ Request(TRUE, AvailabilityWith(online, TRUE))
  /\ UNCHANGED <<stopped, online, suspended, known, announced, dirty, counters>>

SignOut ==
  /\ ready
  /\ ready' = FALSE
  /\ aborted' = (flight # "none")
  /\ UNCHANGED <<coordinator, stopped, online, suspended, flight, known, announced,
                 dirty, counters>>

\* prepareMutation waits for a sync of its own while no generation is known.
DirectSync ==
  /\ direct < MaxDirect
  /\ ready /\ ~known /\ online /\ ~suspended /\ flight = "none"
  /\ direct' = direct + 1
  /\ PerformSync
  /\ UNCHANGED <<coordinator, stopped, online, ready, suspended, known, announced,
                 dirty, edits, deletes>>

\* deleteCloud: syncs are suspended first, the flight is aborted once the lock
\* is taken.
BeginDelete ==
  /\ deletes < MaxDeletes
  /\ ready /\ ~suspended
  /\ suspended' = TRUE /\ deletes' = deletes + 1
  /\ UNCHANGED <<coordinator, stopped, online, ready, flight, aborted, known, announced,
                 dirty, edits, direct>>

AbortForDelete ==
  /\ suspended /\ flight # "none" /\ ~aborted
  /\ aborted' = TRUE
  /\ UNCHANGED <<coordinator, stopped, online, ready, suspended, flight, known, announced,
                 dirty, counters>>

\* The service deleted the collection and the device is cleared, or not; a deletion that
\* is refused its lock fails before it aborts the flight and waits for it.
EndDelete ==
  /\ suspended
  /\ suspended' = FALSE
  /\ \/ flight = "none" /\ ready /\ dirty' = FALSE
     \/ (flight = "none" \/ ~aborted) /\ UNCHANGED dirty
  /\ UNCHANGED <<coordinator, stopped, online, ready, flight, aborted, known, announced,
                 counters>>

\* The application is closed.
Stop ==
  /\ ~stopped
  /\ stopped' = TRUE
  /\ aborted' = (flight # "none")
  /\ state' = "idle" /\ rerun' = FALSE /\ timer' = "none"
  /\ UNCHANGED <<running, failure, online, ready, suspended, flight, known, announced,
                 dirty, counters>>

FlightStep == Answered \/ LastRead \/ \E outcome \in Outcomes : FlightEnds(outcome)

Next ==
  \/ TimerFires \/ FlightStep
  \/ Edit \/ Announce \/ Trigger \/ Connection \/ SignIn \/ SignOut
  \/ DirectSync \/ BeginDelete \/ AbortForDelete \/ EndDelete \/ Stop

Spec == Init /\ [][Next]_vars

\* Timers fire, code that was called goes on, requests end (DEFAULT_SYNC_TIMEOUT_MS);
\* a service that is reached again and again answers in the end.
Fairness ==
  /\ WF_vars(TimerFires) /\ WF_vars(Announce) /\ WF_vars(FlightStep)
  /\ WF_vars(AbortForDelete) /\ WF_vars(EndDelete)
  /\ SF_vars(Answered) /\ SF_vars(LastRead)

FairSpec == Spec /\ Fairness

-----------------------------------------------------------------------------
\* Type invariant: the fields of SyncCoordinator and the variables of
\* App.svelte hold what their types allow.
FieldsOK ==
  /\ state \in {"idle", "pending", "syncing", "synced", "offline",
                "auth-required", "error"}
  /\ timer \in {"none", "debounce", "retry"}
  /\ flight \in {"none", "open", "reading", "read"}
  /\ failure \in Outcomes
  /\ running \in BOOLEAN /\ rerun \in BOOLEAN /\ stopped \in BOOLEAN
  /\ online \in BOOLEAN /\ ready \in BOOLEAN /\ suspended \in BOOLEAN
  /\ aborted \in BOOLEAN /\ known \in BOOLEAN
  /\ announced \in BOOLEAN /\ dirty \in BOOLEAN
CountsOK ==
  edits \in 0..MaxEdits /\ direct \in 0..MaxDirect /\ deletes \in 0..MaxDeletes
TypeOK == FieldsOK /\ CountsOK

\* What the user is told is what is going on: a saving state has a sync behind
\* it, a waiting one a timer, and nothing is scheduled beside a sync (request,
\* run and handleFailure keep state, running and scheduledKind together).
StateIsHonest ==
  ~stopped => /\ state = "syncing" <=> running
              /\ state = "pending" <=> timer = "debounce"
              /\ running => timer = "none" /\ flight # "none"
              /\ timer = "retry" => state = "error"

\* "All changes are saved to your account": no edit is left in the queue but one
\* whose request is about to be made (the rerun of run()).  A sync of prepareMutation
\* breaks that: performSync joins its flight, which may be past the queue.
SyncedMeansSaved ==
  (state = "synced" /\ ready /\ direct = 0) => (~dirty \/ announced)

\* After stop no timer is set, the state stays idle and no sync is begun
\* (stop, and the tests of stopped in request, run and schedule).
StopIsFinal ==
  [][stopped => /\ state' = "idle" /\ timer' = "none"
                /\ running' => running]_vars

\* Changes are saved automatically: an edit in the queue is saved, or the last
\* sync ended for good, or no sync is possible.  Nor is it saved once a deletion was
\* tried, or a sync of prepareMutation: what is asked for meanwhile is dropped.
Excused ==
  stopped \/ Availability # "ready" \/ deletes > 0 \/ direct > 0
  \/ failure \in {"permanent", "unauthorized", "aborted"}
ChangesAreSaved == (dirty /\ ~announced) ~> (~dirty \/ Excused)

=============================================================================
