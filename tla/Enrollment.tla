------------------------------ MODULE Enrollment ------------------------------
(***************************************************************************)
(* The collection made before an account existed: which domain of          *)
(* IndexedDB an event belongs to (lib/db.ts), how sign-in adopts anonymous  *)
(* events, uploads them only to an empty account, and finds out after a     *)
(* lost answer, a restart or another device's writes what became of them    *)
(* (App.svelte, lib/auth.ts).                                               *)
(*                                                                         *)
(* The tabs of one browser share its IndexedDB and its localStorage.  Every *)
(* transaction a decision depends on, every message and every reload is a   *)
(* step; the transactions that record one response are one step here, and   *)
(* AccountSync takes them apart.  A response holds the whole log.           *)
(***************************************************************************)
EXTENDS Integers, FiniteSetsExt, SequencesExt

CONSTANTS
  Subjects,
  Tabs,
  Events,      \* numbers: the order in which this browser makes them
  Others,      \* events of other devices
  BatchSize,
  MaxActs      \* bound of the model on sign-ins, deletions, lost answers and reloads

\* What stands where an account or a tab may.
Anonymous == "anonymous"
Nobody == "nobody"        \* no subject, no tab
Unborn == "unborn"
Gone == "gone"

ASSUME EnrollmentType ==
  /\ Events \subseteq Nat /\ Events \cap Others = {}
  /\ IsFiniteSet(Subjects)
  /\ {Anonymous, Nobody, Unborn, Gone} \cap Subjects = {} /\ Nobody \notin Tabs
  /\ BatchSize \in Nat \ {0} /\ MaxActs \in Nat

VARIABLES
  \* the service
  issued, epoch, log,
  \* IndexedDB
  owner,       \* "sync-owner:": the domain of an event
  acked,       \* events with an acknowledgement of their account
  generation,
  record,      \* "enrollment": the claim that is not acknowledged yet
  lock,        \* "mutation-lock"
  \* localStorage
  intent,      \* enrollmentIntentKey
  \* per tab
  subject,     \* selectedAuthSubject, and the domain the repository shows
  session,     \* performSync in progress
  prompt,      \* enrollmentState is merge-required
  dismissed,   \* dismissedEnrollmentSubject
  adding,      \* the domain add() captured
  deletion,    \* deleteCloud in progress
  requests,
  acts,
  home,        \* history: the domain an event was made in
  slipped,     \* history: events added to an account after its tab had left it
  adopted      \* history: who claimed it, and how

service == <<issued, epoch, log>>
account == <<owner, acked, generation, record>>
user == <<subject, dismissed>>
history == <<home, slipped, adopted>>
vars == <<service, account, lock, intent, user, session, prompt, adding, deletion,
          requests, acts, history>>

Unknown == 0
NoRecord == [claimed |-> {}, attempted |-> {}]
NotAdopted == [by |-> Nobody, merged |-> FALSE]
NoDeletion == [pc |-> "none", claimed |-> {}, reply |-> Unknown]

\* A field keeps what it starts with until its session comes to need it.
Idle ==
  [pc |-> "idle", subject |-> Nobody, nested |-> FALSE, aborted |-> FALSE,
   use |-> "plain", first |-> TRUE, claim |-> NoRecord, enrolling |-> Unknown,
   probing |-> FALSE, sent |-> {}, generation |-> Unknown, reply |-> Unknown,
   rows |-> {}, next |-> Unknown, cause |-> "none"]

\* A record where some fields have other values.
With(old, fields) ==
  [f \in DOMAIN old |-> IF f \in DOMAIN fields THEN fields[f] ELSE old[f]]

All == Events \cup Others
OwnedBy(d) == {e \in All : owner[e] = d}
Unsynced(s) == OwnedBy(s) \ acked

\* Mutant: the queue is read without regard to the owner.
BatchOfAll(s) ==
  LET pending == {e \in Events : owner[e] \in {s, Anonymous}} \ acked
  IN  {e \in pending : Cardinality({o \in pending : o < e}) < BatchSize}

\* The first unacknowledged events, which are made here, in order.
Batch(s) ==
  {e \in Unsynced(s) : Cardinality({o \in Unsynced(s) : o < e}) < BatchSize}

Init ==
  /\ issued = 0
  /\ epoch = [s \in Subjects |-> Unknown]
  /\ log = [s \in Subjects |-> {}]
  /\ owner = [e \in All |-> Unborn]
  /\ acked = {}
  /\ generation = [s \in Subjects |-> Unknown]
  /\ record = [s \in Subjects |-> NoRecord]
  /\ lock = [s \in Subjects |-> Nobody]
  /\ intent = FALSE
  /\ subject = [t \in Tabs |-> Nobody]
  /\ session = [t \in Tabs |-> Idle]
  /\ prompt = [t \in Tabs |-> FALSE]
  /\ dismissed = [t \in Tabs |-> Nobody]
  /\ adding = [t \in Tabs |-> Nobody]
  /\ deletion = [t \in Tabs |-> NoDeletion]
  /\ requests = {}
  /\ acts = 0
  /\ home = [e \in All |-> Unborn]
  /\ slipped = {}
  /\ adopted = [e \in All |-> NotAdopted]

-----------------------------------------------------------------------------
(* What a transaction checks.  A tab that signed out meanwhile has no active *)
(* subject: most operations refuse, and the lock is not looked at.          *)

Active(t, s) == subject[t] = s
\* assertMutationAllowed, where the owner of the lock is let through or not.
FreeFor(t, owners) ==
  subject[t] # Nobody => lock[subject[t]] \in {Nobody} \cup owners

-----------------------------------------------------------------------------
(* Sessions.                                                                *)

\* deleteCloud gives up when the sync it waits for fails by itself.
End(t, outcome) ==
  /\ session' = [session EXCEPT ![t] = Idle]
  /\ IF deletion[t].pc = "drain" /\ outcome = "failed"
     THEN /\ deletion' = [deletion EXCEPT ![t] = NoDeletion]
          /\ lock' = [s \in Subjects |-> IF lock[s] = t THEN Nobody ELSE lock[s]]
     ELSE UNCHANGED <<deletion, lock>>

Move(t, fields) ==
  /\ session' = [session EXCEPT ![t] = With(@, fields)]
  /\ UNCHANGED <<deletion, lock>>

Send(t, ops, guarded) ==
  requests' = requests \cup
    {[kind |-> "sync", tab |-> t, subject |-> session[t].subject, ops |-> ops,
      generation |-> session'[t].generation, guarded |-> guarded]}

\* performSync, which the coordinator asks for when a tab is signed in.
StartSync(t) ==
  /\ session[t].pc = "idle" /\ deletion[t].pc = "none"
  /\ subject[t] # Nobody
  /\ Move(t, [pc |-> "record", subject |-> subject[t], nested |-> FALSE,
              aborted |-> FALSE])
  /\ UNCHANGED <<service, account, intent, user, prompt, adding, requests, acts,
                 history>>

\* Mutant: a claim is resumed by its own session only.
ReadRecordOnce(t) ==
  LET s == session[t].subject
      pending == record[s]
  IN
  /\ session[t].pc = "record"
  /\ \/ /\ pending = NoRecord /\ ~session[t].nested
        /\ Move(t, [pc |-> "read", use |-> "plain", first |-> TRUE])
     \/ /\ pending # NoRecord /\ session[t].nested
        /\ Move(t, [pc |-> "read", use |-> "guarded", first |-> TRUE, claim |-> pending,
                    enrolling |-> generation[s]])
     \/ /\ session[t].nested = (pending = NoRecord)
        /\ End(t, "failed")
  /\ UNCHANGED <<service, account, intent, user, prompt, adding, requests, acts,
                 history>>

\* resumePendingEnrollment: nothing to resume, the outcome of an attempt to find
\* out, or a claim that was never sent.
ReadRecord(t) ==
  LET s == session[t].subject
      pending == record[s]
  IN
  /\ session[t].pc = "record"
  /\ \/ /\ pending = NoRecord /\ session[t].nested
        /\ End(t, "ok")
     \/ /\ pending = NoRecord /\ ~session[t].nested
        /\ Move(t, [pc |-> "read", use |-> "plain", first |-> TRUE])
     \/ /\ pending # NoRecord /\ ~Active(t, s)
        /\ End(t, "failed")
     \/ /\ pending # NoRecord /\ Active(t, s)
        /\ Move(t, [pc |-> IF pending.attempted = {} THEN "read" ELSE "probe",
                    use |-> "guarded", first |-> TRUE, claim |-> pending,
                    enrolling |-> generation[s]])
  /\ UNCHANGED <<service, account, intent, user, prompt, adding, requests, acts,
                 history>>

\* probePendingEnrollment pulls the account from its beginning.
Probe(t) ==
  /\ session[t].pc = "probe"
  /\ IF session[t].aborted \/ generation[session[t].subject] = Unknown
     THEN End(t, "failed") /\ UNCHANGED requests
     ELSE /\ Move(t, [pc |-> "wait", probing |-> TRUE, sent |-> {},
                      generation |-> generation[session[t].subject]])
          /\ Send(t, {}, FALSE)
  /\ UNCHANGED <<service, account, intent, user, prompt, adding, acts, history>>

\* What follows synchronizeAccountGeneration.
Finish(t) ==
  LET use == session[t].use
  IN
  /\ intent' = (intent /\ use = "plain")
  /\ prompt' = [prompt EXCEPT ![t] = IF use = "restored" THEN TRUE ELSE @]
  /\ IF session[t].nested THEN End(t, "ok") ELSE Move(t, [pc |-> "reconcile"])

\* synchronizeAccountGeneration reads the queue; a guarded write is noted first.
ReadQueue(t) ==
  LET s == session[t].subject
      known == IF session[t].first THEN generation[s] ELSE session[t].generation
      queue == IF Active(t, s) THEN Batch(s) ELSE {}
      ops == IF known = Unknown THEN {} ELSE queue
      guarded == session[t].use = "guarded" /\ ops # {}
  IN
  /\ session[t].pc = "read"
  /\ \/ /\ ~session[t].first /\ queue = {}
        /\ Finish(t)
        /\ UNCHANGED requests
     \/ /\ session[t].first \/ queue # {}
        /\ (known = Unknown /\ queue # {}) \/ session[t].aborted
        /\ End(t, IF known = Unknown /\ queue # {} THEN "failed" ELSE "aborted")
        /\ UNCHANGED <<intent, prompt, requests>>
     \/ /\ session[t].first \/ queue # {}
        /\ known # Unknown \/ queue = {}
        /\ ~session[t].aborted
        /\ Move(t, [pc |-> IF guarded THEN "attempt" ELSE "wait", probing |-> FALSE,
                    sent |-> ops, generation |-> known, first |-> FALSE])
        /\ IF guarded THEN UNCHANGED requests ELSE Send(t, ops, FALSE)
        /\ UNCHANGED <<intent, prompt>>
  /\ UNCHANGED <<service, account, user, adding, acts, history>>

\* "Enrollment retry batch changed before acknowledgement".
Unchanged(t) ==
  record[session[t].subject].attempted \in {{}, session[t].sent}

\* setPendingEnrollmentAttempt, and the guarded write.
Attempt(t) ==
  LET s == session[t].subject
      allowed == FreeFor(t, {}) /\ record[s] # NoRecord /\ Unchanged(t)
  IN
  /\ session[t].pc = "attempt"
  /\ record' = IF allowed THEN [record EXCEPT ![s].attempted = session[t].sent]
               ELSE record
  /\ IF allowed /\ ~session[t].aborted
     THEN Move(t, [pc |-> "wait"]) /\ Send(t, session[t].sent, TRUE)
     ELSE End(t, IF allowed THEN "aborted" ELSE "failed") /\ UNCHANGED requests
  /\ UNCHANGED <<service, owner, acked, generation, intent, user, prompt, adding, acts,
                 history>>

-----------------------------------------------------------------------------
(* The service.                                                             *)

Deliver(request, response) ==
  session' = IF request.tab = Nobody THEN session
             ELSE [session EXCEPT ![request.tab] = With(@, response)]

\* A tab stops waiting; the service may still get the request.
Abandoned(t) == {IF r.tab = t THEN [r EXCEPT !.tab = Nobody] ELSE r : r \in requests}

Log(s) == [pc |-> "apply", reply |-> epoch[s]', rows |-> log[s]']

\* An account without a generation gets one; a request with another is refused.
ServeEpoch(request) ==
  LET s == request.subject
  IN
  /\ \/ epoch[s] = Unknown /\ issued' = issued + 1
     \/ epoch[s] \notin {Unknown, request.generation} /\ request.generation # Unknown
        /\ UNCHANGED issued
  /\ epoch' = [epoch EXCEPT ![s] = IF @ = Unknown THEN issued' ELSE @]
  /\ UNCHANGED log
  /\ Deliver(request, IF request.generation = Unknown THEN Log(s)
                      ELSE [pc |-> "mismatch", reply |-> epoch'[s]])

\* SyncEnrollmentConflictError.
Conflicts(request) ==
  /\ request.guarded
  /\ log[request.subject] # {} /\ ~(request.ops \subseteq log[request.subject])

ServeBatch(request) ==
  LET s == request.subject
  IN
  /\ epoch[s] # Unknown /\ request.generation \in {Unknown, epoch[s]}
  /\ UNCHANGED <<issued, epoch>>
  /\ IF Conflicts(request)
     THEN Deliver(request, [pc |-> "conflict"]) /\ UNCHANGED log
     ELSE /\ log' = [log EXCEPT ![s] = @ \cup request.ops]
          /\ Deliver(request, Log(s))

Serve(request) ==
  /\ request.kind = "sync"
  /\ requests' = requests \ {request}
  /\ ServeEpoch(request) \/ ServeBatch(request)
  /\ UNCHANGED <<account, lock, intent, user, prompt, adding, deletion, acts, history>>

-----------------------------------------------------------------------------
(* Recording a response.                                                    *)

\* assertSyncGeneration, setSyncGeneration's expectedCurrent.
Fenced(t) == generation[session[t].subject] # session[t].generation

\* "Collection event collides with another account domain".
Collides(t) ==
  \E e \in session[t].rows : owner[e] \notin {Unborn, Gone, session[t].subject}

Recorded(t) ==
  LET s == session[t].subject
  IN  /\ generation' = [generation EXCEPT ![s] = session[t].reply]
      /\ owner' = [e \in All |-> IF e \in session[t].rows THEN s ELSE owner[e]]
      /\ acked' = acked \cup session[t].rows \cup session[t].sent

\* What the probe says about the batch that was tried.
Verdict(t) ==
  LET tried == session[t].claim.attempted
      found == tried \cap session[t].rows
  IN  IF found = tried THEN "accepted"
      ELSE IF found # {} THEN "partial"
      ELSE IF session[t].rows = {} THEN "empty" ELSE "conflict"

\* Where the session goes on once a response is recorded.
After(t) ==
  IF ~session[t].probing
  THEN [pc |-> IF session[t].use = "guarded" /\ session[t].sent # {}
               THEN "complete" ELSE "read", generation |-> session[t].reply]
  ELSE IF Verdict(t) = "conflict"
  THEN [pc |-> "restore", next |-> Unknown, cause |-> "probe"]
  ELSE [pc |-> IF Verdict(t) = "accepted" THEN "complete" ELSE "read", first |-> TRUE]

Apply(t) ==
  LET s == session[t].subject
  IN
  /\ session[t].pc = "apply"
  /\ ~Fenced(t) /\ FreeFor(t, {})
  /\ session[t].rows \cup session[t].sent # {} => Active(t, s) /\ ~Collides(t)
  /\ Recorded(t)
  /\ IF session[t].probing /\ Verdict(t) = "partial" THEN End(t, "failed")
     ELSE Move(t, After(t))
  /\ UNCHANGED <<service, record, intent, user, prompt, adding, requests, acts, history>>

\* A transaction of the tab that is locked out, switched away or in conflict; the
\* generation may be set by then.
CannotApply(t) ==
  LET s == session[t].subject
  IN
  /\ session[t].pc = "apply"
  /\ ~Fenced(t)
  /\ \/ ~FreeFor(t, {})
     \/ session[t].rows \cup session[t].sent # {} /\ (~Active(t, s) \/ Collides(t))
  /\ generation' = IF FreeFor(t, {t})
                   THEN [generation EXCEPT ![s] = session[t].reply] ELSE generation
  /\ End(t, "failed")
  /\ UNCHANGED <<service, owner, acked, record, intent, user, prompt, adding, requests,
                 acts, history>>

\* completePendingEnrollment: the service has the first batch, and the rest follows
\* without a guard.
Complete(t) ==
  LET s == session[t].subject
  IN
  /\ session[t].pc = "complete"
  /\ IF FreeFor(t, {})
     THEN /\ record' = [record EXCEPT ![s] = NoRecord]
          /\ intent' = (intent /\ ~session[t].probing)
          /\ Move(t, [pc |-> "read", use |-> "after", probing |-> FALSE])
     ELSE End(t, "failed") /\ UNCHANGED <<record, intent>>
  /\ UNCHANGED <<service, owner, acked, generation, user, prompt, adding, requests, acts,
                 history>>

-----------------------------------------------------------------------------
(* When the account is not what the enrollment began with.                  *)

\* A 409, or a transaction fenced by another generation.
Changed(t) ==
  LET s == session[t].subject
      next == IF session[t].pc = "mismatch" THEN session[t].reply ELSE generation[s]
      fields == IF session[t].use = "plain"
                THEN [pc |-> "clear", reply |-> next]
                ELSE [pc |-> "restore", next |-> next, cause |-> "generation"]
  IN
  /\ session[t].pc = "mismatch" \/ (session[t].pc = "apply" /\ Fenced(t))
  /\ IF \/ session[t].use = "restored" \/ next = Unknown
        \/ session[t].use = "plain" /\ session[t].pc = "apply"
     THEN End(t, "failed")
     ELSE Move(t, fields)
  /\ UNCHANGED <<service, account, intent, user, prompt, adding, requests, acts, history>>

\* sync_enrollment_conflict.
Conflict(t) ==
  /\ session[t].pc = "conflict"
  /\ Move(t, [pc |-> "restore", next |-> Unknown, cause |-> "conflict"])
  /\ UNCHANGED <<service, account, intent, user, prompt, adding, requests, acts, history>>

\* returnClaimedEventsToAnonymous.
Returned(s, claimed) ==
  IF record[s] = NoRecord THEN UNCHANGED <<owner, acked, record, adopted>>
  ELSE LET back == claimed \cap OwnedBy(s)
       IN  /\ owner' = [e \in All |-> IF e \in back THEN Anonymous ELSE owner[e]]
           /\ acked' = acked \ back
           /\ record' = [record EXCEPT ![s] = NoRecord]
           /\ adopted' = [e \in All |-> IF e \in back THEN NotAdopted ELSE adopted[e]]

MayReturn(s, claimed) == record[s] = NoRecord \/ record[s].claimed = claimed

\* Where the session goes on, by what it found.
Resumed == [generation |-> "replace", probe |-> "reconcile", conflict |-> "read"]

\* restoreMergeChoice.
Restore(t) ==
  LET s == session[t].subject
      claimed == session[t].claim.claimed
      cause == session[t].cause
  IN
  /\ session[t].pc = "restore"
  /\ IF Active(t, s) /\ FreeFor(t, {}) /\ MayReturn(s, claimed)
     THEN /\ Returned(s, claimed)
          /\ intent' = (intent /\ cause = "generation")
          /\ prompt' = [prompt EXCEPT ![t] = @ \/ cause # "generation"]
          /\ IF cause = "probe" /\ session[t].nested THEN End(t, "ok")
             ELSE Move(t, [pc |-> Resumed[cause], use |-> "restored", first |-> TRUE])
     ELSE End(t, "failed") /\ UNCHANGED <<owner, acked, record, intent, prompt, adopted>>
  /\ UNCHANGED <<service, generation, user, adding, requests, acts, home, slipped>>

\* Mutant: acknowledgements are kept.
ClearedAcked(s, next) ==
  /\ owner' = [e \in All |-> IF owner[e] = s THEN Gone ELSE owner[e]]
  /\ UNCHANGED acked
  /\ generation' = [generation EXCEPT ![s] = next]
  /\ record' = [record EXCEPT ![s] = NoRecord]

\* clearAccountData; the mutation lock goes too unless it is preserved.
Cleared(s, next) ==
  /\ owner' = [e \in All |-> IF owner[e] = s THEN Gone ELSE owner[e]]
  /\ acked' = acked \ OwnedBy(s)
  /\ generation' = [generation EXCEPT ![s] = next]
  /\ record' = [record EXCEPT ![s] = NoRecord]

\* The account's local data gives way to the new generation.
Replace(t) ==
  LET s == session[t].subject
  IN
  /\ session[t].pc = "replace"
  /\ IF Active(t, s) /\ FreeFor(t, {t}) /\ generation[s] = session[t].enrolling
     THEN /\ Cleared(s, session[t].next)
          /\ lock' = [lock EXCEPT ![s] = Nobody]
          /\ session' = [session EXCEPT ![t].pc = "read"]
          /\ UNCHANGED deletion
     ELSE End(t, "failed") /\ UNCHANGED account
  /\ UNCHANGED <<service, intent, user, prompt, adding, requests, acts, history>>

\* The same in synchronizeAccount, only in the generation that was sent.
ClearStale(t) ==
  LET s == session[t].subject
  IN
  /\ session[t].pc = "clear"
  /\ IF Active(t, s) /\ FreeFor(t, {t})
     THEN /\ session' = [session EXCEPT ![t].pc = "read", ![t].first = TRUE]
          /\ IF generation[s] = session[t].generation
             THEN Cleared(s, session[t].reply) /\ lock' = [lock EXCEPT ![s] = Nobody]
             ELSE UNCHANGED <<account, lock>>
          /\ UNCHANGED deletion
     ELSE End(t, "failed") /\ UNCHANGED account
  /\ UNCHANGED <<service, intent, user, prompt, adding, requests, acts, history>>

-----------------------------------------------------------------------------
(* Adoption.                                                                *)

\* The user asked for it and the account has nothing.
ClaimsByItself(s) == intent /\ OwnedBy(s) = {}

\* reconcileEnrollment, up to its decision.
Reconcile(t) ==
  LET s == session[t].subject
      waiting == OwnedBy(Anonymous) # {} /\ dismissed[t] # s
  IN
  /\ session[t].pc = "reconcile"
  /\ \/ /\ session[t].aborted
        /\ End(t, "aborted")
        /\ UNCHANGED <<intent, prompt>>
     \/ /\ ~session[t].aborted /\ ~waiting
        /\ End(t, "ok")
        /\ intent' = (intent /\ OwnedBy(Anonymous) # {})
        /\ prompt' = [prompt EXCEPT ![t] = FALSE]
     \/ /\ ~session[t].aborted /\ waiting /\ ClaimsByItself(s)
        /\ Move(t, [pc |-> "claim"])
        /\ prompt' = [prompt EXCEPT ![t] = FALSE]
        /\ UNCHANGED intent
     \/ /\ ~session[t].aborted /\ waiting /\ ~ClaimsByItself(s)
        /\ End(t, "ok")
        /\ intent' = FALSE
        /\ prompt' = [prompt EXCEPT ![t] = TRUE]
  /\ UNCHANGED <<service, account, user, adding, requests, acts, history>>

\* claimAnonymousEvents moves every anonymous event.
Claimed(s, merged) ==
  LET anonymous == OwnedBy(Anonymous)
  IN  /\ owner' = [e \in All |-> IF e \in anonymous THEN s ELSE owner[e]]
      /\ acked' = acked \ anonymous
      /\ adopted' = [e \in All |-> IF e \in anonymous
                                  THEN [by |-> s, merged |-> merged] ELSE adopted[e]]

Claim(t) ==
  LET s == session[t].subject
      anonymous == OwnedBy(Anonymous)
  IN
  /\ session[t].pc = "claim"
  /\ IF Active(t, s) /\ FreeFor(t, {})
     THEN /\ Claimed(s, FALSE)
          /\ record' = IF anonymous = {} THEN record
                       ELSE [record EXCEPT ![s] = [claimed |-> anonymous,
                                                   attempted |-> {}]]
          /\ Move(t, [pc |-> "record", nested |-> TRUE])
     ELSE End(t, "failed") /\ UNCHANGED <<owner, acked, record, adopted>>
  /\ UNCHANGED <<service, generation, intent, user, prompt, adding, requests, acts, home, slipped>>

\* claimAnonymousCollection: the user chooses to merge.
Merge(t) ==
  /\ prompt[t] /\ subject[t] # Nobody
  /\ session[t].pc = "idle" /\ deletion[t].pc = "none"
  /\ FreeFor(t, {})
  /\ Claimed(subject[t], TRUE)
  /\ intent' = FALSE
  /\ prompt' = [prompt EXCEPT ![t] = FALSE]
  /\ UNCHANGED <<service, generation, record, lock, user, session, adding, deletion,
                 requests, acts, home, slipped>>

\* keepAnonymousCollectionSeparate.
KeepSeparate(t) ==
  /\ prompt[t]
  /\ dismissed' = [dismissed EXCEPT ![t] = subject[t]]
  /\ intent' = FALSE
  /\ prompt' = [prompt EXCEPT ![t] = FALSE]
  /\ UNCHANGED <<service, account, lock, subject, session, adding, deletion,
                 requests, acts, history>>

-----------------------------------------------------------------------------
(* Edits: the domain is captured before the transaction waits for its turn,  *)
(* and transactions begun later wait behind it.                              *)

NoneAdding == \A t \in Tabs : adding[t] = Nobody

BeginAdd(t) ==
  /\ adding[t] = Nobody /\ deletion[t].pc = "none"
  /\ \E e \in Events : owner[e] = Unborn
  /\ subject[t] # Nobody => generation[subject[t]] # Unknown
  /\ adding' = [adding EXCEPT ![t] = IF subject[t] = Nobody THEN Anonymous
                                     ELSE subject[t]]
  /\ UNCHANGED <<service, account, lock, intent, user, session, prompt, deletion, requests,
                 acts, history>>

\* Mutant: only a deletion blocks edits.
BlockedByDeletion(t) == ~FreeFor(t, {})

\* No edit of an account passes while its enrollment or its deletion is pending.
Blocked(t) ==
  \/ ~FreeFor(t, {})
  \/ subject[t] # Nobody /\ record[subject[t]] # NoRecord

Add(t) ==
  LET unborn == {e \in Events : owner[e] = Unborn}
  IN
  /\ adding[t] # Nobody
  /\ adding' = [adding EXCEPT ![t] = Nobody]
  /\ IF Blocked(t) \/ unborn = {} THEN UNCHANGED <<owner, home, slipped>>
     ELSE /\ slipped' = IF adding[t] \in {Anonymous, subject[t]} THEN slipped
                        ELSE slipped \cup {Min(unborn)}
          /\ owner' = [owner EXCEPT ![Min(unborn)] = adding[t]]
          /\ home' = [home EXCEPT ![Min(unborn)] = adding[t]]
  /\ UNCHANGED <<service, acked, generation, record, lock, intent, user, session, prompt,
                 deletion, requests, acts, adopted>>

-----------------------------------------------------------------------------
(* Signing in and out, reloads.                                             *)

Act == acts < MaxActs /\ acts' = acts + 1

Forgotten(t) ==
  /\ requests' = Abandoned(t)
  /\ prompt' = [prompt EXCEPT ![t] = FALSE]
  /\ deletion' = [deletion EXCEPT ![t] = NoDeletion]
  /\ lock' = [s \in Subjects |-> IF lock[s] = t THEN Nobody ELSE lock[s]]

\* beginEnrollment leaves for the provider, which comes back with a session.
SignIn(t, s) ==
  /\ Act
  /\ subject[t] = Nobody
  /\ subject' = [subject EXCEPT ![t] = s]
  /\ intent' = TRUE
  /\ session' = [session EXCEPT ![t] = Idle]
  /\ adding' = [adding EXCEPT ![t] = Nobody]
  /\ dismissed' = [dismissed EXCEPT ![t] = Nobody]
  /\ Forgotten(t)
  /\ UNCHANGED <<service, account, history>>

\* observeAuthState when the token expires or the user signs out: the sync and the
\* deletion are aborted, what else is running goes on.
SignOut(t) ==
  /\ subject[t] # Nobody
  /\ subject' = [subject EXCEPT ![t] = Nobody]
  /\ dismissed' = [dismissed EXCEPT ![t] = Nobody]
  /\ session' = [session EXCEPT ![t] =
       IF @.pc \in {"idle", "wait"} THEN Idle ELSE [@ EXCEPT !.aborted = TRUE]]
  /\ Forgotten(t)
  /\ UNCHANGED <<service, account, intent, adding, acts, history>>

\* The page is closed or reloaded; its session storage keeps the subject.
Reload(t) ==
  /\ Act
  /\ session' = [session EXCEPT ![t] = Idle]
  /\ adding' = [adding EXCEPT ![t] = Nobody]
  /\ dismissed' = [dismissed EXCEPT ![t] = Nobody]
  /\ Forgotten(t)
  /\ UNCHANGED <<service, account, intent, subject, history>>

\* The tab gives up waiting for an answer.
Timeout(t) ==
  /\ Act
  /\ requests' = Abandoned(t)
  /\ \/ session[t].pc = "wait" /\ End(t, "failed")
     \/ /\ deletion[t].pc = "wait"
        /\ deletion' = [deletion EXCEPT ![t] = NoDeletion]
        /\ lock' = [s \in Subjects |-> IF lock[s] = t THEN Nobody ELSE lock[s]]
        /\ UNCHANGED session
  /\ UNCHANGED <<service, account, intent, user, prompt, adding, history>>

\* A request nobody waits for is lost.
Lose(request) ==
  /\ request.tab = Nobody
  /\ requests' = requests \ {request}
  /\ UNCHANGED <<service, account, lock, intent, user, session, prompt, adding, deletion,
                 acts, history>>

-----------------------------------------------------------------------------
(* deleteCloud, and other devices.                                          *)

BeginDelete(t) ==
  LET s == subject[t]
  IN
  /\ s # Nobody
  /\ Act
  /\ deletion[t].pc = "none" /\ lock[s] = Nobody
  /\ lock' = [lock EXCEPT ![s] = t]
  /\ deletion' = [deletion EXCEPT ![t].pc = "drain"]
  /\ session' = [session EXCEPT ![t] =
       IF @.pc \in {"idle", "wait"} THEN Idle ELSE [@ EXCEPT !.aborted = TRUE]]
  /\ requests' = Abandoned(t)
  /\ UNCHANGED <<service, account, intent, user, prompt, adding, history>>

SendDelete(t) ==
  /\ deletion[t].pc = "drain" /\ session[t].pc = "idle"
  /\ deletion' = [deletion EXCEPT ![t].pc = "wait",
                                  ![t].claimed = record[subject[t]].claimed]
  /\ requests' = requests \cup {[kind |-> "delete", tab |-> t, subject |-> subject[t]]}
  /\ UNCHANGED <<service, account, lock, intent, user, session, prompt, adding, acts,
                 history>>

ServeDelete(request) ==
  LET s == request.subject
  IN
  /\ request.kind = "delete"
  /\ requests' = requests \ {request}
  /\ issued' = IF issued = 0 THEN 2 ELSE issued + 1
  /\ epoch' = [epoch EXCEPT ![s] = issued']
  /\ log' = [log EXCEPT ![s] = {}]
  /\ deletion' = IF request.tab = Nobody THEN deletion
                 ELSE [deletion EXCEPT ![request.tab].pc = "return",
                                       ![request.tab].reply = issued']
  /\ UNCHANGED <<account, lock, intent, user, session, prompt, adding, acts, history>>

\* Mutant: pending claims go with the account.
ReturnNothing(t) ==
  /\ deletion[t].pc = "return"
  /\ deletion' = [deletion EXCEPT ![t].pc = "clear"]
  /\ UNCHANGED <<service, account, lock, intent, user, session, prompt, adding, requests,
                 acts, history>>

ReturnPending(t) ==
  LET s == subject[t]
      claimed == deletion[t].claimed
  IN
  /\ deletion[t].pc = "return"
  /\ FreeFor(t, {t})
  /\ IF claimed # {} /\ MayReturn(s, claimed) THEN Returned(s, claimed)
     ELSE UNCHANGED <<owner, acked, record, adopted>>
  /\ IF claimed = {} \/ MayReturn(s, claimed)
     THEN deletion' = [deletion EXCEPT ![t].pc = "clear"] /\ UNCHANGED lock
     ELSE /\ deletion' = [deletion EXCEPT ![t] = NoDeletion]
          /\ lock' = [lock EXCEPT ![s] = IF @ = t THEN Nobody ELSE @]
  /\ UNCHANGED <<service, generation, intent, user, session, prompt, adding, requests,
                 acts, home, slipped>>

ClearDeleted(t) ==
  /\ deletion[t].pc = "clear"
  /\ FreeFor(t, {t})
  /\ Cleared(subject[t], deletion[t].reply)
  /\ deletion' = [deletion EXCEPT ![t] = NoDeletion]
  /\ lock' = [lock EXCEPT ![subject[t]] = IF @ = t THEN Nobody ELSE @]
  /\ prompt' = [prompt EXCEPT ![t] = FALSE]
  /\ UNCHANGED <<service, intent, user, session, adding, requests, acts, history>>

OtherWrites(s, e) ==
  /\ \A x \in Subjects : e \notin log[x]
  /\ owner[e] = Unborn
  /\ issued' = IF epoch[s] = Unknown THEN issued + 1 ELSE issued
  /\ epoch' = [epoch EXCEPT ![s] = IF @ = Unknown THEN issued' ELSE @]
  /\ log' = [log EXCEPT ![s] = @ \cup {e}]
  /\ UNCHANGED <<account, lock, intent, user, session, prompt, adding, deletion, requests,
                 acts, history>>

OtherDeletes(s) ==
  /\ epoch[s] # Unknown
  /\ Act
  /\ issued' = issued + 1
  /\ epoch' = [epoch EXCEPT ![s] = issued']
  /\ log' = [log EXCEPT ![s] = {}]
  /\ UNCHANGED <<account, lock, intent, user, session, prompt, adding, deletion, requests,
                 history>>

-----------------------------------------------------------------------------
SyncStep(t) ==
  \/ ReadRecord(t) \/ Probe(t) \/ ReadQueue(t) \/ Attempt(t)
  \/ Apply(t) \/ CannotApply(t) \/ Complete(t) \/ Changed(t) \/ Conflict(t)
  \/ Restore(t) \/ Replace(t) \/ ClearStale(t) \/ Reconcile(t) \/ Claim(t)

DeleteStep(t) == SendDelete(t) \/ ReturnPending(t) \/ ClearDeleted(t)

Next ==
  \/ \E t \in Tabs :
       \/ StartSync(t) \/ (NoneAdding /\ SyncStep(t))
       \/ (NoneAdding /\ Merge(t)) \/ KeepSeparate(t) \/ BeginAdd(t) \/ Add(t)
       \/ (NoneAdding /\ (BeginDelete(t) \/ DeleteStep(t)))
       \/ SignOut(t) \/ Reload(t) \/ Timeout(t)
       \/ \E s \in Subjects : SignIn(t, s)
  \/ \E r \in requests : Serve(r) \/ ServeDelete(r) \/ Lose(r)
  \/ \E s \in Subjects : OtherDeletes(s) \/ \E e \in Others : OtherWrites(s, e)

Spec == Init /\ [][Next]_vars

\* Code that was called goes on, though every edit makes its transactions wait, requests
\* are answered, and a page that is visible or online again starts a sync.
Work(t) ==
  \/ StartSync(t)
  \/ NoneAdding /\ (SyncStep(t) \/ DeleteStep(t))
  \/ \E r \in requests : r.tab = t /\ (Serve(r) \/ ServeDelete(r))

Fairness == \A t \in Tabs : SF_vars(Work(t)) /\ WF_vars(Add(t))

FairSpec == Spec /\ Fairness

-----------------------------------------------------------------------------
Domains == Subjects \cup {Anonymous}

\* One for every account and every deletion; the first one may be skipped.
LastGeneration == Cardinality(Subjects) + MaxActs + 1

\* Type invariant: owners, acknowledgements and enrollment records of IndexedDB.
TypeOK ==
  /\ issued \in 0..LastGeneration
  /\ epoch \in [Subjects -> 0..issued] /\ generation \in [Subjects -> 0..issued]
  /\ log \in [Subjects -> SUBSET All]
  /\ owner \in [All -> Domains \cup {Unborn, Gone}]
  /\ acked \subseteq {e \in All : owner[e] \in Subjects}
  /\ \A s \in Subjects :
       /\ record[s].claimed \subseteq Events
       /\ record[s].attempted # {} => record[s].claimed # {}
  /\ lock \in [Subjects -> Tabs \cup {Nobody}]
  /\ subject \in [Tabs -> Subjects \cup {Nobody}]
  /\ adding \in [Tabs -> Domains \cup {Nobody}]
  /\ slipped \subseteq Events

\* "Account switches never expose or upload another account's outbox": an account
\* holds what was made in it, or was anonymous and claimed by it.
OutboxIsolated ==
  \A s \in Subjects : \A e \in log[s] \cap Events :
    home[e] = s \/ (home[e] = Anonymous /\ adopted[e].by = s)

\* A retry sends the batch that may have arrived (setPendingEnrollmentAttempt), unless
\* an edit slipped into it: add() passes when its tab left the account as it waited.
AttemptIsStable ==
  \A t \in Tabs :
    (/\ session[t].pc = "attempt" /\ record[session[t].subject] # NoRecord
     /\ session[t].sent \cap slipped = {})
      => Unchanged(t)

\* No collection is discarded silently.  What is anonymous stays on the device, and so
\* does a claim until the service accepted its first batch, or it returns to the device
\* (completePendingEnrollment, returnClaimedEventsToAnonymous).  All the rest an account
\* has here, sent or not, later batches of a claim and merged events among them, is
\* erased only when its generation is over at the service: the account was deleted,
\* here or on another device.
NothingDiscarded ==
  [][/\ \A e \in OwnedBy(Anonymous) : owner'[e] \in Domains
     /\ \A s \in Subjects : \A e \in OwnedBy(s) :
          \/ owner'[e] \in {s, Anonymous}
          \/ generation[s] < epoch[s] /\ e \notin record[s].claimed]_vars

\* An enrollment is resolved, in the account or back on the device, while the tab stays
\* signed in and no edit slips into it.
EnrollmentResolves ==
  \A s \in Subjects :
    (record[s] # NoRecord) ~> \/ record[s] = NoRecord \/ slipped # {}
                              \/ \A t \in Tabs : subject[t] # s

=============================================================================
