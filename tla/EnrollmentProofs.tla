--------------------------- MODULE EnrollmentProofs ---------------------------
(* What holds of Enrollment for any accounts, tabs, events and bounds.          *)
EXTENDS Enrollment, FiniteSetTheorems, NaturalsInduction, TLAPS

(* The inductive invariant.  Which values the fields of a session, of a        *)
(* deletion and of a request have, and how a request in flight fits the tab    *)
(* that waits for it: this holds of any number of tabs.                        *)

Fields == DOMAIN Idle
Phases == {"idle", "record", "probe", "read", "attempt", "wait", "apply", "mismatch",
           "conflict", "complete", "clear", "restore", "replace", "reconcile", "claim"}
Uses == {"plain", "guarded", "after", "restored"}
Causes == {"none", "probe", "conflict", "generation"}
Issued == 0..issued
Records == [claimed : SUBSET Events, attempted : SUBSET Events]

\* From here on a session has read the record.
Started == Phases \ {"idle", "record"}

\* The phases in which a session works in the generation it sent.
Current == {"attempt", "wait", "apply", "mismatch", "conflict", "complete"}

ServiceType ==
  /\ issued \in Nat
  /\ epoch \in [Subjects -> Issued] /\ generation \in [Subjects -> Issued]
  /\ log \in [Subjects -> SUBSET All]

StoreType ==
  /\ owner \in [All -> Domains \cup {Unborn, Gone}]
  /\ \A e \in Others : owner[e] # Anonymous /\ (owner[e] \in Subjects => e \in acked)
  /\ acked \subseteq {e \in All : owner[e] \in Subjects}
  /\ record \in [Subjects -> Records]
  /\ \A s \in Subjects : record[s].claimed = {} => record[s] = NoRecord
  /\ lock \in [Subjects -> Tabs \cup {Nobody}]
  /\ home \in [All -> Domains \cup {Unborn}] /\ slipped \subseteq Events
  /\ DOMAIN adopted = All

TabType ==
  /\ subject \in [Tabs -> Subjects \cup {Nobody}]
  /\ adding \in [Tabs -> Domains \cup {Nobody}]
  /\ prompt \in [Tabs -> BOOLEAN]
  /\ DOMAIN dismissed = Tabs /\ intent \in BOOLEAN
  /\ DOMAIN session = Tabs /\ DOMAIN deletion = Tabs

SessionType(s) ==
  /\ DOMAIN s = Fields /\ s.pc \in Phases
  /\ s.pc # "idle" => s.subject \in Subjects
  /\ s.nested \in BOOLEAN /\ s.aborted \in BOOLEAN
  /\ s.use \in Uses /\ s.first \in BOOLEAN /\ s.claim \in Records
  /\ s.probing \in BOOLEAN /\ s.sent \subseteq Events /\ s.rows \subseteq All
  /\ s.generation \in Issued /\ s.reply \in Issued /\ s.next \in Issued
  /\ s.cause \in Causes

\* What a session is about to do says how it came there.
SessionFlow(s) ==
  /\ s.pc = "probe" => s.use = "guarded"
  /\ s.pc = "attempt" => /\ s.use = "guarded" /\ ~s.probing /\ s.sent # {}
                         /\ s.generation # Unknown
  /\ s.pc = "wait" /\ s.probing => s.sent = {} /\ s.generation # Unknown
  /\ s.pc = "wait" /\ s.generation = Unknown => s.sent = {}
  /\ s.pc = "apply" => s.sent \subseteq s.rows
  /\ s.pc \in Current /\ s.probing => s.use = "guarded"
  /\ s.pc = "conflict" => s.use = "guarded" /\ ~s.probing
  /\ s.pc = "complete" => s.use = "guarded"
  /\ s.pc = "clear" => s.use = "plain"
  /\ s.pc = "restore" => s.cause # "none" /\ (s.cause # "generation" => s.use = "guarded")
  /\ s.pc = "replace" => s.use # "guarded"

DeletionType(d) ==
  /\ DOMAIN d = DOMAIN NoDeletion
  /\ d.pc \in {"none", "drain", "wait", "return", "clear"}
  /\ d.claimed \subseteq Events /\ d.reply \in Issued

TabInv(t) ==
  LET s == session[t]
      d == deletion[t]
  IN  /\ SessionType(s) /\ SessionFlow(s) /\ DeletionType(d)
      /\ s.pc # "idle" /\ ~s.aborted => subject[t] = s.subject
      /\ d.pc # "none" => subject[t] \in Subjects
      /\ d.pc \in {"wait", "return", "clear"} => s.pc = "idle"
      /\ adding[t] \in Subjects => subject[t] \in {adding[t], Nobody}

SyncFields == {"kind", "tab", "subject", "ops", "generation", "guarded"}

RequestInv(r) ==
  /\ r.kind \in {"sync", "delete"} /\ r.tab \in Tabs \cup {Nobody}
  /\ r.subject \in Subjects
  /\ DOMAIN r = IF r.kind = "sync" THEN SyncFields ELSE {"kind", "tab", "subject"}
  /\ r = [f \in DOMAIN r |-> r[f]]
  /\ r.kind = "sync" =>
       /\ r.ops \subseteq Events /\ r.generation \in Issued /\ r.guarded \in BOOLEAN
       /\ r.generation = Unknown => r.ops = {}
       /\ r.guarded => r.ops # {}
       /\ r.tab # Nobody =>
            /\ session[r.tab].pc = "wait"
            /\ r.subject = session[r.tab].subject
            /\ r.ops = session[r.tab].sent
            /\ r.generation = session[r.tab].generation
            /\ r.guarded <=> (/\ session[r.tab].use = "guarded" /\ ~session[r.tab].probing
                              /\ session[r.tab].sent # {})
  /\ r.kind = "delete" /\ r.tab # Nobody =>
       deletion[r.tab].pc = "wait" /\ r.subject = subject[r.tab]

Inv ==
  /\ ServiceType /\ StoreType /\ TabType
  /\ \A t \in Tabs : TabInv(t)
  /\ \A r \in requests : RequestInv(r)

\* One tick of the generations for every account that has one, and for every deletion
\* that was served.
Draining == {t \in Tabs : deletion[t].pc = "drain"}
Deletes == {r \in requests : r.kind = "delete"}
Known == {s \in Subjects : epoch[s] # Unknown}

Bounded ==
  /\ acts \in 0..MaxActs
  /\ IsFiniteSet(Draining) /\ IsFiniteSet(Deletes)
  /\ issued + Cardinality(Draining) + Cardinality(Deletes) <= Cardinality(Known) + acts

-----------------------------------------------------------------------------
(* One tab.  The record of an account is that of the session in progress, and *)
(* no generation a tab, a session or a request knows is ahead of the account's. *)

AccountInv(s) ==
  /\ generation[s] <= epoch[s]
  /\ epoch[s] = Unknown => log[s] = {}
  /\ record[s].claimed \subseteq OwnedBy(s)
  /\ generation[s] = epoch[s] => acked \cap OwnedBy(s) \subseteq log[s]
  /\ generation[s] = Unknown => acked \cap OwnedBy(s) = {}
  /\ record[s].attempted = {} => record[s].claimed \cap acked = {}

SessionEpoch(t) ==
  LET s == session[t]
      a == s.subject
  IN  /\ s.pc \in Current => s.generation = generation[a]
      /\ s.pc = "read" /\ ~s.first => s.generation = generation[a]
      /\ s.pc = "apply" => /\ s.reply # Unknown /\ s.generation \in {Unknown, s.reply}
                           /\ s.reply <= epoch[a]
                           /\ s.reply = epoch[a] => s.rows \subseteq log[a]
                           /\ s.probing => s.generation # Unknown
      /\ s.pc \in {"mismatch", "clear"} => generation[a] < s.reply /\ s.reply <= epoch[a]
      /\ s.pc = "restore" /\ s.cause = "generation" =>
           generation[a] < s.next /\ s.next <= epoch[a]
      /\ s.pc = "replace" => generation[a] < s.next /\ s.next <= epoch[a] /\ s.first

SessionRecord(t) ==
  LET s == session[t]
      a == s.subject
  IN  /\ s.pc \in Started /\ s.use # "guarded" => record[a] = NoRecord
      /\ s.pc \in Started /\ s.use = "guarded" =>
           record[a] # NoRecord /\ record[a].claimed = s.claim.claimed
      /\ s.pc = "probe" => record[a] = s.claim /\ s.claim.attempted # {}
      /\ s.pc \in Current /\ s.probing => record[a] = s.claim /\ s.claim.attempted # {}
      /\ s.pc \in {"wait", "apply", "conflict", "complete"} /\ s.use = "guarded"
           /\ ~s.probing => s.sent # {} /\ record[a].attempted = s.sent
      /\ s.pc = "read" /\ s.use = "guarded" =>
           s.first /\ (record[a].attempted # {} => acked \cap OwnedBy(a) = {})
      /\ s.pc = "apply" /\ s.probing /\ s.rows = {} => acked \cap OwnedBy(a) = {}
      /\ s.pc \in {"reconcile", "claim"} => s.use # "guarded"
      /\ s.pc = "claim" => ~prompt[t]
      /\ s.pc # "idle" => subject[t] \in {a, Nobody}
      /\ prompt[t] /\ subject[t] # Nobody => record[subject[t]] = NoRecord

DeletionRecord(t) ==
  LET a == subject[t]
  IN  /\ deletion[t].pc \in {"wait", "return"} => deletion[t].claimed = record[a].claimed
      /\ deletion[t].pc = "clear" => record[a] = NoRecord
      /\ deletion[t].pc \in {"return", "clear"} =>
           generation[a] < deletion[t].reply /\ deletion[t].reply <= epoch[a]

Behind == \A r \in requests : r.kind = "sync" => r.generation <= generation[r.subject]

Together ==
  /\ Behind /\ \A s \in Subjects : AccountInv(s)
  /\ \A t \in Tabs : SessionEpoch(t) /\ SessionRecord(t) /\ DeletionRecord(t)

-----------------------------------------------------------------------------
(* One tab.  Whose an event is, in the log, on its way and on the device.      *)

Mine(e, s) == home[e] = s \/ (home[e] = Anonymous /\ adopted[e].by = s)
HeldBy(e, s) == owner[e] \in {s, Gone} /\ Mine(e, s)

\* The service may still add its batch to the log.
Pending(r) ==
  /\ r.kind = "sync" /\ r.generation = epoch[r.subject]
  /\ r.guarded => log[r.subject] = {}

Untouched(s) == log[s] \cap record[s].claimed = {}

EventsHeld ==
  /\ \A e \in Events : /\ owner[e] \in Subjects => Mine(e, owner[e])
                       /\ owner[e] = Anonymous => home[e] = Anonymous
  /\ \A s \in Subjects : /\ \A e \in log[s] \cap Events : HeldBy(e, s)
                         /\ \A e \in record[s].claimed : home[e] = Anonymous

LogsOK ==
  \A s \in Subjects :
    /\ generation[s] < epoch[s] => log[s] \cap Events = {}
    /\ Untouched(s) \/ (record[s].attempted # {} /\ record[s].attempted \subseteq log[s])

RequestsHeld ==
  \A r \in requests : Pending(r) =>
    LET s == r.subject
    IN  /\ \A e \in r.ops : HeldBy(e, s)
        /\ r.guarded => record[s] # NoRecord /\ r.ops = record[s].attempted
        /\ ~r.guarded => r.ops \cap record[s].claimed = {}

SessionHeld(t) ==
  LET s == session[t]
      a == s.subject
  IN  /\ s.pc = "attempt" => \A e \in s.sent : owner[e] = a
      /\ s.pc = "apply" => \A e \in s.rows \cap Events : HeldBy(e, a)
      /\ s.pc = "apply" /\ s.probing /\ s.reply = epoch[a] /\ s.rows # {}
           /\ s.rows \cap record[a].attempted = {} => Untouched(a)
      /\ s.pc = "conflict" \/ (s.pc = "restore" /\ s.cause \in {"probe", "conflict"}) =>
           (generation[a] = epoch[a] => log[a] # {} /\ Untouched(a))
      /\ s.pc = "complete" /\ generation[a] = epoch[a] => log[a] # {}

Isolation ==
  /\ EventsHeld /\ LogsOK /\ RequestsHeld
  /\ \A t \in Tabs : SessionHeld(t)

-----------------------------------------------------------------------------
(* One tab.  The batch of an enrollment stays what was tried first.            *)

\* The batch is that one, or an event slipped into it.
Same(batch, tried) == batch = tried \/ batch \cap slipped # {}

InOrder == \A e, f \in Events : owner[e] = Unborn /\ owner[f] # Unborn => f < e

Tried(s) ==
  record[s].attempted # {} /\ acked \cap OwnedBy(s) = {} =>
    Same(Batch(s), record[s].attempted)

Attempting(t) ==
  LET s == session[t]
      a == s.subject
  IN  s.pc = "attempt" =>
        /\ Same(Batch(a), s.sent)
        /\ record[a].attempted = {} \/ Same(s.sent, record[a].attempted)

Steady ==
  /\ InOrder
  /\ \A s \in Subjects : Tried(s)
  /\ \A t \in Tabs : Attempting(t)

-----------------------------------------------------------------------------
(* The constants and the operators of Enrollment.                              *)

\* What stands for no account and no tab is none.
LEMMA Names ==
  /\ Nobody \notin Tabs /\ Nobody \notin Subjects /\ Anonymous \notin Subjects
  /\ Unborn \notin Subjects /\ Gone \notin Subjects
  /\ Anonymous # Nobody /\ Unborn # Nobody /\ Gone # Nobody
  /\ Anonymous # Unborn /\ Anonymous # Gone /\ Unborn # Gone
  BY EnrollmentType DEF Nobody, Anonymous, Unborn, Gone

\* A set of natural numbers has a least element, and Min is that one.
LEMMA MinOfNumbers ==
  ASSUME NEW T \in SUBSET Nat, T # {}
  PROVE  Min(T) \in T /\ \A y \in T : Min(T) <= y
<1> DEFINE R == OpToRel(<, Nat)
<1>1. IsWellFoundedOn(R, Nat)
  BY NatLessThanWellFounded
<1>2. \A x, y \in Nat : y < x => <<y, x>> \in R
  BY DEF OpToRel
<1> HIDE DEF R
<1>3. PICK x \in T : \A y \in T : ~(<<y, x>> \in R)
  BY <1>1, WFMin
<1>4. \A y \in T : ~(y < x)
  BY <1>2, <1>3
<1>5. \A y \in T : x <= y
  BY <1>4
<1>6. \E z \in T : \A y \in T : z =< y
  BY <1>5
<1> QED
  BY <1>6 DEF Min

\* A batch is part of what an account has not acknowledged, and is not empty unless
\* everything is.
LEMMA BatchIsUnsynced ==
  ASSUME NEW s \in Subjects, Unsynced(s) \subseteq Events
  PROVE  Batch(s) \subseteq Unsynced(s) /\ (Unsynced(s) # {} => Batch(s) # {})
<1>1. Batch(s) \subseteq Unsynced(s)
  BY DEF Batch
<1>2. ASSUME Unsynced(s) # {} PROVE Batch(s) # {}
  <2> DEFINE m == Min(Unsynced(s))
  <2>1. m \in Unsynced(s) /\ \A y \in Unsynced(s) : m <= y
    BY <1>2, MinOfNumbers, EnrollmentType
  <2> HIDE DEF m
  <2>a. \A o \in Unsynced(s) : o \in Nat
    BY EnrollmentType
  <2>2. {o \in Unsynced(s) : o < m} = {}
    BY <2>1, <2>a
  <2>3. Cardinality({o \in Unsynced(s) : o < m}) = 0
    BY <2>2, FS_EmptySet
  <2>4. 0 < BatchSize
    BY EnrollmentType
  <2> QED
    BY <2>1, <2>3, <2>4 DEF Batch
<1> QED
  BY <1>1, <1>2

-----------------------------------------------------------------------------
(* What a step does to the sessions.                                           *)

\* Only this tab's session changes.
OthersKept(t) == DOMAIN session' = Tabs /\ \A u \in Tabs \ {t} : session'[u] = session[u]
\* Of its session, only these fields do.
Changes(t, names) == \A f \in Fields \ names : session'[t][f] = session[t][f]
\* Its deletion goes on, or is given up.
DeletionKept(t) ==
  /\ DOMAIN deletion' = Tabs /\ \A u \in Tabs \ {t} : deletion'[u] = deletion[u]
  /\ deletion'[t] \in {deletion[t], NoDeletion}
LockType == lock \in [Subjects -> Tabs \cup {Nobody}]

\* Move gives the fields their values, and keeps the others.
LEMMA MoveEffect ==
  ASSUME TabType, NEW t \in Tabs, SessionType(session[t]), NEW fields, Move(t, fields)
  PROVE  /\ OthersKept(t) /\ DeletionKept(t) /\ UNCHANGED <<deletion, lock>>
         /\ DOMAIN session'[t] = Fields
         /\ \A f \in Fields : session'[t][f] = IF f \in DOMAIN fields THEN fields[f]
                                               ELSE session[t][f]
  BY DEF TabType, SessionType, Move, With, OthersKept, DeletionKept

\* End leaves no session, and may give up the deletion that waits for it.
LEMMA EndEffect ==
  ASSUME TabType, NEW t \in Tabs, LockType, NEW outcome, End(t, outcome)
  PROVE  /\ OthersKept(t) /\ DeletionKept(t) /\ session'[t] = Idle
         /\ LockType'
<1>1. OthersKept(t) /\ session'[t] = Idle
  BY DEF TabType, End, OthersKept
<1>2. CASE deletion[t].pc = "drain" /\ outcome = "failed"
  <2>1. /\ deletion' = [deletion EXCEPT ![t] = NoDeletion]
        /\ lock' = [s \in Subjects |-> IF lock[s] = t THEN Nobody ELSE lock[s]]
    BY <1>2 DEF End
  <2>2. DeletionKept(t)
    BY <2>1 DEF TabType, DeletionKept
  <2>3. LockType'
    BY <2>1 DEF LockType
  <2> QED
    BY <1>1, <2>2, <2>3
<1>3. CASE ~(deletion[t].pc = "drain" /\ outcome = "failed")
  BY <1>1, <1>3 DEF End, TabType, DeletionKept, LockType
<1> QED
  BY <1>2, <1>3

\* A tab where nothing changes keeps its invariant.
LEMMA TabFrame ==
  ASSUME NEW u, TabInv(u), issued \in Nat, issued' \in Nat, issued <= issued',
         session'[u] = session[u], deletion'[u] = deletion[u], subject'[u] = subject[u],
         adding'[u] = adding[u]
  PROVE  TabInv(u)'
<1>1. Issued \subseteq Issued'
  BY DEF Issued
<1>2. SessionType(session[u])' /\ SessionFlow(session[u])' /\ DeletionType(deletion[u])'
  BY <1>1 DEF TabInv, SessionType, SessionFlow, DeletionType
<1> QED
  BY <1>2 DEF TabInv

\* A request nobody waits for, or whose tab does not change, keeps its invariant.
LEMMA RequestFrame ==
  ASSUME NEW r, RequestInv(r), issued \in Nat, issued' \in Nat, issued <= issued',
         r.tab # Nobody => /\ session'[r.tab] = session[r.tab]
                           /\ deletion'[r.tab] = deletion[r.tab]
                           /\ subject'[r.tab] = subject[r.tab]
  PROVE  RequestInv(r)'
  BY DEF RequestInv, Issued

\* No request of a tab is on its way unless its session or its deletion waits.
LEMMA NobodyWaits ==
  ASSUME Inv, NEW t \in Tabs, session[t].pc # "wait", deletion[t].pc # "wait"
  PROVE  \A r \in requests : r.tab # t
  BY Names DEF Inv, RequestInv

\* A sync step of a tab that does not wait: it is enough to look at its own session
\* and at the requests it sends.
LEMMA SessionStep ==
  ASSUME Inv, NEW t \in Tabs, session[t].pc \notin {"idle", "wait"},
         OthersKept(t), DeletionKept(t),
         SessionType(session[t])', SessionFlow(session[t])',
         session'[t].pc # "idle" => /\ session'[t].subject = session[t].subject
                                    /\ session'[t].aborted = session[t].aborted,
         UNCHANGED <<issued, subject, adding>>
  PROVE  /\ \A u \in Tabs : TabInv(u)'
         /\ \A r \in requests : RequestInv(r)'
<1>1. issued \in Nat /\ TabInv(t)
  BY DEF Inv, ServiceType
<1>2. deletion[t].pc \notin {"wait", "return", "clear"}
  BY <1>1 DEF TabInv
<1>3. DeletionType(deletion[t])'
  <2>1. DeletionType(NoDeletion)'
    BY <1>1 DEF DeletionType, NoDeletion, Issued, Unknown
  <2>2. DeletionType(deletion[t])' \/ deletion'[t] = NoDeletion
    BY <1>1 DEF DeletionKept, DeletionType, TabInv, Issued
  <2> QED
    BY <2>1, <2>2 DEF DeletionType
<1>4. TabInv(t)'
  BY <1>1, <1>2, <1>3 DEF TabInv, DeletionKept, NoDeletion
<1>5. ASSUME NEW u \in Tabs \ {t} PROVE TabInv(u)'
  BY <1>1, TabFrame DEF Inv, OthersKept, DeletionKept
<1>6. ASSUME NEW r \in requests PROVE RequestInv(r)'
  <2>1. r.tab # t /\ RequestInv(r)
    BY <1>2, NobodyWaits DEF Inv
  <2>2. r.tab \in Tabs \cup {Nobody}
    BY <2>1 DEF RequestInv
  <2> QED
    BY <1>1, <2>1, <2>2, RequestFrame DEF OthersKept, DeletionKept
<1> QED
  BY <1>4, <1>5, <1>6

\* A session that ended has the type of one, whatever the service did.
LEMMA IdleType ==
  ASSUME issued' \in Nat, NEW t, session'[t] = Idle
  PROVE  SessionType(session[t])' /\ SessionFlow(session[t])'
<1>1. SessionType(Idle)' /\ SessionFlow(Idle)'
  BY DEF SessionType, SessionFlow, Idle, Fields, Phases, Uses, Records, NoRecord, Causes,
         Issued, Unknown, Started, Current
<1> QED
  BY <1>1 DEF SessionType, SessionFlow

-----------------------------------------------------------------------------
(* The steps of a session, one lemma for what each does to its session.        *)

Moves(t, names) ==
  /\ OthersKept(t) /\ DeletionKept(t) /\ UNCHANGED <<deletion, lock>>
  /\ DOMAIN session'[t] = Fields /\ Changes(t, names)

Ends(t) == OthersKept(t) /\ DeletionKept(t) /\ session'[t] = Idle /\ LockType'

\* What a tab of the invariant gives the lemmas below.
LEMMA TabFacts ==
  ASSUME Inv, NEW t \in Tabs
  PROVE  TabType /\ LockType /\ TabInv(t) /\ SessionType(session[t]) /\ issued \in Nat
  BY DEF Inv, TabInv, StoreType, LockType, ServiceType

\* performSync begins.
LEMMA StartSyncEffect ==
  ASSUME Inv, NEW t \in Tabs, StartSync(t)
  PROVE  /\ Moves(t, {"pc", "subject", "nested", "aborted"})
         /\ session'[t].pc = "record" /\ session'[t].subject = subject[t]
         /\ session'[t].aborted = FALSE
         /\ session'[t].nested = FALSE
  BY TabFacts, MoveEffect DEF StartSync, Moves, Changes, Fields, Idle

\* resumePendingEnrollment ends, reads the queue, or finds out.
LEMMA ReadRecordEffect ==
  ASSUME Inv, NEW t \in Tabs, ReadRecord(t)
  PROVE  \/ Ends(t)
         \/ /\ Moves(t, {"pc", "use", "first"})
            /\ record[session[t].subject] = NoRecord
            /\ session'[t].pc = "read" /\ session'[t].use = "plain" /\ session'[t].first
         \/ /\ Moves(t, {"pc", "use", "first", "claim", "enrolling"})
            /\ record[session[t].subject] # NoRecord
            /\ session'[t].pc = IF record[session[t].subject].attempted = {} THEN "read"
                                ELSE "probe"
            /\ session'[t].use = "guarded" /\ session'[t].first
            /\ session'[t].claim = record[session[t].subject]
<1>1. TabType /\ LockType /\ SessionType(session[t])
  BY TabFacts
<1>2. CASE \E o : End(t, o)
  BY <1>1, <1>2, EndEffect DEF Ends
<1>3. CASE /\ record[session[t].subject] = NoRecord
           /\ Move(t, [pc |-> "read", use |-> "plain", first |-> TRUE])
  BY <1>1, <1>3, MoveEffect DEF Moves, Changes, Fields, Idle
<1>4. CASE /\ record[session[t].subject] # NoRecord
           /\ Move(t, [pc |-> IF record[session[t].subject].attempted = {} THEN "read"
                              ELSE "probe",
                       use |-> "guarded", first |-> TRUE,
                       claim |-> record[session[t].subject],
                       enrolling |-> generation[session[t].subject]])
  BY <1>1, <1>4, MoveEffect DEF Moves, Changes, Fields, Idle
<1> QED
  BY <1>2, <1>3, <1>4 DEF ReadRecord

\* The probe is sent, or there is no generation to probe.
LEMMA ProbeEffect ==
  ASSUME Inv, NEW t \in Tabs, Probe(t)
  PROVE  \/ Ends(t) /\ UNCHANGED requests
         \/ /\ Moves(t, {"pc", "probing", "sent", "generation"})
            /\ generation[session[t].subject] # Unknown
            /\ session'[t].pc = "wait" /\ session'[t].probing = TRUE /\ session'[t].sent = {}
            /\ session'[t].generation = generation[session[t].subject]
            /\ Send(t, {}, FALSE)
<1>1. TabType /\ LockType /\ SessionType(session[t])
  BY TabFacts
<1>2. CASE session[t].aborted \/ generation[session[t].subject] = Unknown
  BY <1>1, <1>2, EndEffect DEF Probe, Ends
<1>3. CASE ~(session[t].aborted \/ generation[session[t].subject] = Unknown)
  <2>1. Move(t, [pc |-> "wait", probing |-> TRUE, sent |-> {},
                 generation |-> generation[session[t].subject]])
    BY <1>3 DEF Probe
  <2>2. Send(t, {}, FALSE)
    BY <1>3 DEF Probe
  <2>3. /\ Moves(t, {"pc", "probing", "sent", "generation"})
        /\ session'[t].pc = "wait" /\ session'[t].probing = TRUE /\ session'[t].sent = {}
        /\ session'[t].generation = generation[session[t].subject]
    BY <1>1, <2>1, MoveEffect DEF Moves, Changes, Fields, Idle
  <2> QED
    BY <1>3, <2>2, <2>3
<1> QED
  BY <1>2, <1>3

\* A session that is done ends or goes on to the anonymous events.
LEMMA FinishEffect ==
  ASSUME Inv, NEW t \in Tabs, Finish(t)
  PROVE  /\ Ends(t) \/ (Moves(t, {"pc"}) /\ session'[t].pc = "reconcile")
         /\ intent' \in BOOLEAN /\ prompt' \in [Tabs -> BOOLEAN]
         /\ \A u \in Tabs \ {t} : prompt'[u] = prompt[u]
         /\ prompt'[t] => prompt[t] \/ session[t].use = "restored"
<1>1. TabType /\ LockType /\ SessionType(session[t])
  BY TabFacts
<1>2. Ends(t) \/ (Moves(t, {"pc"}) /\ session'[t].pc = "reconcile")
  <2>1. CASE session[t].nested
    BY <1>1, <2>1, EndEffect DEF Finish, Ends
  <2>2. CASE ~session[t].nested
    <3>1. Move(t, [pc |-> "reconcile"])
      BY <2>2 DEF Finish
    <3> QED
      BY <1>1, <3>1, MoveEffect DEF Moves, Changes, Fields, Idle
  <2> QED
    BY <2>1, <2>2
<1>3. intent' \in BOOLEAN
  BY <1>1 DEF Finish, TabType
<1>4. prompt' = [prompt EXCEPT ![t] = IF session[t].use = "restored" THEN TRUE ELSE @]
  BY DEF Finish
<1> QED
  BY <1>1, <1>2, <1>3, <1>4 DEF TabType

KnownTo(t) ==
  IF session[t].first THEN generation[session[t].subject] ELSE session[t].generation
QueueOf(t) ==
  IF Active(t, session[t].subject) THEN Batch(session[t].subject) ELSE {}

\* The queue is read: it is empty and the session is done, or the session gives up, or
\* a request is on its way, or a guarded one is noted first.
LEMMA ReadQueueEffect ==
  ASSUME Inv, NEW t \in Tabs, ReadQueue(t)
  PROVE  \/ /\ ~session[t].first /\ QueueOf(t) = {}
            /\ Finish(t) /\ UNCHANGED requests
         \/ Ends(t) /\ UNCHANGED <<intent, prompt, requests>>
         \/ /\ Moves(t, {"pc", "probing", "sent", "generation", "first"})
            /\ session[t].first \/ QueueOf(t) # {}
            /\ KnownTo(t) # Unknown \/ QueueOf(t) = {}
            /\ ~session[t].aborted
            /\ session'[t].probing = FALSE /\ session'[t].first = FALSE
            /\ session'[t].generation = KnownTo(t)
            /\ session'[t].sent = QueueOf(t)
            /\ \/ /\ session[t].use = "guarded" /\ QueueOf(t) # {}
                  /\ session'[t].pc = "attempt" /\ UNCHANGED requests
               \/ /\ session[t].use # "guarded" \/ QueueOf(t) = {}
                  /\ session'[t].pc = "wait" /\ Send(t, QueueOf(t), FALSE)
            /\ UNCHANGED <<intent, prompt>>
<1> DEFINE s == session[t].subject
           known == IF session[t].first THEN generation[s] ELSE session[t].generation
           queue == IF Active(t, s) THEN Batch(s) ELSE {}
           ops == IF known = Unknown THEN {} ELSE queue
           guarded == session[t].use = "guarded" /\ ops # {}
<1>0. known = KnownTo(t) /\ queue = QueueOf(t)
  BY DEF KnownTo, QueueOf
<1>1. TabType /\ LockType /\ SessionType(session[t])
  BY TabFacts
<1>2. \/ /\ ~session[t].first /\ queue = {}
         /\ Finish(t)
         /\ UNCHANGED requests
      \/ /\ \E o : End(t, o)
         /\ UNCHANGED <<intent, prompt, requests>>
      \/ /\ session[t].first \/ queue # {}
         /\ known # Unknown \/ queue = {}
         /\ ~session[t].aborted
         /\ Move(t, [pc |-> IF guarded THEN "attempt" ELSE "wait", probing |-> FALSE,
                     sent |-> ops, generation |-> known, first |-> FALSE])
         /\ IF guarded THEN UNCHANGED requests ELSE Send(t, ops, FALSE)
         /\ UNCHANGED <<intent, prompt>>
  BY DEF ReadQueue
<1> HIDE DEF queue, known
<1>3. CASE \E o : End(t, o) /\ UNCHANGED <<intent, prompt, requests>>
  BY <1>1, <1>3, EndEffect DEF Ends
<1>4. CASE /\ session[t].first \/ queue # {}
           /\ known # Unknown \/ queue = {}
           /\ ~session[t].aborted
           /\ Move(t, [pc |-> IF guarded THEN "attempt" ELSE "wait", probing |-> FALSE,
                       sent |-> ops, generation |-> known, first |-> FALSE])
           /\ IF guarded THEN UNCHANGED requests ELSE Send(t, ops, FALSE)
           /\ UNCHANGED <<intent, prompt>>
  <2>1. ops = queue
    BY <1>4
  <2> HIDE DEF ops
  <2>2. /\ Moves(t, {"pc", "probing", "sent", "generation", "first"})
        /\ session'[t].probing = FALSE /\ session'[t].first = FALSE
        /\ session'[t].generation = known /\ session'[t].sent = ops
        /\ session'[t].pc = IF guarded THEN "attempt" ELSE "wait"
    BY <1>1, <1>4, MoveEffect DEF Moves, Changes, Fields, Idle
  <2>3. CASE guarded
    BY <1>0, <1>4, <2>1, <2>2, <2>3
  <2>4. CASE ~guarded
    BY <1>0, <1>4, <2>1, <2>2, <2>4
  <2> QED
    BY <2>3, <2>4
<1> QED
  BY <1>0, <1>2, <1>3, <1>4

\* The attempt is noted and sent, or noted and given up, or refused.
LEMMA AttemptEffect ==
  ASSUME Inv, NEW t \in Tabs, Attempt(t)
  PROVE  LET s == session[t].subject
             noted == [record EXCEPT ![s].attempted = session[t].sent]
             allowed == record[s] # NoRecord /\ Unchanged(t)
         IN  \/ Ends(t) /\ UNCHANGED requests /\ (record' = record \/ (allowed /\ record' = noted))
             \/ /\ Moves(t, {"pc"}) /\ session'[t].pc = "wait"
                /\ allowed /\ record' = noted
                /\ Send(t, session[t].sent, TRUE)
<1> DEFINE s == session[t].subject
           noted == [record EXCEPT ![s].attempted = session[t].sent]
           may == FreeFor(t, {}) /\ record[s] # NoRecord /\ Unchanged(t)
<1>1. TabType /\ LockType /\ SessionType(session[t])
  BY TabFacts
<1>2. /\ record' = IF may THEN noted ELSE record
      /\ IF may /\ ~session[t].aborted
         THEN Move(t, [pc |-> "wait"]) /\ Send(t, session[t].sent, TRUE)
         ELSE End(t, IF may THEN "aborted" ELSE "failed") /\ UNCHANGED requests
  BY DEF Attempt
<1> HIDE DEF noted
<1>3. CASE may /\ ~session[t].aborted
  <2>1. Moves(t, {"pc"}) /\ session'[t].pc = "wait"
    BY <1>1, <1>2, <1>3, MoveEffect DEF Moves, Changes, Fields, Idle
  <2> QED
    BY <1>2, <1>3, <2>1 DEF noted
<1>4. CASE ~(may /\ ~session[t].aborted)
  <2>1. Ends(t)
    BY <1>1, <1>2, <1>4, EndEffect DEF Ends
  <2> QED
    BY <1>2, <1>4, <2>1 DEF noted
<1> QED
  BY <1>3, <1>4

\* A response is recorded, and what it says decides how the session goes on.
LEMMA ApplyEffect ==
  ASSUME Inv, NEW t \in Tabs, Apply(t)
  PROVE  \/ Ends(t)
         \/ /\ ~session[t].probing
            /\ Moves(t, {"pc", "generation"})
            /\ session'[t].pc = IF session[t].use = "guarded" /\ session[t].sent # {}
                                THEN "complete" ELSE "read"
            /\ session'[t].generation = session[t].reply
         \/ /\ session[t].probing /\ Verdict(t) = "conflict"
            /\ Moves(t, {"pc", "next", "cause"})
            /\ session'[t].pc = "restore" /\ session'[t].next = Unknown
            /\ session'[t].cause = "probe"
         \/ /\ session[t].probing /\ Verdict(t) = "accepted"
            /\ Moves(t, {"pc", "first"})
            /\ session'[t].pc = "complete" /\ session'[t].first = TRUE
         \/ /\ session[t].probing /\ Verdict(t) = "empty"
            /\ Moves(t, {"pc", "first"})
            /\ session'[t].pc = "read" /\ session'[t].first = TRUE
<1>1. TabType /\ LockType /\ SessionType(session[t])
  BY TabFacts
<1>2. CASE session[t].probing /\ Verdict(t) = "partial"
  BY <1>1, <1>2, EndEffect DEF Apply, Ends
<1>3. CASE ~(session[t].probing /\ Verdict(t) = "partial")
  <2>1. Move(t, After(t))
    BY <1>3 DEF Apply
  <2>2. CASE ~session[t].probing
    <3>1. Move(t, [pc |-> IF session[t].use = "guarded" /\ session[t].sent # {}
                          THEN "complete" ELSE "read", generation |-> session[t].reply])
      BY <2>1, <2>2 DEF After
    <3>2. /\ Moves(t, {"pc", "generation"})
          /\ session'[t].pc = IF session[t].use = "guarded" /\ session[t].sent # {}
                                THEN "complete" ELSE "read"
          /\ session'[t].generation = session[t].reply
      BY <1>1, <3>1, MoveEffect DEF Moves, Changes, Fields, Idle
    <3> QED
      BY <2>2, <3>2
  <2>3. CASE session[t].probing /\ Verdict(t) = "conflict"
    <3>1. Move(t, [pc |-> "restore", next |-> Unknown, cause |-> "probe"])
      BY <2>1, <2>3 DEF After
    <3>2. /\ Moves(t, {"pc", "next", "cause"})
          /\ session'[t].pc = "restore" /\ session'[t].next = Unknown
          /\ session'[t].cause = "probe"
      BY <1>1, <3>1, MoveEffect DEF Moves, Changes, Fields, Idle
    <3> QED
      BY <2>3, <3>2
  <2>4. Verdict(t) \in {"accepted", "partial", "empty", "conflict"}
    BY DEF Verdict
  <2>5. CASE session[t].probing /\ Verdict(t) \in {"accepted", "empty"}
    <3>1. Move(t, [pc |-> IF Verdict(t) = "accepted" THEN "complete" ELSE "read",
                   first |-> TRUE])
      BY <2>1, <2>5 DEF After
    <3>2. /\ Moves(t, {"pc", "first"})
          /\ session'[t].pc = IF Verdict(t) = "accepted" THEN "complete" ELSE "read"
          /\ session'[t].first = TRUE
      BY <1>1, <3>1, MoveEffect DEF Moves, Changes, Fields, Idle
    <3> QED
      BY <2>5, <3>2
  <2> QED
    BY <1>1, <1>3, <2>2, <2>3, <2>4, <2>5 DEF SessionType
<1> QED
  BY <1>2, <1>3

\* The claim is complete, and what follows is sent without a guard.
LEMMA CompleteEffect ==
  ASSUME Inv, NEW t \in Tabs, Complete(t)
  PROVE  \/ Ends(t) /\ UNCHANGED <<record, intent>>
         \/ /\ Moves(t, {"pc", "use", "probing"})
            /\ record' = [record EXCEPT ![session[t].subject] = NoRecord]
            /\ intent' \in BOOLEAN
            /\ session'[t].pc = "read" /\ session'[t].use = "after"
            /\ session'[t].probing = FALSE
<1>1. TabType /\ LockType /\ SessionType(session[t])
  BY TabFacts
<1>2. CASE FreeFor(t, {})
  <2>1. Move(t, [pc |-> "read", use |-> "after", probing |-> FALSE])
    BY <1>2 DEF Complete
  <2>2. /\ record' = [record EXCEPT ![session[t].subject] = NoRecord]
        /\ intent' \in BOOLEAN
    BY <1>2 DEF Complete
  <2>3. /\ Moves(t, {"pc", "use", "probing"})
        /\ session'[t].pc = "read" /\ session'[t].use = "after"
        /\ session'[t].probing = FALSE
    BY <1>1, <2>1, MoveEffect DEF Moves, Changes, Fields, Idle
  <2> QED
    BY <2>2, <2>3
<1>3. CASE ~FreeFor(t, {})
  BY <1>1, <1>3, EndEffect DEF Complete, Ends
<1> QED
  BY <1>2, <1>3

NewGeneration(t) ==
  IF session[t].pc = "mismatch" THEN session[t].reply ELSE generation[session[t].subject]

\* Another generation: local data is cleared, or the user's choice restored first.
LEMMA ChangedEffect ==
  ASSUME Inv, NEW t \in Tabs, Changed(t)
  PROVE  \/ Ends(t)
         \/ /\ session[t].use = "plain" /\ session[t].pc = "mismatch"
            /\ Moves(t, {"pc", "reply"})
            /\ session'[t].pc = "clear" /\ session'[t].reply = NewGeneration(t)
         \/ /\ session[t].use # "plain"
            /\ Moves(t, {"pc", "next", "cause"})
            /\ session'[t].pc = "restore" /\ session'[t].next = NewGeneration(t)
            /\ session'[t].cause = "generation"
<1> DEFINE next == NewGeneration(t)
           fields == IF session[t].use = "plain"
                     THEN [pc |-> "clear", reply |-> next]
                     ELSE [pc |-> "restore", next |-> next, cause |-> "generation"]
           stops == \/ session[t].use = "restored" \/ next = Unknown
                    \/ session[t].use = "plain" /\ session[t].pc = "apply"
<1>1. TabType /\ LockType /\ SessionType(session[t])
  BY TabFacts
<1>2. IF stops THEN End(t, "failed") ELSE Move(t, fields)
  BY DEF Changed, NewGeneration
<1>3. session[t].pc \in {"mismatch", "apply"}
  BY DEF Changed
<1> HIDE DEF next
<1>4. CASE stops
  BY <1>1, <1>2, <1>4, EndEffect DEF Ends
<1>5. CASE ~stops /\ session[t].use = "plain"
  <2>1. Move(t, [pc |-> "clear", reply |-> next])
    BY <1>2, <1>5
  <2>2. /\ Moves(t, {"pc", "reply"})
        /\ session'[t].pc = "clear" /\ session'[t].reply = next
    BY <1>1, <2>1, MoveEffect DEF Moves, Changes, Fields, Idle
  <2> QED
    BY <1>3, <1>5, <2>2 DEF next
<1>6. CASE ~stops /\ session[t].use # "plain"
  <2>1. Move(t, [pc |-> "restore", next |-> next, cause |-> "generation"])
    BY <1>2, <1>6
  <2>2. /\ Moves(t, {"pc", "next", "cause"})
        /\ session'[t].pc = "restore" /\ session'[t].next = next
        /\ session'[t].cause = "generation"
    BY <1>1, <2>1, MoveEffect DEF Moves, Changes, Fields, Idle
  <2> QED
    BY <1>6, <2>2 DEF next
<1> QED
  BY <1>4, <1>5, <1>6

\* The user's choice is restored.
LEMMA ConflictEffect ==
  ASSUME Inv, NEW t \in Tabs, Conflict(t)
  PROVE  /\ Moves(t, {"pc", "next", "cause"})
         /\ session'[t].pc = "restore" /\ session'[t].next = Unknown
         /\ session'[t].cause = "conflict"
  BY TabFacts, MoveEffect DEF Conflict, Moves, Changes, Fields, Idle

\* The claimed events are back, and the session goes on by what it found.
LEMMA RestoreEffect ==
  ASSUME Inv, NEW t \in Tabs, Restore(t)
  PROVE  LET s == session[t].subject
             claimed == session[t].claim.claimed
         IN  \/ /\ Ends(t)
                /\ UNCHANGED <<owner, acked, record, intent, prompt, adopted>>
             \/ /\ MayReturn(s, claimed) /\ Returned(s, claimed) /\ Active(t, s)
                /\ intent' \in BOOLEAN /\ prompt' \in [Tabs -> BOOLEAN]
                /\ \A u \in Tabs \ {t} : prompt'[u] = prompt[u]
                /\ \/ Ends(t)
                   \/ /\ Moves(t, {"pc", "use", "first"})
                      /\ session'[t].pc = Resumed[session[t].cause]
                      /\ session'[t].use = "restored" /\ session'[t].first = TRUE
<1> DEFINE s == session[t].subject
           claimed == session[t].claim.claimed
           cause == session[t].cause
           may == Active(t, s) /\ FreeFor(t, {}) /\ MayReturn(s, claimed)
<1>1. TabType /\ LockType /\ SessionType(session[t])
  BY TabFacts
<1>2. IF may
      THEN /\ Returned(s, claimed)
           /\ intent' = (intent /\ cause = "generation")
           /\ prompt' = [prompt EXCEPT ![t] = @ \/ cause # "generation"]
           /\ IF cause = "probe" /\ session[t].nested THEN End(t, "ok")
              ELSE Move(t, [pc |-> Resumed[cause], use |-> "restored", first |-> TRUE])
      ELSE End(t, "failed") /\ UNCHANGED <<owner, acked, record, intent, prompt, adopted>>
  BY DEF Restore
<1>3. CASE may
  <2>1. /\ MayReturn(s, claimed) /\ Returned(s, claimed) /\ Active(t, s)
        /\ intent' \in BOOLEAN /\ prompt' \in [Tabs -> BOOLEAN]
        /\ \A u \in Tabs \ {t} : prompt'[u] = prompt[u]
    BY <1>1, <1>2, <1>3 DEF TabType
  <2>2. CASE cause = "probe" /\ session[t].nested
    <3>1. Ends(t)
      BY <1>1, <1>2, <1>3, <2>2, EndEffect DEF Ends
    <3> QED
      BY <2>1, <3>1
  <2>3. CASE ~(cause = "probe" /\ session[t].nested)
    <3>1. Move(t, [pc |-> Resumed[cause], use |-> "restored", first |-> TRUE])
      BY <1>2, <1>3, <2>3
    <3>2. /\ Moves(t, {"pc", "use", "first"})
          /\ session'[t].pc = Resumed[session[t].cause]
          /\ session'[t].use = "restored" /\ session'[t].first = TRUE
      BY <1>1, <3>1, MoveEffect DEF Moves, Changes, Fields, Idle
    <3> QED
      BY <2>1, <3>2
  <2> QED
    BY <2>2, <2>3
<1>4. CASE ~may
  <2>1. Ends(t)
    BY <1>1, <1>2, <1>4, EndEffect DEF Ends
  <2> QED
    BY <1>2, <1>4, <2>1
<1> QED
  BY <1>3, <1>4

\* The account's data gives way, in a session that restored the choice first.
LEMMA ReplaceEffect ==
  ASSUME Inv, NEW t \in Tabs, Replace(t)
  PROVE  LET s == session[t].subject
         IN  \/ Ends(t) /\ UNCHANGED account
             \/ /\ OthersKept(t) /\ UNCHANGED deletion /\ DeletionKept(t) /\ LockType'
                /\ Cleared(s, session[t].next) /\ Active(t, s)
                /\ DOMAIN session'[t] = Fields /\ Changes(t, {"pc"})
                /\ session'[t].pc = "read"
<1> DEFINE s == session[t].subject
           may == Active(t, s) /\ FreeFor(t, {t}) /\ generation[s] = session[t].enrolling
<1>1. TabType /\ LockType /\ SessionType(session[t])
  BY TabFacts
<1>2. IF may
      THEN /\ Cleared(s, session[t].next)
           /\ lock' = [lock EXCEPT ![s] = Nobody]
           /\ session' = [session EXCEPT ![t].pc = "read"]
           /\ UNCHANGED deletion
      ELSE End(t, "failed") /\ UNCHANGED account
  BY DEF Replace
<1>3. CASE may
  <2>1. /\ OthersKept(t) /\ UNCHANGED deletion /\ DeletionKept(t)
        /\ DOMAIN session'[t] = Fields /\ Changes(t, {"pc"})
        /\ session'[t].pc = "read"
    BY <1>1, <1>2, <1>3
    DEF TabType, SessionType, OthersKept, DeletionKept, Changes, Fields, Idle
  <2>2. LockType'
    BY <1>1, <1>2, <1>3 DEF LockType
  <2> QED
    BY <1>2, <1>3, <2>1, <2>2
<1>4. CASE ~may
  BY <1>1, <1>2, <1>4, EndEffect DEF Ends
<1> QED
  BY <1>3, <1>4

\* The same in an ordinary sync.
LEMMA ClearStaleEffect ==
  ASSUME Inv, NEW t \in Tabs, ClearStale(t)
  PROVE  LET s == session[t].subject
         IN  \/ Ends(t) /\ UNCHANGED account
             \/ /\ OthersKept(t) /\ UNCHANGED deletion /\ DeletionKept(t) /\ LockType'
                /\ Cleared(s, session[t].reply) \/ UNCHANGED account
                /\ Active(t, s)
                /\ DOMAIN session'[t] = Fields /\ Changes(t, {"pc", "first"})
                /\ session'[t].pc = "read" /\ session'[t].first = TRUE
<1> DEFINE s == session[t].subject
           may == Active(t, s) /\ FreeFor(t, {t})
<1>1. TabType /\ LockType /\ SessionType(session[t])
  BY TabFacts
<1>2. IF may
      THEN /\ session' = [session EXCEPT ![t].pc = "read", ![t].first = TRUE]
           /\ IF generation[s] = session[t].generation
              THEN Cleared(s, session[t].reply) /\ lock' = [lock EXCEPT ![s] = Nobody]
              ELSE UNCHANGED <<account, lock>>
           /\ UNCHANGED deletion
      ELSE End(t, "failed") /\ UNCHANGED account
  BY DEF ClearStale
<1>3. CASE may
  <2>1. /\ OthersKept(t) /\ UNCHANGED deletion /\ DeletionKept(t)
        /\ DOMAIN session'[t] = Fields /\ Changes(t, {"pc", "first"})
        /\ session'[t].pc = "read" /\ session'[t].first = TRUE
    BY <1>1, <1>2, <1>3
    DEF TabType, SessionType, OthersKept, DeletionKept, Changes, Fields, Idle
  <2>2. LockType'
    BY <1>1, <1>2, <1>3 DEF LockType
  <2> QED
    BY <1>2, <1>3, <2>1, <2>2
<1>4. CASE ~may
  BY <1>1, <1>2, <1>4, EndEffect DEF Ends
<1> QED
  BY <1>3, <1>4

\* What becomes of the anonymous events is decided.
LEMMA ReconcileEffect ==
  ASSUME Inv, NEW t \in Tabs, Reconcile(t)
  PROVE  /\ intent' \in BOOLEAN /\ prompt' \in [Tabs -> BOOLEAN]
         /\ \A u \in Tabs \ {t} : prompt'[u] = prompt[u]
         /\ Ends(t) \/ (Moves(t, {"pc"}) /\ session'[t].pc = "claim" /\ ~prompt'[t])
<1>1. TabType /\ LockType /\ SessionType(session[t])
  BY TabFacts
<1>2. /\ intent' \in BOOLEAN /\ prompt' \in [Tabs -> BOOLEAN]
      /\ \A u \in Tabs \ {t} : prompt'[u] = prompt[u]
  BY <1>1 DEF Reconcile, TabType
<1>3. CASE \E o : End(t, o)
  BY <1>1, <1>2, <1>3, EndEffect DEF Ends
<1>4. CASE Move(t, [pc |-> "claim"]) /\ prompt' = [prompt EXCEPT ![t] = FALSE]
  <2>1. Moves(t, {"pc"}) /\ session'[t].pc = "claim"
    BY <1>1, <1>4, MoveEffect DEF Moves, Changes, Fields, Idle
  <2>2. ~prompt'[t]
    BY <1>1, <1>4 DEF TabType
  <2> QED
    BY <1>2, <2>1, <2>2
<1> QED
  BY <1>3, <1>4 DEF Reconcile

\* The anonymous events are claimed, and the session resumes the claim.
LEMMA ClaimEffect ==
  ASSUME Inv, NEW t \in Tabs, Claim(t)
  PROVE  LET s == session[t].subject
             anonymous == OwnedBy(Anonymous)
         IN  \/ Ends(t) /\ UNCHANGED <<owner, acked, record, adopted>>
             \/ /\ Claimed(s, FALSE) /\ Active(t, s)
                /\ record' = IF anonymous = {} THEN record
                             ELSE [record EXCEPT ![s] = [claimed |-> anonymous,
                                                         attempted |-> {}]]
                /\ Moves(t, {"pc", "nested"})
                /\ session'[t].pc = "record" /\ session'[t].nested = TRUE
<1> DEFINE s == session[t].subject
           anonymous == OwnedBy(Anonymous)
           may == Active(t, s) /\ FreeFor(t, {})
           noted == IF anonymous = {} THEN record
                    ELSE [record EXCEPT ![s] = [claimed |-> anonymous, attempted |-> {}]]
<1>1. TabType /\ LockType /\ SessionType(session[t])
  BY TabFacts
<1>2. IF may
      THEN /\ Claimed(s, FALSE)
           /\ record' = noted
           /\ Move(t, [pc |-> "record", nested |-> TRUE])
      ELSE End(t, "failed") /\ UNCHANGED <<owner, acked, record, adopted>>
  BY DEF Claim
<1> HIDE DEF noted
<1>3. CASE may
  <2>1. Moves(t, {"pc", "nested"}) /\ session'[t].pc = "record" /\ session'[t].nested = TRUE
    BY <1>1, <1>2, <1>3, MoveEffect DEF Moves, Changes, Fields, Idle
  <2> QED
    BY <1>2, <1>3, <2>1 DEF noted
<1>4. CASE ~may
  <2>1. Ends(t)
    BY <1>1, <1>2, <1>4, EndEffect DEF Ends
  <2> QED
    BY <1>2, <1>4, <2>1
<1> QED
  BY <1>3, <1>4

\* An answer reaches the tab that waits for it, if one does.
LEMMA DeliverEffect ==
  ASSUME Inv, NEW r \in requests, r.tab # Nobody, NEW response, Deliver(r, response),
         r.kind = "sync"
  PROVE  /\ r.tab \in Tabs /\ OthersKept(r.tab) /\ session[r.tab].pc = "wait"
         /\ DOMAIN session'[r.tab] = Fields
         /\ \A f \in Fields : session'[r.tab][f] = IF f \in DOMAIN response THEN response[f]
                                                   ELSE session[r.tab][f]
<1> DEFINE t == r.tab
<1>1. t \in Tabs /\ TabType /\ RequestInv(r) /\ SessionType(session[t])
  BY TabFacts DEF Inv, RequestInv
<1>2. session' = [session EXCEPT ![t] = With(@, response)]
  BY DEF Deliver
<1> QED
  BY <1>1, <1>2 DEF TabType, SessionType, With, OthersKept, RequestInv

\* The service answers with the account's epoch: a new account, another generation.
LEMMA ServeEpochEffect ==
  ASSUME Inv, NEW r \in requests, r.kind = "sync", ServeEpoch(r)
  PROVE  LET s == r.subject
         IN  /\ \/ epoch[s] = Unknown /\ issued' = issued + 1
                   /\ epoch' = [epoch EXCEPT ![s] = issued']
                \/ epoch[s] \notin {Unknown, r.generation} /\ r.generation # Unknown
                   /\ UNCHANGED <<issued, epoch>>
             /\ UNCHANGED log
             /\ r.tab = Nobody => session' = session
             /\ r.tab # Nobody =>
                  /\ OthersKept(r.tab) /\ DOMAIN session'[r.tab] = Fields
                  /\ session[r.tab].pc = "wait"
                  /\ \/ /\ r.generation = Unknown
                        /\ Changes(r.tab, {"pc", "reply", "rows"})
                        /\ session'[r.tab].pc = "apply"
                        /\ session'[r.tab].reply = epoch'[s]
                        /\ session'[r.tab].rows = log'[s]
                     \/ /\ r.generation # Unknown
                        /\ Changes(r.tab, {"pc", "reply"})
                        /\ session'[r.tab].pc = "mismatch"
                        /\ session'[r.tab].reply = epoch'[s]
<1> DEFINE s == r.subject
<1>1. epoch \in [Subjects -> Issued] /\ s \in Subjects
  BY DEF Inv, ServiceType, RequestInv
<1>2. /\ \/ epoch[s] = Unknown /\ issued' = issued + 1
            /\ epoch' = [epoch EXCEPT ![s] = issued']
         \/ epoch[s] \notin {Unknown, r.generation} /\ r.generation # Unknown
            /\ UNCHANGED <<issued, epoch>>
      /\ UNCHANGED log
  BY <1>1 DEF ServeEpoch
<1>3. r.tab = Nobody => session' = session
  BY DEF ServeEpoch, Deliver
<1>4. CASE r.tab # Nobody /\ r.generation = Unknown
  <2>1. Deliver(r, [pc |-> "apply", reply |-> epoch'[s], rows |-> log'[s]])
    BY <1>4 DEF ServeEpoch, Log
  <2>2. /\ OthersKept(r.tab) /\ DOMAIN session'[r.tab] = Fields
        /\ session[r.tab].pc = "wait"
        /\ Changes(r.tab, {"pc", "reply", "rows"})
        /\ session'[r.tab].pc = "apply"
        /\ session'[r.tab].reply = epoch'[s]
        /\ session'[r.tab].rows = log'[s]
    BY <1>4, <2>1, DeliverEffect DEF Changes, Fields, Idle
  <2> QED
    BY <1>2, <1>4, <2>2
<1>5. CASE r.tab # Nobody /\ r.generation # Unknown
  <2>1. Deliver(r, [pc |-> "mismatch", reply |-> epoch'[s]])
    BY <1>5 DEF ServeEpoch
  <2>2. /\ OthersKept(r.tab) /\ DOMAIN session'[r.tab] = Fields
        /\ session[r.tab].pc = "wait"
        /\ Changes(r.tab, {"pc", "reply"})
        /\ session'[r.tab].pc = "mismatch"
        /\ session'[r.tab].reply = epoch'[s]
    BY <1>5, <2>1, DeliverEffect DEF Changes, Fields, Idle
  <2> QED
    BY <1>2, <1>5, <2>2
<1> QED
  BY <1>2, <1>3, <1>4, <1>5

\* The service takes the batch in, or refuses a guarded one.
LEMMA ServeBatchEffect ==
  ASSUME Inv, NEW r \in requests, r.kind = "sync", ServeBatch(r)
  PROVE  LET s == r.subject
         IN  /\ epoch[s] # Unknown /\ r.generation \in {Unknown, epoch[s]}
             /\ UNCHANGED <<issued, epoch>>
             /\ r.tab = Nobody => session' = session
             /\ r.tab # Nobody => /\ OthersKept(r.tab) /\ DOMAIN session'[r.tab] = Fields
                                  /\ session[r.tab].pc = "wait"
             /\ \/ /\ Conflicts(r) /\ UNCHANGED log
                   /\ r.tab # Nobody => /\ Changes(r.tab, {"pc"})
                                        /\ session'[r.tab].pc = "conflict"
                \/ /\ ~Conflicts(r)
                   /\ log' = [log EXCEPT ![s] = @ \cup r.ops]
                   /\ r.tab # Nobody => /\ Changes(r.tab, {"pc", "reply", "rows"})
                                        /\ session'[r.tab].pc = "apply"
                                        /\ session'[r.tab].reply = epoch[s]
                                        /\ session'[r.tab].rows = log'[s]
<1> DEFINE s == r.subject
<1>1. /\ epoch[s] # Unknown /\ r.generation \in {Unknown, epoch[s]}
      /\ UNCHANGED <<issued, epoch>>
  BY DEF ServeBatch
<1>2. r.tab = Nobody => session' = session
  BY DEF ServeBatch, Deliver
<1>3. CASE Conflicts(r)
  <2>1. UNCHANGED log /\ Deliver(r, [pc |-> "conflict"])
    BY <1>3 DEF ServeBatch
  <2>2. r.tab # Nobody => /\ OthersKept(r.tab) /\ DOMAIN session'[r.tab] = Fields
                          /\ session[r.tab].pc = "wait"
                          /\ Changes(r.tab, {"pc"})
                          /\ session'[r.tab].pc = "conflict"
    BY <2>1, DeliverEffect DEF Changes, Fields, Idle
  <2> QED
    BY <1>1, <1>2, <1>3, <2>1, <2>2
<1>4. CASE ~Conflicts(r)
  <2>1. /\ log' = [log EXCEPT ![s] = @ \cup r.ops]
        /\ Deliver(r, [pc |-> "apply", reply |-> epoch[s], rows |-> log'[s]])
    BY <1>1, <1>4 DEF ServeBatch, Log
  <2>2. r.tab # Nobody => /\ OthersKept(r.tab) /\ DOMAIN session'[r.tab] = Fields
                          /\ session[r.tab].pc = "wait"
                          /\ Changes(r.tab, {"pc", "reply", "rows"})
                          /\ session'[r.tab].pc = "apply"
                          /\ session'[r.tab].reply = epoch[s]
                          /\ session'[r.tab].rows = log'[s]
    <3> SUFFICES ASSUME r.tab # Nobody
                 PROVE  /\ OthersKept(r.tab) /\ DOMAIN session'[r.tab] = Fields
                        /\ session[r.tab].pc = "wait"
                        /\ Changes(r.tab, {"pc", "reply", "rows"})
                        /\ session'[r.tab].pc = "apply"
                        /\ session'[r.tab].reply = epoch[s]
                        /\ session'[r.tab].rows = log'[s]
      OBVIOUS
    <3> DEFINE response == [pc |-> "apply", reply |-> epoch[s], rows |-> log'[s]]
    <3>1. /\ OthersKept(r.tab) /\ session[r.tab].pc = "wait"
          /\ DOMAIN session'[r.tab] = Fields
          /\ \A f \in Fields : session'[r.tab][f] = IF f \in DOMAIN response THEN response[f]
                                                   ELSE session[r.tab][f]
      BY <2>1, DeliverEffect
    <3> QED
      BY <3>1 DEF Changes, Fields, Idle
  <2> QED
    BY <1>1, <1>2, <1>4, <2>1, <2>2
<1> QED
  BY <1>3, <1>4

-----------------------------------------------------------------------------
(* What the transactions do to the events and the records.                     *)

\* Recording a response gives its events to the account of the session.
LEMMA RecordedStore ==
  ASSUME Inv, NEW t \in Tabs, session[t].pc = "apply", Recorded(t),
         session[t].rows \cup session[t].sent # {} => ~Collides(t),
         UNCHANGED <<record, home, slipped, adopted, issued, epoch, log>>, LockType'
  PROVE  StoreType' /\ ServiceType'
<1> DEFINE a == session[t].subject
           rows == session[t].rows
<1>1. /\ a \in Subjects /\ rows \subseteq All /\ session[t].sent \subseteq rows
      /\ session[t].reply \in Issued
  BY DEF Inv, TabInv, SessionType, SessionFlow
<1>2. /\ generation' = [generation EXCEPT ![a] = session[t].reply]
      /\ owner' = [e \in All |-> IF e \in rows THEN a ELSE owner[e]]
      /\ acked' = acked \cup rows
  BY <1>1 DEF Recorded
<1> HIDE DEF a, rows
<1>3. StoreType'
  BY <1>1, <1>2, Names DEF Inv, StoreType, LockType, Domains, All
<1>4. ServiceType'
  BY <1>1, <1>2 DEF Inv, ServiceType, Issued
<1> QED
  BY <1>3, <1>4

\* Claiming gives every anonymous event to an account.
LEMMA ClaimedStore ==
  ASSUME Inv, NEW s \in Subjects, NEW merged, Claimed(s, merged),
         \/ record' = record
         \/ OwnedBy(Anonymous) # {} /\ record' = [record EXCEPT ![s] = [claimed |-> OwnedBy(Anonymous), attempted |-> {}]],
         UNCHANGED <<home, slipped>>, LockType'
  PROVE  StoreType'
<1> DEFINE anonymous == OwnedBy(Anonymous)
<1>1. anonymous \subseteq Events
  BY DEF OwnedBy, Inv, StoreType, All
<1>2. /\ owner' = [e \in All |-> IF e \in anonymous THEN s ELSE owner[e]]
      /\ acked' = acked \ anonymous
      /\ DOMAIN adopted' = All
  BY DEF Claimed
<1>3. /\ record' \in [Subjects -> Records]
      /\ \A x \in Subjects : record'[x].claimed = {} => record'[x] = NoRecord
  <2>1. record' \in [Subjects -> Records]
    BY <1>1 DEF Inv, StoreType, Records
  <2> QED
    BY <2>1 DEF Inv, StoreType, Records
<1>4. \A e \in Others : owner'[e] = owner[e] /\ (e \in acked => e \in acked')
  BY <1>1, <1>2, EnrollmentType DEF All
<1>5. owner' \in [All -> Domains \cup {Unborn, Gone}]
  BY <1>2 DEF Inv, StoreType, Domains
<1>6. acked' \subseteq {e \in All : owner'[e] \in Subjects}
  BY <1>2, <1>5 DEF Inv, StoreType
<1> HIDE DEF anonymous
<1> QED
  BY <1>2, <1>3, <1>4, <1>5, <1>6 DEF Inv, StoreType, LockType, All

\* Returning what was claimed makes it anonymous again, and unacknowledged.
LEMMA ReturnedStore ==
  ASSUME Inv, NEW s \in Subjects, NEW claimed, claimed \subseteq Events, Returned(s, claimed),
         UNCHANGED <<home, slipped>>, LockType'
  PROVE  StoreType'
<1> DEFINE back == claimed \cap OwnedBy(s)
<1>1. CASE record[s] = NoRecord
  BY <1>1 DEF Returned, Inv, StoreType, LockType
<1>2. CASE record[s] # NoRecord
  <2>1. /\ owner' = [e \in All |-> IF e \in back THEN Anonymous ELSE owner[e]]
        /\ acked' = acked \ back
        /\ record' = [record EXCEPT ![s] = NoRecord]
        /\ DOMAIN adopted' = All
    BY <1>2 DEF Returned
  <2>2. \A e \in Others : owner'[e] = owner[e] /\ (e \in acked => e \in acked')
    BY <2>1, EnrollmentType DEF All
  <2> HIDE DEF back
  <2>3. owner' \in [All -> Domains \cup {Unborn, Gone}]
    BY <2>1 DEF Inv, StoreType, Domains
  <2>4. acked' \subseteq {e \in All : owner'[e] \in Subjects}
    BY <2>1, <2>3 DEF Inv, StoreType
  <2>5. /\ record' \in [Subjects -> Records]
        /\ \A x \in Subjects : record'[x].claimed = {} => record'[x] = NoRecord
    BY <2>1 DEF Inv, StoreType, Records, NoRecord
  <2> QED
    BY <2>1, <2>2, <2>3, <2>4, <2>5 DEF Inv, StoreType, LockType, All
<1> QED
  BY <1>1, <1>2

\* Clearing an account leaves nothing of it.
LEMMA ClearedStore ==
  ASSUME Inv, NEW s \in Subjects, NEW next \in Issued, Cleared(s, next),
         UNCHANGED <<issued, epoch, log, home, slipped, adopted>>, LockType'
  PROVE  StoreType' /\ ServiceType'
<1>1. /\ owner' = [e \in All |-> IF owner[e] = s THEN Gone ELSE owner[e]]
      /\ acked' = acked \ OwnedBy(s)
      /\ generation' = [generation EXCEPT ![s] = next]
      /\ record' = [record EXCEPT ![s] = NoRecord]
  BY DEF Cleared
<1>2. ServiceType'
  BY <1>1 DEF Inv, ServiceType, Issued
<1>3. owner' \in [All -> Domains \cup {Unborn, Gone}]
  BY <1>1 DEF Inv, StoreType
<1>4. acked' \subseteq {e \in All : owner'[e] \in Subjects}
  BY <1>1, <1>3 DEF Inv, StoreType, OwnedBy
<1>5. \A e \in Others : owner'[e] # Anonymous /\ (owner'[e] \in Subjects => e \in acked')
  BY <1>1, Names DEF Inv, StoreType, OwnedBy, All
<1>6. /\ record' \in [Subjects -> Records]
      /\ \A x \in Subjects : record'[x].claimed = {} => record'[x] = NoRecord
  BY <1>1 DEF Inv, StoreType, Records, NoRecord
<1> QED
  BY <1>2, <1>3, <1>4, <1>5, <1>6 DEF Inv, StoreType, LockType

\* A request goes on as it was, but tab t does not wait for it.
LeftBy(r, t, q) ==
  /\ r.tab \in {q.tab, Nobody} /\ r.tab # t
  /\ r.kind = q.kind /\ r.subject = q.subject /\ DOMAIN r = DOMAIN q
  /\ r = [f \in DOMAIN r |-> r[f]]
  /\ r.kind = "sync" => /\ r.ops = q.ops /\ r.generation = q.generation
                        /\ r.guarded = q.guarded

\* The requests of a tab that gives up waiting go on without it.
LEMMA AbandonedRequests ==
  ASSUME Inv, NEW t \in Tabs, requests' = Abandoned(t)
  PROVE  \A r \in requests' : \E q \in requests : LeftBy(r, t, q)
<1>1. ASSUME NEW r \in Abandoned(t) PROVE \E q \in requests : LeftBy(r, t, q)
  <2>1. PICK q \in requests : r = IF q.tab = t THEN [q EXCEPT !.tab = Nobody] ELSE q
    BY DEF Abandoned
  <2>2. RequestInv(q)
    BY DEF Inv
  <2>3. CASE q.tab # t
    BY <2>1, <2>2, <2>3 DEF RequestInv, LeftBy
  <2>4. CASE q.tab = t
    <3>1. r = [q EXCEPT !.tab = Nobody]
      BY <2>1, <2>4
    <3>2. CASE q.kind = "sync"
      BY <2>2, <3>1, <3>2, Names DEF RequestInv, SyncFields, LeftBy
    <3>3. CASE q.kind # "sync"
      BY <2>2, <3>1, <3>3, Names DEF RequestInv, LeftBy
    <3> QED
      BY <3>2, <3>3
  <2> QED
    BY <2>3, <2>4
<1> QED
  BY <1>1

-----------------------------------------------------------------------------
(* The types, step by step.                                                    *)

\* A step of a session that sends nothing and touches no store keeps the rest.
LEMMA QuietStep ==
  ASSUME Inv, NEW t \in Tabs, session[t].pc \notin {"idle", "wait"},
         \/ Ends(t)
         \/ /\ OthersKept(t) /\ DeletionKept(t) /\ LockType'
            /\ SessionType(session[t])' /\ SessionFlow(session[t])'
            /\ session'[t].pc # "idle" => /\ session'[t].subject = session[t].subject
                                          /\ session'[t].aborted = session[t].aborted,
         intent' \in BOOLEAN, prompt' \in [Tabs -> BOOLEAN],
         UNCHANGED <<issued, subject, dismissed, adding>>
  PROVE  /\ \A u \in Tabs : TabInv(u)'
         /\ \A r \in requests : RequestInv(r)'
         /\ TabType' /\ LockType'
<1>1. issued' \in Nat
  BY DEF Inv, ServiceType
<1>2. /\ OthersKept(t) /\ DeletionKept(t) /\ LockType'
      /\ SessionType(session[t])' /\ SessionFlow(session[t])'
      /\ session'[t].pc # "idle" => /\ session'[t].subject = session[t].subject
                                    /\ session'[t].aborted = session[t].aborted
  <2>1. CASE Ends(t)
    <3>1. session'[t].pc = "idle"
      BY <2>1 DEF Ends, Idle
    <3> QED
      BY <1>1, <2>1, <3>1, IdleType DEF Ends
  <2> QED
    BY <2>1
<1>3. TabType'
  BY <1>2 DEF Inv, TabType, OthersKept, DeletionKept
<1> QED
  BY <1>2, <1>3, SessionStep

\* A step that leaves the store alone keeps its type.
LEMMA StoreFrame ==
  ASSUME Inv, LockType', UNCHANGED <<account, history>>
  PROVE  StoreType'
  BY DEF Inv, StoreType, LockType, account, history

\* One that leaves the service and the generations alone keeps theirs.
LEMMA ServiceFrame ==
  ASSUME Inv, UNCHANGED <<service, generation>>
  PROVE  ServiceType'
  BY DEF Inv, ServiceType, Issued, service

\* The parts of a session fit after it read the record, resumed or not.
LEMMA ReadRecordTypes == ASSUME Inv, NEW t \in Tabs, ReadRecord(t) PROVE Inv'
<1>1. TabType /\ LockType /\ TabInv(t) /\ SessionType(session[t]) /\ issued \in Nat
  BY TabFacts
<1>2. session[t].pc = "record"
  BY DEF ReadRecord
<1>3. record[session[t].subject] \in Records
  BY <1>1, <1>2 DEF Inv, StoreType, SessionType
<1>4. \/ Ends(t)
      \/ /\ Moves(t, {"pc", "use", "first"})
         /\ session'[t].pc = "read" /\ session'[t].use = "plain" /\ session'[t].first
      \/ /\ Moves(t, {"pc", "use", "first", "claim", "enrolling"})
         /\ session'[t].pc \in {"read", "probe"}
         /\ session'[t].use = "guarded" /\ session'[t].first
         /\ session'[t].claim \in Records
  BY <1>3, ReadRecordEffect
<1>5. UNCHANGED <<service, account, intent, user, prompt, adding, requests, acts, history>>
  BY DEF ReadRecord
<1>6. \/ Ends(t)
      \/ /\ OthersKept(t) /\ DeletionKept(t) /\ LockType'
         /\ SessionType(session[t])' /\ SessionFlow(session[t])'
         /\ session'[t].pc # "idle" => /\ session'[t].subject = session[t].subject
                                       /\ session'[t].aborted = session[t].aborted
  BY <1>1, <1>2, <1>4, <1>5
  DEF Moves, Changes, Fields, Idle, SessionType, SessionFlow, Phases, Uses, Issued, LockType,
      service, Started, Current
<1> QED
  BY <1>1, <1>2, <1>5, <1>6, QuietStep, StoreFrame, ServiceFrame
  DEF Inv, TabType, service, account, user

\* What a session sends is what it waits for.
LEMMA SendTypes ==
  ASSUME Inv, NEW t \in Tabs, NEW ops, NEW guarded \in BOOLEAN, Send(t, ops, guarded),
         session'[t].pc = "wait", SessionType(session[t])', SessionFlow(session[t])',
         session'[t].subject = session[t].subject, session'[t].sent = ops,
         guarded <=> (session'[t].use = "guarded" /\ ~session'[t].probing /\ ops # {}),
         \A r \in requests : RequestInv(r)'
  PROVE  \A r \in requests' : RequestInv(r)'
<1>1. PICK new : new = [kind |-> "sync", tab |-> t, subject |-> session[t].subject,
                         ops |-> ops, generation |-> session'[t].generation,
                         guarded |-> guarded]
  OBVIOUS
<1>2. requests' = requests \cup {new}
  BY <1>1 DEF Send
<1>3. /\ new.kind = "sync" /\ new.tab = t /\ new.subject = session'[t].subject
      /\ new.ops = session'[t].sent /\ new.generation = session'[t].generation
      /\ new.guarded \in BOOLEAN
      /\ new.guarded <=> (session'[t].use = "guarded" /\ ~session'[t].probing /\ ops # {})
      /\ DOMAIN new = SyncFields /\ new = [f \in DOMAIN new |-> new[f]]
  BY <1>1 DEF SyncFields
<1>4. RequestInv(new)'
  BY <1>3 DEF RequestInv, SessionType, SessionFlow
<1> QED
  BY <1>2, <1>4

\* A probe is sent from an account that has a generation, with nothing in it.
LEMMA ProbeTypes == ASSUME Inv, NEW t \in Tabs, Probe(t) PROVE Inv'
<1>1. TabType /\ LockType /\ TabInv(t) /\ SessionType(session[t]) /\ issued \in Nat
  BY TabFacts
<1>2. session[t].pc = "probe"
  BY DEF Probe
<1>3. UNCHANGED <<service, account, intent, user, prompt, adding, acts, history>>
  BY DEF Probe
<1>4. generation[session[t].subject] \in Issued
  BY <1>1, <1>2 DEF Inv, ServiceType, SessionType
<1>5. CASE Ends(t) /\ UNCHANGED requests
  BY <1>1, <1>2, <1>3, <1>5, QuietStep, StoreFrame, ServiceFrame
  DEF Inv, TabType, service, account, user
<1>6. CASE /\ Moves(t, {"pc", "probing", "sent", "generation"})
           /\ generation[session[t].subject] # Unknown
           /\ session'[t].pc = "wait" /\ session'[t].probing = TRUE /\ session'[t].sent = {}
           /\ session'[t].generation = generation[session[t].subject]
           /\ Send(t, {}, FALSE)
  <2>0. session[t].use = "guarded"
    BY <1>1, <1>2 DEF TabInv, SessionFlow
  <2>1. /\ OthersKept(t) /\ DeletionKept(t) /\ LockType'
        /\ SessionType(session[t])' /\ SessionFlow(session[t])'
        /\ session'[t].subject = session[t].subject
        /\ session'[t].aborted = session[t].aborted
    BY <1>1, <1>2, <1>3, <1>4, <1>6, <2>0
    DEF Moves, Changes, Fields, Idle, SessionType, SessionFlow, Phases, Uses, Issued, LockType,
        service, Started, Current
  <2>2. /\ \A u \in Tabs : TabInv(u)'
        /\ \A r \in requests : RequestInv(r)'
        /\ TabType' /\ LockType'
    BY <1>1, <1>2, <1>3, <2>1, QuietStep DEF TabType, service, user
  <2>3. \A r \in requests' : RequestInv(r)'
    BY <1>6, <2>1, <2>2, SendTypes
  <2>4. StoreType' /\ ServiceType'
    BY <1>3, <2>2, StoreFrame, ServiceFrame DEF account
  <2> QED
    BY <2>2, <2>3, <2>4 DEF Inv
<1> QED
  BY <1>5, <1>6, ProbeEffect

\* What a session reads of the queue is made here.
LEMMA QueueType ==
  ASSUME Inv, NEW t \in Tabs, session[t].pc # "idle"
  PROVE  /\ KnownTo(t) \in Issued /\ QueueOf(t) \subseteq Events
         /\ QueueOf(t) \subseteq Unsynced(session[t].subject)
         /\ Unsynced(session[t].subject) \subseteq Events
<1>1. session[t].subject \in Subjects /\ session[t].generation \in Issued
  BY DEF Inv, TabInv, SessionType
<1>2. Unsynced(session[t].subject) \subseteq Events
  BY <1>1 DEF Inv, StoreType, Unsynced, OwnedBy, All
<1> QED
  BY <1>1, <1>2, BatchIsUnsynced DEF QueueOf, KnownTo, Inv, ServiceType

\* A session that synchronized goes on to reconcile, or ends.
LEMMA FinishTypes ==
  ASSUME Inv, NEW t \in Tabs, session[t].pc \notin {"idle", "wait"}, Finish(t),
         UNCHANGED <<service, account, user, adding, requests, acts, history>>
  PROVE  Inv'
<1>1. TabType /\ LockType /\ TabInv(t) /\ SessionType(session[t]) /\ issued \in Nat
  BY TabFacts
<1>2. /\ Ends(t) \/ (Moves(t, {"pc"}) /\ session'[t].pc = "reconcile")
      /\ intent' \in BOOLEAN /\ prompt' \in [Tabs -> BOOLEAN]
  BY FinishEffect
<1>3. \/ Ends(t)
      \/ /\ OthersKept(t) /\ DeletionKept(t) /\ LockType'
         /\ SessionType(session[t])' /\ SessionFlow(session[t])'
         /\ session'[t].pc # "idle" => /\ session'[t].subject = session[t].subject
                                       /\ session'[t].aborted = session[t].aborted
  BY <1>1, <1>2
  DEF Moves, Changes, Fields, Idle, SessionType, SessionFlow, Phases, Uses, Issued, LockType,
      service, Started, Current
<1> QED
  BY <1>1, <1>2, <1>3, QuietStep, StoreFrame, ServiceFrame
  DEF Inv, TabType, service, account, user

\* What is read from the queue is what the session sends, or notes first.
LEMMA ReadQueueTypes == ASSUME Inv, NEW t \in Tabs, ReadQueue(t) PROVE Inv'
<1>1. TabType /\ LockType /\ TabInv(t) /\ SessionType(session[t]) /\ issued \in Nat
  BY TabFacts
<1>2. session[t].pc = "read"
  BY DEF ReadQueue
<1>3. UNCHANGED <<service, account, user, adding, acts, history>>
  BY DEF ReadQueue
<1>4. KnownTo(t) \in Issued /\ QueueOf(t) \subseteq Events
  BY <1>2, QueueType
<1>5. CASE Finish(t) /\ UNCHANGED requests
  BY <1>2, <1>3, <1>5, FinishTypes
<1>6. CASE Ends(t) /\ UNCHANGED <<intent, prompt, requests>>
  BY <1>1, <1>2, <1>3, <1>6, QuietStep, StoreFrame, ServiceFrame
  DEF Inv, TabType, service, account, user
<1>7. ASSUME /\ Moves(t, {"pc", "probing", "sent", "generation", "first"})
             /\ KnownTo(t) # Unknown \/ QueueOf(t) = {}
             /\ session'[t].probing = FALSE /\ session'[t].first = FALSE
             /\ session'[t].generation = KnownTo(t)
             /\ session'[t].sent = QueueOf(t),
             \/ /\ session[t].use = "guarded" /\ QueueOf(t) # {}
                /\ session'[t].pc = "attempt" /\ UNCHANGED requests
             \/ /\ session[t].use # "guarded" \/ QueueOf(t) = {}
                /\ session'[t].pc = "wait" /\ Send(t, QueueOf(t), FALSE),
             UNCHANGED <<intent, prompt>>
      PROVE  Inv'
  <2>1. session'[t].pc \in {"attempt", "wait"}
        /\ (session'[t].pc = "attempt" => session[t].use = "guarded" /\ QueueOf(t) # {})
    BY <1>7
  <2>2. /\ OthersKept(t) /\ DeletionKept(t) /\ LockType'
        /\ SessionType(session[t])' /\ SessionFlow(session[t])'
        /\ session'[t].subject = session[t].subject
        /\ session'[t].aborted = session[t].aborted
        /\ session'[t].use = session[t].use
    BY <1>1, <1>2, <1>3, <1>4, <1>7, <2>1
    DEF Moves, Changes, Fields, Idle, SessionType, SessionFlow, Phases, Uses, Issued, LockType,
        service, Started, Current
  <2>3. /\ \A u \in Tabs : TabInv(u)'
        /\ \A r \in requests : RequestInv(r)'
        /\ TabType' /\ LockType'
    BY <1>1, <1>2, <1>3, <1>7, <2>2, QuietStep DEF TabType, service, user
  <2>4. \A r \in requests' : RequestInv(r)'
    BY <1>7, <2>2, <2>3, SendTypes
  <2>5. StoreType' /\ ServiceType'
    BY <1>3, <2>3, StoreFrame, ServiceFrame DEF account
  <2> QED
    BY <2>3, <2>4, <2>5 DEF Inv
<1> QED
  BY <1>5, <1>6, <1>7, ReadQueueEffect

\* The batch that is noted is part of a claim that exists.
LEMMA AttemptTypes == ASSUME Inv, NEW t \in Tabs, Attempt(t) PROVE Inv'
<1> DEFINE s == session[t].subject
           noted == [record EXCEPT ![s].attempted = session[t].sent]
<1>1. TabType /\ LockType /\ TabInv(t) /\ SessionType(session[t]) /\ issued \in Nat
  BY TabFacts
<1>2. session[t].pc = "attempt"
  BY DEF Attempt
<1>3. UNCHANGED <<service, owner, acked, generation, intent, user, prompt, adding, acts,
                 history>>
  BY DEF Attempt
<1>4. record' = record \/ (record[s] # NoRecord /\ record' = noted)
  BY AttemptEffect
<1>5. LockType' => StoreType'
  <2>1. s \in Subjects /\ session[t].sent \subseteq Events
    BY <1>1, <1>2 DEF SessionType
  <2>2. /\ record' \in [Subjects -> Records]
        /\ \A x \in Subjects : record'[x].claimed = {} => record'[x] = NoRecord
    BY <1>4, <2>1 DEF Inv, StoreType, Records
  <2> QED
    BY <1>3, <2>2 DEF Inv, StoreType, LockType, history
<1>6. CASE Ends(t) /\ UNCHANGED requests
  BY <1>1, <1>2, <1>3, <1>5, <1>6, QuietStep, ServiceFrame
  DEF Inv, TabType, service, user
<1>7. CASE /\ Moves(t, {"pc"}) /\ session'[t].pc = "wait"
           /\ Send(t, session[t].sent, TRUE)
  <2>1. session[t].use = "guarded" /\ ~session[t].probing /\ session[t].sent # {}
    BY <1>1, <1>2 DEF TabInv, SessionFlow
  <2>2. /\ OthersKept(t) /\ DeletionKept(t) /\ LockType'
        /\ SessionType(session[t])' /\ SessionFlow(session[t])'
        /\ session'[t].subject = session[t].subject
        /\ session'[t].aborted = session[t].aborted
        /\ session'[t].use = session[t].use /\ session'[t].probing = session[t].probing
        /\ session'[t].sent = session[t].sent
    BY <1>1, <1>2, <1>3, <1>7, <2>1
    DEF Moves, Changes, Fields, Idle, SessionType, SessionFlow, Phases, Uses, Issued, LockType,
        service, Started, Current, TabInv
  <2>3. /\ \A u \in Tabs : TabInv(u)'
        /\ \A r \in requests : RequestInv(r)'
        /\ TabType' /\ LockType'
    BY <1>1, <1>2, <1>3, <2>2, QuietStep DEF TabType, service, user
  <2>4. \A r \in requests' : RequestInv(r)'
    BY <1>7, <2>1, <2>2, <2>3, SendTypes
  <2>5. StoreType' /\ ServiceType'
    BY <1>3, <1>5, <2>3, ServiceFrame
  <2> QED
    BY <2>3, <2>4, <2>5 DEF Inv
<1> QED
  BY <1>6, <1>7, AttemptEffect

\* What is recorded is the account's own, in a generation that was issued.
LEMMA ApplyTypes == ASSUME Inv, NEW t \in Tabs, Apply(t) PROVE Inv'
<1>1. TabType /\ LockType /\ TabInv(t) /\ SessionType(session[t]) /\ issued \in Nat
  BY TabFacts
<1>2. session[t].pc = "apply" /\ Recorded(t)
      /\ (session[t].rows \cup session[t].sent # {} => ~Collides(t))
  BY DEF Apply
<1>3. UNCHANGED <<service, record, intent, user, prompt, adding, requests, acts, history>>
  BY DEF Apply
<1>4. \/ Ends(t)
      \/ /\ OthersKept(t) /\ DeletionKept(t) /\ LockType'
         /\ SessionType(session[t])' /\ SessionFlow(session[t])'
         /\ session'[t].subject = session[t].subject
         /\ session'[t].aborted = session[t].aborted
  <2>1. CASE /\ Moves(t, {"pc", "generation"}) /\ ~session[t].probing
             /\ session'[t].pc = IF session[t].use = "guarded" /\ session[t].sent # {}
                                THEN "complete" ELSE "read"
             /\ session'[t].generation = session[t].reply
    <3>1. /\ OthersKept(t) /\ DeletionKept(t) /\ LockType'
          /\ SessionType(session[t])' /\ SessionFlow(session[t])'
          /\ session'[t].subject = session[t].subject
          /\ session'[t].aborted = session[t].aborted
      BY <1>1, <1>2, <1>3, <2>1
      DEF Moves, Changes, Fields, Idle, SessionType, SessionFlow, Phases, Uses, Issued, LockType,
          service, Started, Current, TabInv, Causes, Unknown
    <3> QED
      BY <3>1
  <2>2. CASE /\ session[t].probing
             /\ Moves(t, {"pc", "next", "cause"})
             /\ session'[t].pc = "restore" /\ session'[t].next = Unknown
             /\ session'[t].cause = "probe"
    <3>1. /\ OthersKept(t) /\ DeletionKept(t) /\ LockType'
          /\ session'[t].subject = session[t].subject
          /\ session'[t].aborted = session[t].aborted
          /\ session'[t].use = session[t].use
      BY <1>1, <2>2 DEF Moves, Changes, Fields, Idle, LockType
    <3>2. Unknown \in Issued' /\ Issued' = Issued
      BY <1>1, <1>3 DEF Unknown, Issued, service
    <3>3. SessionType(session[t])'
      <4>1. /\ DOMAIN session'[t] = Fields
            /\ session'[t].nested = session[t].nested /\ session'[t].first = session[t].first
            /\ session'[t].claim = session[t].claim /\ session'[t].rows = session[t].rows
            /\ session'[t].probing = session[t].probing /\ session'[t].sent = session[t].sent
            /\ session'[t].generation = session[t].generation
            /\ session'[t].reply = session[t].reply
        BY <2>2 DEF Moves, Changes, Fields, Idle
      <4>2. session[t].subject \in Subjects
        BY <1>1, <1>2 DEF SessionType
      <4> QED
        BY <1>1, <2>2, <3>1, <3>2, <4>1, <4>2 DEF SessionType, Phases, Causes
    <3>4. session[t].use = "guarded"
      BY <1>1, <1>2, <2>2 DEF TabInv, SessionFlow, Current
    <3>5. SessionFlow(session[t])'
      BY <2>2, <3>1, <3>4 DEF SessionFlow, Current
    <3> QED
      BY <3>1, <3>3, <3>5
  <2>3. CASE /\ session[t].probing
             /\ Moves(t, {"pc", "first"})
             /\ session'[t].pc \in {"read", "complete"} /\ session'[t].first = TRUE
    <3>1. /\ OthersKept(t) /\ DeletionKept(t) /\ LockType'
          /\ SessionType(session[t])' /\ SessionFlow(session[t])'
          /\ session'[t].subject = session[t].subject
          /\ session'[t].aborted = session[t].aborted
      BY <1>1, <1>2, <1>3, <2>3
      DEF Moves, Changes, Fields, Idle, SessionType, SessionFlow, Phases, Uses, Issued, LockType,
          service, Started, Current, TabInv, Causes, Unknown
    <3> QED
      BY <3>1
  <2> QED
    BY <2>1, <2>2, <2>3, ApplyEffect
<1>5. /\ \A u \in Tabs : TabInv(u)'
      /\ \A r \in requests : RequestInv(r)'
      /\ TabType' /\ LockType'
  BY <1>1, <1>2, <1>3, <1>4, QuietStep DEF TabType, service, user
<1>6. StoreType' /\ ServiceType'
  BY <1>2, <1>3, <1>5, RecordedStore DEF history, service
<1> QED
  BY <1>3, <1>5, <1>6 DEF Inv

\* A response that cannot be recorded may still set the generation.
LEMMA CannotApplyTypes == ASSUME Inv, NEW t \in Tabs, CannotApply(t) PROVE Inv'
<1>1. TabType /\ LockType /\ TabInv(t) /\ SessionType(session[t]) /\ issued \in Nat
  BY TabFacts
<1>2. session[t].pc = "apply" /\ End(t, "failed")
  BY DEF CannotApply
<1>3. UNCHANGED <<service, owner, acked, record, intent, user, prompt, adding, requests,
                 acts, history>>
  BY DEF CannotApply
<1>4. Ends(t)
  BY <1>1, <1>2, EndEffect DEF Ends
<1>5. /\ \A u \in Tabs : TabInv(u)'
      /\ \A r \in requests : RequestInv(r)'
      /\ TabType' /\ LockType'
  BY <1>1, <1>2, <1>3, <1>4, QuietStep DEF TabType, service, user
<1>6. ServiceType'
  <2>1. generation' \in [Subjects -> Issued]
    BY <1>1, <1>2 DEF CannotApply, Inv, ServiceType, SessionType
  <2> QED
    BY <1>3, <2>1 DEF Inv, ServiceType, service, Issued
<1>7. StoreType'
  BY <1>3, <1>5 DEF Inv, StoreType, LockType, history
<1> QED
  BY <1>3, <1>5, <1>6, <1>7 DEF Inv

\* A record that is complete leaves a session without a guard.
LEMMA CompleteTypes == ASSUME Inv, NEW t \in Tabs, Complete(t) PROVE Inv'
<1>1. TabType /\ LockType /\ TabInv(t) /\ SessionType(session[t]) /\ issued \in Nat
  BY TabFacts
<1>2. session[t].pc = "complete"
  BY DEF Complete
<1>3. UNCHANGED <<service, owner, acked, generation, user, prompt, adding, requests, acts,
                 history>>
  BY DEF Complete
<1>4. intent' \in BOOLEAN
  BY <1>1, CompleteEffect DEF TabType
<1>5. \/ Ends(t)
      \/ /\ OthersKept(t) /\ DeletionKept(t) /\ LockType'
         /\ SessionType(session[t])' /\ SessionFlow(session[t])'
         /\ session'[t].subject = session[t].subject
         /\ session'[t].aborted = session[t].aborted
  <2>1. CASE /\ Moves(t, {"pc", "use", "probing"})
             /\ session'[t].pc = "read" /\ session'[t].use = "after"
             /\ session'[t].probing = FALSE
    BY <1>1, <1>2, <1>3, <2>1
    DEF Moves, Changes, Fields, Idle, SessionType, SessionFlow, Phases, Uses, Issued, LockType,
        service, Started, Current
  <2> QED
    BY <2>1, CompleteEffect
<1>6. /\ \A u \in Tabs : TabInv(u)'
      /\ \A r \in requests : RequestInv(r)'
      /\ TabType' /\ LockType'
  BY <1>1, <1>2, <1>3, <1>4, <1>5, QuietStep DEF TabType, service, user
<1>7. record' \in [Subjects -> Records]
      /\ \A x \in Subjects : record'[x].claimed = {} => record'[x] = NoRecord
  <2>1. record' = record \/ record' = [record EXCEPT ![session[t].subject] = NoRecord]
    BY CompleteEffect
  <2>2. NoRecord \in Records
    BY DEF Records, NoRecord
  <2>3. record \in [Subjects -> Records]
        /\ \A x \in Subjects : record[x].claimed = {} => record[x] = NoRecord
    BY DEF Inv, StoreType
  <2>4. CASE record' = record
    BY <2>3, <2>4
  <2>5. CASE record' = [record EXCEPT ![session[t].subject] = NoRecord]
    BY <2>2, <2>3, <2>5
  <2> QED
    BY <2>1, <2>4, <2>5
<1>8. StoreType' /\ ServiceType'
  BY <1>3, <1>6, <1>7, ServiceFrame DEF Inv, StoreType, LockType, history
<1> QED
  BY <1>3, <1>6, <1>8 DEF Inv

\* Another generation is cleared for, or leads to the choice being restored.
LEMMA ChangedTypes == ASSUME Inv, NEW t \in Tabs, Changed(t) PROVE Inv'
<1>1. TabType /\ LockType /\ TabInv(t) /\ SessionType(session[t]) /\ issued \in Nat
  BY TabFacts
<1>2. session[t].pc \in {"mismatch", "apply"} /\ session[t].subject \in Subjects
  BY <1>1 DEF Changed, SessionType
<1>3. UNCHANGED <<service, account, intent, user, prompt, adding, requests, acts, history>>
  BY DEF Changed
<1>4. NewGeneration(t) \in Issued'
  BY <1>1, <1>2, <1>3 DEF NewGeneration, SessionType, Inv, ServiceType, service, Issued
<1>5. \/ Ends(t)
      \/ /\ OthersKept(t) /\ DeletionKept(t) /\ LockType'
         /\ SessionType(session[t])' /\ SessionFlow(session[t])'
         /\ session'[t].subject = session[t].subject
         /\ session'[t].aborted = session[t].aborted
  <2>1. CASE /\ session[t].use = "plain"
             /\ Moves(t, {"pc", "reply"})
             /\ session'[t].pc = "clear" /\ session'[t].reply = NewGeneration(t)
    BY <1>1, <1>2, <1>3, <1>4, <2>1
    DEF Moves, Changes, Fields, Idle, SessionType, SessionFlow, Phases, Issued, LockType,
        service, Current
  <2>2. CASE /\ Moves(t, {"pc", "next", "cause"})
             /\ session'[t].pc = "restore" /\ session'[t].next = NewGeneration(t)
             /\ session'[t].cause = "generation"
    BY <1>1, <1>2, <1>3, <1>4, <2>2
    DEF Moves, Changes, Fields, Idle, SessionType, SessionFlow, Phases, Issued, LockType,
        service, Current, Causes
  <2> QED
    BY <2>1, <2>2, ChangedEffect
<1> QED
  BY <1>1, <1>2, <1>3, <1>5, QuietStep, StoreFrame, ServiceFrame
  DEF Inv, TabType, service, account, user

\* A conflict leads to the choice being restored.
LEMMA ConflictTypes == ASSUME Inv, NEW t \in Tabs, Conflict(t) PROVE Inv'
<1>1. TabType /\ LockType /\ TabInv(t) /\ SessionType(session[t]) /\ issued \in Nat
  BY TabFacts
<1>2. session[t].pc = "conflict" /\ session[t].use = "guarded"
  BY <1>1 DEF Conflict, TabInv, SessionFlow
<1>3. UNCHANGED <<service, account, intent, user, prompt, adding, requests, acts, history>>
  BY DEF Conflict
<1>4. Unknown \in Issued'
  BY <1>1, <1>3 DEF Unknown, Issued, service
<1>5. /\ OthersKept(t) /\ DeletionKept(t) /\ LockType'
      /\ SessionType(session[t])' /\ SessionFlow(session[t])'
      /\ session'[t].subject = session[t].subject
      /\ session'[t].aborted = session[t].aborted
  BY <1>1, <1>2, <1>3, <1>4, ConflictEffect
  DEF Moves, Changes, Fields, Idle, SessionType, SessionFlow, Phases, Issued, LockType,
      service, Current, Causes
<1> QED
  BY <1>1, <1>2, <1>3, <1>5, QuietStep, StoreFrame, ServiceFrame
  DEF Inv, TabType, service, account, user

\* A session whose choice is restored is no longer guarded.
LEMMA RestoreTypes == ASSUME Inv, NEW t \in Tabs, Restore(t) PROVE Inv'
<1> DEFINE s == session[t].subject
           claimed == session[t].claim.claimed
<1>1. TabType /\ LockType /\ TabInv(t) /\ SessionType(session[t]) /\ issued \in Nat
  BY TabFacts
<1>2. session[t].pc = "restore" /\ s \in Subjects /\ claimed \subseteq Events
  BY <1>1 DEF Restore, SessionType, Records
<1>3. UNCHANGED <<service, generation, user, adding, requests, acts, home, slipped>>
  BY DEF Restore
<1>4. \/ Ends(t) /\ UNCHANGED <<owner, acked, record, intent, prompt, adopted>>
      \/ /\ Returned(s, claimed)
         /\ intent' \in BOOLEAN /\ prompt' \in [Tabs -> BOOLEAN]
         /\ \/ Ends(t)
            \/ /\ OthersKept(t) /\ DeletionKept(t) /\ LockType'
               /\ SessionType(session[t])' /\ SessionFlow(session[t])'
               /\ session'[t].subject = session[t].subject
               /\ session'[t].aborted = session[t].aborted
  <2>1. session[t].cause \in {"probe", "conflict", "generation"}
    BY <1>1, <1>2 DEF TabInv, SessionFlow, SessionType, Causes
  <2>2. Resumed[session[t].cause] \in {"replace", "reconcile", "read"}
    BY <2>1 DEF Resumed
  <2>3. ASSUME /\ Moves(t, {"pc", "use", "first"})
               /\ session'[t].pc = Resumed[session[t].cause]
               /\ session'[t].use = "restored" /\ session'[t].first = TRUE
        PROVE  /\ OthersKept(t) /\ DeletionKept(t) /\ LockType'
               /\ SessionType(session[t])' /\ SessionFlow(session[t])'
               /\ session'[t].subject = session[t].subject
               /\ session'[t].aborted = session[t].aborted
    <3>1. session'[t].pc \in {"replace", "reconcile", "read"}
      BY <2>2, <2>3
    <3> QED
      BY <1>1, <1>2, <1>3, <2>3, <3>1
      DEF Moves, Changes, Fields, Idle, SessionType, SessionFlow, Phases, Uses, Issued,
          LockType, service, Current
  <2> QED
    BY <2>3, RestoreEffect
<1>5. /\ \A u \in Tabs : TabInv(u)'
      /\ \A r \in requests : RequestInv(r)'
      /\ TabType' /\ LockType'
  BY <1>1, <1>2, <1>3, <1>4, QuietStep DEF TabType, service, user
<1>6. StoreType'
  BY <1>2, <1>3, <1>4, <1>5, ReturnedStore DEF Inv, StoreType, LockType
<1>7. ServiceType'
  BY <1>3, ServiceFrame
<1> QED
  BY <1>3, <1>5, <1>6, <1>7 DEF Inv

\* An account whose data gave way is read from its queue again.
LEMMA ReplaceTypes == ASSUME Inv, NEW t \in Tabs, Replace(t) PROVE Inv'
<1> DEFINE s == session[t].subject
<1>1. TabType /\ LockType /\ TabInv(t) /\ SessionType(session[t]) /\ issued \in Nat
  BY TabFacts
<1>2. session[t].pc = "replace" /\ s \in Subjects /\ session[t].use # "guarded"
      /\ session[t].next \in Issued
  BY <1>1 DEF Replace, SessionType, TabInv, SessionFlow
<1>3. UNCHANGED <<service, intent, user, prompt, adding, requests, acts, history>>
  BY DEF Replace
<1>4. CASE Ends(t) /\ UNCHANGED account
  BY <1>1, <1>2, <1>3, <1>4, QuietStep, StoreFrame, ServiceFrame
  DEF Inv, TabType, service, account, user
<1>5. CASE /\ OthersKept(t) /\ UNCHANGED deletion /\ DeletionKept(t) /\ LockType'
           /\ Cleared(s, session[t].next)
           /\ DOMAIN session'[t] = Fields /\ Changes(t, {"pc"})
           /\ session'[t].pc = "read"
  <2>1. /\ SessionType(session[t])' /\ SessionFlow(session[t])'
        /\ session'[t].subject = session[t].subject
        /\ session'[t].aborted = session[t].aborted
    BY <1>1, <1>2, <1>3, <1>5
    DEF Changes, Fields, Idle, SessionType, SessionFlow, Phases, Issued, service, Current
  <2>2. /\ \A u \in Tabs : TabInv(u)'
        /\ \A r \in requests : RequestInv(r)'
        /\ TabType' /\ LockType'
    BY <1>1, <1>2, <1>3, <1>5, <2>1, QuietStep DEF TabType, service, user
  <2>3. StoreType' /\ ServiceType'
    BY <1>2, <1>3, <1>5, ClearedStore DEF service, history
  <2> QED
    BY <1>3, <2>2, <2>3 DEF Inv
<1> QED
  BY <1>4, <1>5, ReplaceEffect

\* So is one that was cleared in the generation that was sent.
LEMMA ClearStaleTypes == ASSUME Inv, NEW t \in Tabs, ClearStale(t) PROVE Inv'
<1> DEFINE s == session[t].subject
<1>1. TabType /\ LockType /\ TabInv(t) /\ SessionType(session[t]) /\ issued \in Nat
  BY TabFacts
<1>2. session[t].pc = "clear" /\ s \in Subjects /\ session[t].use = "plain"
      /\ session[t].reply \in Issued
  BY <1>1 DEF ClearStale, SessionType, TabInv, SessionFlow
<1>3. UNCHANGED <<service, intent, user, prompt, adding, requests, acts, history>>
  BY DEF ClearStale
<1>4. CASE Ends(t) /\ UNCHANGED account
  BY <1>1, <1>2, <1>3, <1>4, QuietStep, StoreFrame, ServiceFrame
  DEF Inv, TabType, service, account, user
<1>5. CASE /\ OthersKept(t) /\ UNCHANGED deletion /\ DeletionKept(t) /\ LockType'
           /\ Cleared(s, session[t].reply) \/ UNCHANGED account
           /\ DOMAIN session'[t] = Fields /\ Changes(t, {"pc", "first"})
           /\ session'[t].pc = "read" /\ session'[t].first = TRUE
  <2>1. /\ SessionType(session[t])' /\ SessionFlow(session[t])'
        /\ session'[t].subject = session[t].subject
        /\ session'[t].aborted = session[t].aborted
    BY <1>1, <1>2, <1>3, <1>5
    DEF Changes, Fields, Idle, SessionType, SessionFlow, Phases, Issued, service, Current
  <2>2. /\ \A u \in Tabs : TabInv(u)'
        /\ \A r \in requests : RequestInv(r)'
        /\ TabType' /\ LockType'
    BY <1>1, <1>2, <1>3, <1>5, <2>1, QuietStep DEF TabType, service, user
  <2>3. StoreType' /\ ServiceType'
    <3>1. CASE Cleared(s, session[t].reply)
      BY <1>2, <1>3, <1>5, <3>1, ClearedStore DEF service, history
    <3>2. CASE UNCHANGED account
      BY <1>3, <1>5, <3>2, StoreFrame, ServiceFrame DEF account
    <3> QED
      BY <1>5, <3>1, <3>2
  <2> QED
    BY <1>3, <2>2, <2>3 DEF Inv
<1> QED
  BY <1>4, <1>5, ClearStaleEffect

\* Reconciling claims, asks the user or ends the session.
LEMMA ReconcileTypes == ASSUME Inv, NEW t \in Tabs, Reconcile(t) PROVE Inv'
<1>1. TabType /\ LockType /\ TabInv(t) /\ SessionType(session[t]) /\ issued \in Nat
  BY TabFacts
<1>2. session[t].pc = "reconcile"
  BY DEF Reconcile
<1>3. UNCHANGED <<service, account, user, adding, requests, acts, history>>
  BY DEF Reconcile
<1>4. intent' \in BOOLEAN /\ prompt' \in [Tabs -> BOOLEAN]
  BY ReconcileEffect
<1>5. \/ Ends(t)
      \/ /\ OthersKept(t) /\ DeletionKept(t) /\ LockType'
         /\ SessionType(session[t])' /\ SessionFlow(session[t])'
         /\ session'[t].subject = session[t].subject
         /\ session'[t].aborted = session[t].aborted
  BY <1>1, <1>2, <1>3, ReconcileEffect
  DEF Moves, Changes, Fields, Idle, SessionType, SessionFlow, Phases, Issued, LockType,
      service, Current
<1> QED
  BY <1>1, <1>2, <1>3, <1>4, <1>5, QuietStep, StoreFrame, ServiceFrame
  DEF Inv, service, account, user

\* A claim is a set of events of this device.
LEMMA ClaimTypes == ASSUME Inv, NEW t \in Tabs, Claim(t) PROVE Inv'
<1> DEFINE s == session[t].subject
           anonymous == OwnedBy(Anonymous)
<1>1. TabType /\ LockType /\ TabInv(t) /\ SessionType(session[t]) /\ issued \in Nat
  BY TabFacts
<1>2. session[t].pc = "claim" /\ s \in Subjects
  BY <1>1 DEF Claim, SessionType
<1>3. UNCHANGED <<service, generation, intent, user, prompt, adding, requests, acts, home,
                 slipped>>
  BY DEF Claim
<1>4. CASE Ends(t) /\ UNCHANGED <<owner, acked, record, adopted>>
  BY <1>1, <1>2, <1>3, <1>4, QuietStep, StoreFrame, ServiceFrame
  DEF Inv, TabType, service, account, user, history
<1>5. CASE /\ Claimed(s, FALSE)
           /\ record' = IF anonymous = {} THEN record
                        ELSE [record EXCEPT ![s] = [claimed |-> anonymous,
                                                    attempted |-> {}]]
           /\ Moves(t, {"pc", "nested"})
           /\ session'[t].pc = "record" /\ session'[t].nested = TRUE
  <2>1. /\ OthersKept(t) /\ DeletionKept(t) /\ LockType'
        /\ SessionType(session[t])' /\ SessionFlow(session[t])'
        /\ session'[t].subject = session[t].subject
        /\ session'[t].aborted = session[t].aborted
    BY <1>1, <1>2, <1>3, <1>5
    DEF Moves, Changes, Fields, Idle, SessionType, SessionFlow, Phases, Issued, LockType,
        service, Current
  <2>2. /\ \A u \in Tabs : TabInv(u)'
        /\ \A r \in requests : RequestInv(r)'
        /\ TabType' /\ LockType'
    BY <1>1, <1>2, <1>3, <1>5, <2>1, QuietStep DEF TabType, service, user
  <2>3. StoreType'
    BY <1>2, <1>3, <1>5, <2>2, ClaimedStore
  <2>4. ServiceType'
    BY <1>3, ServiceFrame
  <2> QED
    BY <1>3, <2>2, <2>3, <2>4 DEF Inv
<1> QED
  BY <1>4, <1>5, ClaimEffect

\* What only one tab does keeps the other tabs.
OtherTabs(t) ==
  \A u \in Tabs \ {t} : /\ session'[u] = session[u] /\ deletion'[u] = deletion[u]
                        /\ subject'[u] = subject[u] /\ adding'[u] = adding[u]

\* A step of one tab keeps the others if its own parts fit.
LEMMA TabStep ==
  ASSUME Inv, NEW t \in Tabs, OtherTabs(t), issued' \in Nat, issued <= issued', TabInv(t)'
  PROVE  \A u \in Tabs : TabInv(u)'
<1>1. ASSUME NEW u \in Tabs \ {t} PROVE TabInv(u)'
  BY TabFrame DEF Inv, OtherTabs, ServiceType
<1> QED
  BY <1>1

\* A tab that stops waiting leaves its requests to the service.
LEMMA AbandonStep ==
  ASSUME Inv, NEW t \in Tabs, OtherTabs(t), requests' = Abandoned(t), UNCHANGED issued
  PROVE  \A r \in requests' : RequestInv(r)'
<1>1. ASSUME NEW r \in requests' PROVE RequestInv(r)'
  <2>1. PICK q \in requests : LeftBy(r, t, q)
    BY AbandonedRequests
  <2>2. RequestInv(q)
    BY DEF Inv
  <2>3. RequestInv(r)
    BY <2>1, <2>2 DEF RequestInv, LeftBy
  <2>4. issued \in Nat /\ r.tab \in Tabs \cup {Nobody}
    BY <2>3 DEF RequestInv, Inv, ServiceType
  <2> QED
    BY <2>1, <2>3, <2>4, RequestFrame DEF OtherTabs, LeftBy
<1> QED
  BY <1>1

\* Requests that others wait for are as they were.
LEMMA RequestStep ==
  ASSUME Inv, NEW t \in Tabs, OtherTabs(t), issued' \in Nat, issued <= issued'
  PROVE  \A r \in requests : r.tab # t => RequestInv(r)'
<1>1. ASSUME NEW r \in requests, r.tab # t PROVE RequestInv(r)'
  <2>1. RequestInv(r) /\ issued \in Nat
    BY DEF Inv, ServiceType
  <2>2. r.tab \in Tabs \cup {Nobody}
    BY <2>1 DEF RequestInv
  <2> QED
    BY <1>1, <2>1, <2>2, RequestFrame DEF OtherTabs
<1> QED
  BY <1>1

\* A tab without a session and without a deletion.
LEMMA RestingTab ==
  ASSUME issued' \in Nat, NEW t \in Tabs, session'[t] = Idle, deletion'[t] = NoDeletion,
         adding'[t] \in Subjects => subject'[t] \in {adding'[t], Nobody}
  PROVE  TabInv(t)'
<1>1. SessionType(session[t])' /\ SessionFlow(session[t])' /\ session'[t].pc = "idle"
  <2>1. session'[t].pc = "idle"
    BY DEF Idle
  <2> QED
    BY <2>1, IdleType
<1>2. DeletionType(deletion[t])' /\ deletion'[t].pc = "none"
  <2>1. DeletionType(NoDeletion)' /\ NoDeletion.pc = "none"
    BY DEF DeletionType, NoDeletion, Issued, Unknown
  <2> QED
    BY <2>1 DEF DeletionType
<1> QED
  BY <1>1, <1>2 DEF TabInv

\* An abort stops a session that waits, and is noted by another.
LEMMA AbortEffect ==
  ASSUME Inv, NEW t \in Tabs,
         session' = [session EXCEPT ![t] =
            IF @.pc \in {"idle", "wait"} THEN Idle ELSE [@ EXCEPT !.aborted = TRUE]]
  PROVE  /\ OthersKept(t)
         /\ \/ session'[t] = Idle /\ session[t].pc \in {"idle", "wait"}
            \/ /\ session[t].pc \notin {"idle", "wait"}
               /\ DOMAIN session'[t] = Fields /\ Changes(t, {"aborted"})
               /\ session'[t].aborted = TRUE
<1>1. TabType /\ SessionType(session[t])
  BY TabFacts
<1> QED
  BY <1>1 DEF TabType, SessionType, OthersKept, Changes, Fields, Idle

\* A session that is aborted keeps its parts; one that waits or rests is over.
LEMMA AbortTypes ==
  ASSUME Inv, NEW t \in Tabs, UNCHANGED issued,
         session' = [session EXCEPT ![t] =
            IF @.pc \in {"idle", "wait"} THEN Idle ELSE [@ EXCEPT !.aborted = TRUE]]
  PROVE  /\ SessionType(session[t])' /\ SessionFlow(session[t])'
         /\ session'[t].pc # "idle" => session'[t].aborted
<1>1. TabInv(t) /\ SessionType(session[t]) /\ issued \in Nat
  BY TabFacts
<1>2. CASE session'[t] = Idle
  <2>1. session'[t].pc = "idle"
    BY <1>2 DEF Idle
  <2> QED
    BY <1>1, <1>2, <2>1, IdleType
<1>3. CASE /\ DOMAIN session'[t] = Fields /\ Changes(t, {"aborted"})
           /\ session'[t].aborted = TRUE
  BY <1>1, <1>3 DEF Changes, Fields, Idle, SessionType, SessionFlow, TabInv, Issued
<1> QED
  BY <1>2, <1>3, AbortEffect

\* What a tab forgets, its deletion and its locks.
LEMMA ForgottenEffect ==
  ASSUME Inv, NEW t \in Tabs, Forgotten(t)
  PROVE  /\ requests' = Abandoned(t) /\ prompt' \in [Tabs -> BOOLEAN] /\ LockType'
         /\ ~prompt'[t]
         /\ \A u \in Tabs \ {t} : deletion'[u] = deletion[u] /\ prompt'[u] = prompt[u]
         /\ DOMAIN deletion' = Tabs /\ deletion'[t] = NoDeletion
  BY DEF Inv, TabType, StoreType, LockType, Forgotten

\* A session starts in the account of its tab.
LEMMA StartSyncTypes == ASSUME Inv, NEW t \in Tabs, StartSync(t) PROVE Inv'
<1>1. TabType /\ LockType /\ TabInv(t) /\ SessionType(session[t]) /\ issued \in Nat
  BY TabFacts
<1>2. session[t].pc = "idle" /\ deletion[t].pc = "none" /\ subject[t] \in Subjects
  BY <1>1 DEF StartSync, TabType
<1>3. UNCHANGED <<service, account, intent, user, prompt, adding, requests, acts, history>>
  BY DEF StartSync
<1>4. /\ OthersKept(t) /\ UNCHANGED <<deletion, lock>>
      /\ SessionType(session[t])' /\ SessionFlow(session[t])'
      /\ session'[t].subject = subject[t] /\ session'[t].pc = "record"
  BY <1>1, <1>2, <1>3, StartSyncEffect
  DEF Moves, Changes, Fields, Idle, SessionType, SessionFlow, Phases, Issued, service, Current
<1>5. TabInv(t)'
  <2>1. DeletionType(deletion[t])'
    BY <1>1, <1>3, <1>4 DEF TabInv, DeletionType, Issued, service
  <2> QED
    BY <1>1, <1>2, <1>3, <1>4, <2>1 DEF TabInv, user
<1>6. OtherTabs(t)
  BY <1>3, <1>4 DEF OtherTabs, OthersKept, user
<1>7. issued' = issued
  BY <1>3 DEF service
<1>8. \A u \in Tabs : TabInv(u)'
  BY <1>1, <1>5, <1>6, <1>7, TabStep
<1>9. \A r \in requests : RequestInv(r)'
  <2>1. \A r \in requests : r.tab # t
    BY <1>2, NobodyWaits
  <2> QED
    BY <1>1, <1>6, <1>7, <2>1, RequestStep
<1>10. TabType' /\ LockType'
  BY <1>1, <1>3, <1>4 DEF TabType, LockType, OthersKept, user
<1> QED
  BY <1>3, <1>8, <1>9, <1>10, StoreFrame, ServiceFrame DEF Inv, account

\* A merge moves the events of the device to the account.
LEMMA MergeTypes == ASSUME Inv, NEW t \in Tabs, Merge(t) PROVE Inv'
<1>1. TabType /\ LockType /\ TabInv(t) /\ issued \in Nat
  BY TabFacts
<1>2. subject[t] \in Subjects /\ Claimed(subject[t], TRUE)
  BY <1>1 DEF Merge, TabType
<1>3. UNCHANGED <<service, generation, record, lock, user, session, adding, deletion,
                  requests, acts, home, slipped>>
      /\ intent' \in BOOLEAN /\ prompt' \in [Tabs -> BOOLEAN]
  BY <1>1 DEF Merge, TabType
<1>4. StoreType'
  BY <1>1, <1>2, <1>3, ClaimedStore DEF LockType
<1>5. TabType' /\ ServiceType'
  BY <1>1, <1>3, ServiceFrame DEF TabType, user
<1>6. issued' = issued /\ subject' = subject
  BY <1>3 DEF service, user
<1>7. \A u \in Tabs : TabInv(u)'
  BY <1>1, <1>3, <1>6, TabFrame DEF Inv
<1>8. \A r \in requests' : RequestInv(r)'
  BY <1>1, <1>3, <1>6, RequestFrame DEF Inv
<1> QED
  BY <1>4, <1>5, <1>7, <1>8 DEF Inv

\* Keeping them separate moves nothing.
LEMMA KeepSeparateTypes == ASSUME Inv, NEW t \in Tabs, KeepSeparate(t) PROVE Inv'
<1>1. TabType /\ LockType /\ TabInv(t) /\ issued \in Nat
  BY TabFacts
<1>2. UNCHANGED <<service, account, lock, subject, session, adding, deletion,
                  requests, acts, history>>
      /\ intent' \in BOOLEAN /\ prompt' \in [Tabs -> BOOLEAN] /\ DOMAIN dismissed' = Tabs
  BY <1>1 DEF KeepSeparate, TabType
<1>3. StoreType' /\ ServiceType' /\ TabType'
  BY <1>1, <1>2, StoreFrame, ServiceFrame DEF TabType, account, LockType
<1>4. issued' = issued
  BY <1>2 DEF service
<1>5. \A u \in Tabs : TabInv(u)'
  BY <1>1, <1>2, <1>4, TabFrame DEF Inv
<1>6. \A r \in requests' : RequestInv(r)'
  BY <1>1, <1>2, <1>4, RequestFrame DEF Inv
<1> QED
  BY <1>3, <1>5, <1>6 DEF Inv

\* An edit begins in the domain of its tab.
LEMMA BeginAddTypes == ASSUME Inv, NEW t \in Tabs, BeginAdd(t) PROVE Inv'
<1>1. TabType /\ LockType /\ TabInv(t) /\ issued \in Nat
  BY TabFacts
<1>2. UNCHANGED <<service, account, lock, intent, user, session, prompt, deletion, requests,
                 acts, history>>
  BY DEF BeginAdd
<1>3. adding' = [adding EXCEPT ![t] = IF subject[t] = Nobody THEN Anonymous ELSE subject[t]]
  BY DEF BeginAdd
<1>4. StoreType' /\ ServiceType'
  BY <1>1, <1>2, StoreFrame, ServiceFrame DEF account, LockType
<1>5. TabType'
  BY <1>1, <1>2, <1>3 DEF TabType, Domains, user
<1>6. issued' = issued /\ subject' = subject
  BY <1>2 DEF service, user
<1>7. TabInv(t)'
  <2>1. adding'[t] \in Subjects => subject[t] = adding'[t]
    BY <1>1, <1>3, Names DEF TabType
  <2>2. SessionType(session[t])' /\ SessionFlow(session[t])' /\ DeletionType(deletion[t])'
    BY <1>1, <1>2, <1>6 DEF TabInv, SessionType, SessionFlow, DeletionType, Issued
  <2> QED
    BY <1>1, <1>2, <1>6, <2>1, <2>2 DEF TabInv
<1>8. OtherTabs(t)
  BY <1>1, <1>2, <1>3, <1>6 DEF OtherTabs, TabType
<1>9. \A u \in Tabs : TabInv(u)'
  BY <1>1, <1>6, <1>7, <1>8, TabStep
<1>10. \A r \in requests' : RequestInv(r)'
  BY <1>1, <1>2, <1>6, RequestFrame DEF Inv
<1> QED
  BY <1>4, <1>5, <1>9, <1>10 DEF Inv

\* What an edit does: nothing, or the next event is made in the domain that was captured.
LEMMA AddEffect ==
  ASSUME Inv, NEW t \in Tabs, Add(t)
  PROVE  /\ adding' = [adding EXCEPT ![t] = Nobody]
         /\ UNCHANGED <<service, acked, generation, record, lock, intent, user, session,
                        prompt, deletion, requests, acts, adopted>>
         /\ \/ UNCHANGED <<owner, home, slipped>>
            \/ \E e \in Events :
                 /\ ~Blocked(t) /\ owner[e] = Unborn
                 /\ \A f \in Events : owner[f] = Unborn => e <= f
                 /\ slipped' = IF adding[t] \in {Anonymous, subject[t]} THEN slipped
                               ELSE slipped \cup {e}
                 /\ owner' = [owner EXCEPT ![e] = adding[t]]
                 /\ home' = [home EXCEPT ![e] = adding[t]]
<1> DEFINE unborn == {e \in Events : owner[e] = Unborn}
<1>1. CASE Blocked(t) \/ unborn = {}
  BY <1>1 DEF Add
<1>2. CASE ~(Blocked(t) \/ unborn = {})
  <2>1. Min(unborn) \in unborn /\ \A y \in unborn : Min(unborn) <= y
    BY <1>2, MinOfNumbers, EnrollmentType
  <2>2. PICK e : e = Min(unborn)
    OBVIOUS
  <2>3. /\ slipped' = IF adding[t] \in {Anonymous, subject[t]} THEN slipped
                      ELSE slipped \cup {e}
        /\ owner' = [owner EXCEPT ![e] = adding[t]]
        /\ home' = [home EXCEPT ![e] = adding[t]]
    BY <1>2, <2>2 DEF Add
  <2>4. e \in Events /\ owner[e] = Unborn /\ \A f \in Events : owner[f] = Unborn => e <= f
    BY <2>1, <2>2
  <2>5. ~Blocked(t)
    BY <1>2
  <2>6. /\ adding' = [adding EXCEPT ![t] = Nobody]
        /\ UNCHANGED <<service, acked, generation, record, lock, intent, user, session,
                        prompt, deletion, requests, acts, adopted>>
    BY DEF Add
  <2> QED
    BY <2>3, <2>4, <2>5, <2>6
<1> QED
  BY <1>1, <1>2

\* An edit makes one event, in the domain it began in.
LEMMA AddTypes == ASSUME Inv, NEW t \in Tabs, Add(t) PROVE Inv'
<1>1. TabType /\ LockType /\ TabInv(t) /\ issued \in Nat
  BY TabFacts
<1>2. /\ adding' = [adding EXCEPT ![t] = Nobody]
      /\ UNCHANGED <<service, acked, generation, record, lock, intent, user, session,
                     prompt, deletion, requests, acts, adopted>>
  BY AddEffect
<1>3. StoreType'
  <2>1. CASE UNCHANGED <<owner, home, slipped>>
    BY <1>2, <2>1 DEF Inv, StoreType, LockType
  <2>2. ASSUME NEW e \in Events,
               owner[e] = Unborn,
               slipped' \in {slipped, slipped \cup {e}},
               owner' = [owner EXCEPT ![e] = adding[t]],
               home' = [home EXCEPT ![e] = adding[t]]
        PROVE  StoreType'
    <3>1. adding[t] \in Domains
      BY <1>1 DEF Add, TabType, Domains
    <3>2. e \in All /\ e \notin Others
      BY EnrollmentType DEF All
    <3>3. owner' \in [All -> Domains \cup {Unborn, Gone}] /\ home' \in [All -> Domains \cup {Unborn}]
      BY <2>2, <3>1 DEF Inv, StoreType
    <3>4. acked \subseteq {f \in All : owner'[f] \in Subjects}
      BY <2>2, Names DEF Inv, StoreType
    <3>5. \A f \in Others : owner'[f] = owner[f]
      BY <2>2, <3>2 DEF Inv, StoreType
    <3> QED
      BY <1>2, <2>2, <3>3, <3>4, <3>5 DEF Inv, StoreType
  <2> QED
    BY <2>1, <2>2, AddEffect
<1>4. ServiceType'
  BY <1>2, ServiceFrame
<1>5. TabType'
  BY <1>1, <1>2 DEF TabType, user
<1>6. issued' = issued /\ subject' = subject
  BY <1>2 DEF service, user
<1>7. TabInv(t)'
  <2>1. adding'[t] \notin Subjects
    BY <1>1, <1>2, Names DEF TabType
  <2>2. SessionType(session[t])' /\ SessionFlow(session[t])' /\ DeletionType(deletion[t])'
    BY <1>1, <1>2, <1>6 DEF TabInv, SessionType, SessionFlow, DeletionType, Issued
  <2> QED
    BY <1>1, <1>2, <1>6, <2>1, <2>2 DEF TabInv
<1>8. OtherTabs(t)
  BY <1>1, <1>2, <1>6 DEF OtherTabs, TabType
<1>9. \A u \in Tabs : TabInv(u)'
  BY <1>1, <1>6, <1>7, <1>8, TabStep
<1>10. \A r \in requests' : RequestInv(r)'
  BY <1>1, <1>2, <1>6, RequestFrame DEF Inv
<1> QED
  BY <1>3, <1>4, <1>5, <1>9, <1>10 DEF Inv

\* A tab that signs in has no session, edit or deletion.
LEMMA SignInTypes ==
  ASSUME Inv, NEW t \in Tabs, NEW s \in Subjects, SignIn(t, s) PROVE Inv'
<1>1. TabType /\ LockType /\ TabInv(t) /\ issued \in Nat
  BY TabFacts
<1>2. /\ subject' = [subject EXCEPT ![t] = s] /\ intent' = TRUE
      /\ session' = [session EXCEPT ![t] = Idle]
      /\ adding' = [adding EXCEPT ![t] = Nobody]
      /\ dismissed' = [dismissed EXCEPT ![t] = Nobody]
      /\ Forgotten(t)
      /\ UNCHANGED <<service, account, history>>
  BY DEF SignIn
<1>3. /\ requests' = Abandoned(t) /\ prompt' \in [Tabs -> BOOLEAN] /\ LockType'
      /\ \A u \in Tabs \ {t} : deletion'[u] = deletion[u]
      /\ DOMAIN deletion' = Tabs /\ deletion'[t] = NoDeletion
  BY <1>2, ForgottenEffect
<1>4. issued' = issued /\ OtherTabs(t)
  BY <1>1, <1>2, <1>3 DEF OtherTabs, TabType, service
<1>5. TabInv(t)'
  BY <1>1, <1>2, <1>3, <1>4, RestingTab, Names DEF TabType
<1>6. \A u \in Tabs : TabInv(u)'
  BY <1>1, <1>4, <1>5, TabStep
<1>7. \A r \in requests' : RequestInv(r)'
  BY <1>3, <1>4, AbandonStep
<1>8. TabType'
  BY <1>1, <1>2, <1>3 DEF TabType
<1> QED
  BY <1>2, <1>3, <1>6, <1>7, <1>8, StoreFrame, ServiceFrame DEF Inv, account

\* A tab that signs out aborts what it can, and an edit goes on.
LEMMA SignOutTypes == ASSUME Inv, NEW t \in Tabs, SignOut(t) PROVE Inv'
<1>1. TabType /\ LockType /\ TabInv(t) /\ issued \in Nat
  BY TabFacts
<1>2. /\ subject' = [subject EXCEPT ![t] = Nobody]
      /\ dismissed' = [dismissed EXCEPT ![t] = Nobody]
      /\ session' = [session EXCEPT ![t] =
           IF @.pc \in {"idle", "wait"} THEN Idle ELSE [@ EXCEPT !.aborted = TRUE]]
      /\ Forgotten(t)
      /\ UNCHANGED <<service, account, intent, adding, acts, history>>
  BY DEF SignOut
<1>3. /\ requests' = Abandoned(t) /\ prompt' \in [Tabs -> BOOLEAN] /\ LockType'
      /\ \A u \in Tabs \ {t} : deletion'[u] = deletion[u]
      /\ DOMAIN deletion' = Tabs /\ deletion'[t] = NoDeletion
  BY <1>2, ForgottenEffect
<1>4. OthersKept(t)
  BY <1>2, AbortEffect
<1>5. issued' = issued /\ OtherTabs(t)
  BY <1>1, <1>2, <1>3, <1>4 DEF OtherTabs, OthersKept, TabType, service
<1>6. /\ SessionType(session[t])' /\ SessionFlow(session[t])'
      /\ session'[t].pc # "idle" => session'[t].aborted
  BY <1>2, <1>5, AbortTypes
<1>7. TabInv(t)'
  <2>1. DeletionType(NoDeletion)' /\ NoDeletion.pc = "none"
    BY <1>1, <1>5 DEF DeletionType, NoDeletion, Issued, Unknown
  <2>2. DeletionType(deletion[t])' /\ deletion'[t].pc = "none"
    BY <1>3, <2>1 DEF DeletionType
  <2>3. subject'[t] = Nobody
    BY <1>1, <1>2 DEF TabType
  <2> QED
    BY <1>6, <2>2, <2>3 DEF TabInv
<1>8. \A u \in Tabs : TabInv(u)'
  BY <1>1, <1>5, <1>7, TabStep
<1>9. \A r \in requests' : RequestInv(r)'
  BY <1>3, <1>5, AbandonStep
<1>10. TabType'
  BY <1>1, <1>2, <1>3, <1>4 DEF TabType, OthersKept
<1> QED
  BY <1>2, <1>3, <1>8, <1>9, <1>10, StoreFrame, ServiceFrame DEF Inv, account

\* A tab that is reloaded keeps its account.
LEMMA ReloadTypes == ASSUME Inv, NEW t \in Tabs, Reload(t) PROVE Inv'
<1>1. TabType /\ LockType /\ TabInv(t) /\ issued \in Nat
  BY TabFacts
<1>2. /\ session' = [session EXCEPT ![t] = Idle]
      /\ adding' = [adding EXCEPT ![t] = Nobody]
      /\ dismissed' = [dismissed EXCEPT ![t] = Nobody]
      /\ Forgotten(t)
      /\ UNCHANGED <<service, account, intent, subject, history>>
  BY DEF Reload
<1>3. /\ requests' = Abandoned(t) /\ prompt' \in [Tabs -> BOOLEAN] /\ LockType'
      /\ \A u \in Tabs \ {t} : deletion'[u] = deletion[u]
      /\ DOMAIN deletion' = Tabs /\ deletion'[t] = NoDeletion
  BY <1>2, ForgottenEffect
<1>4. issued' = issued /\ OtherTabs(t)
  BY <1>1, <1>2, <1>3 DEF OtherTabs, TabType, service
<1>5. TabInv(t)'
  BY <1>1, <1>2, <1>3, <1>4, RestingTab, Names DEF TabType
<1>6. \A u \in Tabs : TabInv(u)'
  BY <1>1, <1>4, <1>5, TabStep
<1>7. \A r \in requests' : RequestInv(r)'
  BY <1>3, <1>4, AbandonStep
<1>8. TabType'
  BY <1>1, <1>2, <1>3 DEF TabType
<1> QED
  BY <1>2, <1>3, <1>6, <1>7, <1>8, StoreFrame, ServiceFrame DEF Inv, account

\* A tab that gives up waiting leaves its request behind.
LEMMA TimeoutTypes == ASSUME Inv, NEW t \in Tabs, Timeout(t) PROVE Inv'
<1>1. TabType /\ LockType /\ TabInv(t) /\ issued \in Nat
  BY TabFacts
<1>2. requests' = Abandoned(t)
      /\ UNCHANGED <<service, account, intent, user, prompt, adding, history>>
  BY DEF Timeout
<1>3. /\ OthersKept(t) /\ DeletionKept(t) /\ LockType'
      /\ \/ /\ session'[t] = Idle
            /\ deletion'[t].pc \notin {"wait", "return", "clear"}
         \/ UNCHANGED session /\ deletion'[t] = NoDeletion
  <2>1. CASE session[t].pc = "wait" /\ End(t, "failed")
    <3>1. deletion[t].pc \notin {"wait", "return", "clear"}
      BY <1>1, <2>1 DEF TabInv
    <3>2. NoDeletion.pc = "none"
      BY DEF NoDeletion
    <3>3. OthersKept(t) /\ DeletionKept(t) /\ session'[t] = Idle /\ LockType'
      BY <1>1, <2>1, EndEffect
    <3>4. deletion'[t] = deletion[t] \/ deletion'[t] = NoDeletion
      BY <3>3 DEF DeletionKept
    <3> QED
      BY <3>1, <3>2, <3>3, <3>4
  <2>2. CASE /\ deletion' = [deletion EXCEPT ![t] = NoDeletion]
             /\ lock' = [s \in Subjects |-> IF lock[s] = t THEN Nobody ELSE lock[s]]
             /\ UNCHANGED session
    BY <1>1, <2>2 DEF TabType, LockType, OthersKept, DeletionKept
  <2> QED
    BY <2>1, <2>2 DEF Timeout
<1>4. issued' = issued /\ OtherTabs(t) /\ subject' = subject
  BY <1>2, <1>3 DEF OtherTabs, OthersKept, DeletionKept, service, user
<1>5. TabInv(t)'
  <2>1. DeletionType(deletion[t])'
    <3>1. DeletionType(NoDeletion)'
      BY <1>1, <1>4 DEF DeletionType, NoDeletion, Issued, Unknown
    <3>2. DeletionType(deletion[t])' \/ deletion'[t] = NoDeletion
      BY <1>1, <1>3, <1>4 DEF DeletionKept, DeletionType, TabInv, Issued
    <3> QED
      BY <3>1, <3>2 DEF DeletionType
  <2>2. SessionType(session[t])' /\ SessionFlow(session[t])'
    <3>1. CASE session'[t] = Idle
      BY <1>1, <1>4, <3>1, IdleType
    <3>2. CASE UNCHANGED session
      BY <1>1, <1>4, <3>2 DEF TabInv, SessionType, SessionFlow, Issued
    <3> QED
      BY <1>3, <3>1, <3>2
  <2>3. NoDeletion.pc = "none" /\ Idle.pc = "idle"
    BY DEF NoDeletion, Idle
  <2> QED
    BY <1>1, <1>2, <1>3, <1>4, <2>1, <2>2, <2>3 DEF TabInv, DeletionKept
<1>6. \A u \in Tabs : TabInv(u)'
  BY <1>1, <1>4, <1>5, TabStep
<1>7. \A r \in requests' : RequestInv(r)'
  BY <1>2, <1>4, AbandonStep
<1>8. TabType'
  BY <1>1, <1>2, <1>3 DEF TabType, OthersKept, DeletionKept, user
<1> QED
  BY <1>2, <1>3, <1>6, <1>7, <1>8, StoreFrame, ServiceFrame DEF Inv, account

-----------------------------------------------------------------------------
(* The types: the service, deletions and other devices.                        *)

\* The service took a request out and answered its tab.
LEMMA AnsweredStep ==
  ASSUME Inv, NEW r \in requests, requests' = requests \ {r}, r.kind = "sync",
         issued' \in Nat, issued <= issued',
         r.tab = Nobody => session' = session,
         r.tab # Nobody => /\ OthersKept(r.tab)
                           /\ SessionType(session[r.tab])' /\ SessionFlow(session[r.tab])'
                           /\ session'[r.tab].subject = session[r.tab].subject
                           /\ session'[r.tab].aborted = session[r.tab].aborted
                           /\ session'[r.tab].pc # "idle",
         UNCHANGED <<lock, intent, user, prompt, adding, deletion>>
  PROVE  /\ \A u \in Tabs : TabInv(u)'
         /\ TabType' /\ LockType'
<1>1. RequestInv(r) /\ r.tab \in Tabs \cup {Nobody} /\ TabType /\ LockType /\ issued \in Nat
  BY DEF Inv, RequestInv, StoreType, LockType, ServiceType
<1>2. TabType' /\ LockType'
  BY <1>1 DEF TabType, LockType, OthersKept, user
<1>3. CASE r.tab = Nobody
  BY <1>1, <1>2, <1>3, TabFrame DEF Inv, user
<1>4. CASE r.tab # Nobody
  <2> DEFINE t == r.tab
  <2>1. t \in Tabs /\ TabInv(t) /\ session[t].pc = "wait"
    BY <1>1, <1>4 DEF Inv, RequestInv
  <2>2. OtherTabs(t)
    BY <1>4 DEF OtherTabs, OthersKept, user
  <2>3. TabInv(t)'
    <3>1. DeletionType(deletion[t])'
      BY <1>1, <2>1 DEF TabInv, DeletionType, Issued
    <3>2. /\ SessionType(session[t])' /\ SessionFlow(session[t])'
          /\ session'[t].subject = session[t].subject
          /\ session'[t].aborted = session[t].aborted
      BY <1>4
    <3> QED
      BY <2>1, <3>1, <3>2 DEF TabInv, user
  <2> HIDE DEF t
  <2> QED
    BY <1>1, <1>2, <2>1, <2>2, <2>3, TabStep
<1> QED
  BY <1>1, <1>3, <1>4

\* An answer fits the session that waits for it.
LEMMA ServeTypes == ASSUME Inv, NEW r \in requests, Serve(r) PROVE Inv'
<1> DEFINE s == r.subject
           t == r.tab
<1>1. /\ RequestInv(r) /\ r.kind = "sync" /\ s \in Subjects /\ t \in Tabs \cup {Nobody}
      /\ r.ops \subseteq Events /\ issued \in Nat
      /\ epoch \in [Subjects -> Issued] /\ log \in [Subjects -> SUBSET All]
  BY DEF Serve, Inv, RequestInv, ServiceType
<1>2. /\ requests' = requests \ {r}
      /\ UNCHANGED <<account, lock, intent, user, prompt, adding, deletion, acts, history>>
  BY DEF Serve
<1>3. /\ issued' \in Nat /\ issued <= issued'
      /\ epoch' \in [Subjects -> Issued'] /\ log' \in [Subjects -> SUBSET All]
      /\ t = Nobody => session' = session
      /\ t # Nobody =>
           /\ OthersKept(t) /\ DOMAIN session'[t] = Fields
           /\ \/ /\ session'[t].pc = "conflict" /\ Changes(t, {"pc"}) /\ r.guarded = TRUE
              \/ /\ session'[t].pc = "mismatch" /\ Changes(t, {"pc", "reply"})
                 /\ session'[t].reply = epoch'[s]
              \/ /\ session'[t].pc = "apply" /\ Changes(t, {"pc", "reply", "rows"})
                 /\ session'[t].reply = epoch'[s] /\ session'[t].rows = log'[s]
                 /\ r.generation = Unknown \/ r.ops \subseteq log'[s]
  <2>1. CASE ServeEpoch(r)
    <3>1. /\ \/ epoch[s] = Unknown /\ issued' = issued + 1
                   /\ epoch' = [epoch EXCEPT ![s] = issued']
             \/ UNCHANGED <<issued, epoch>>
          /\ UNCHANGED log
      BY <1>1, <2>1, ServeEpochEffect
    <3>2. /\ issued' \in Nat /\ issued <= issued'
          /\ epoch' \in [Subjects -> Issued'] /\ log' \in [Subjects -> SUBSET All]
      BY <1>1, <3>1 DEF Issued
    <3> QED
      BY <1>1, <2>1, <3>2, ServeEpochEffect
  <2>2. CASE ServeBatch(r)
    <3>1. /\ UNCHANGED <<issued, epoch>>
          /\ log' = log \/ (log' = [log EXCEPT ![s] = @ \cup r.ops] /\ r.ops \subseteq log'[s])
      BY <1>1, <2>2, ServeBatchEffect
    <3>2. /\ issued' \in Nat /\ issued <= issued'
          /\ epoch' \in [Subjects -> Issued'] /\ log' \in [Subjects -> SUBSET All]
      BY <1>1, <3>1 DEF Issued, All
    <3>3. t = Nobody => session' = session
      BY <1>1, <2>2, ServeBatchEffect
    <3>4. CASE Conflicts(r)
      <4>1. r.guarded = TRUE
        BY <1>1, <3>4 DEF Conflicts, RequestInv
      <4> QED
        BY <1>1, <2>2, <3>2, <3>3, <3>4, <4>1, ServeBatchEffect
    <3>5. CASE ~Conflicts(r)
      <4>1. log' = [log EXCEPT ![s] = @ \cup r.ops]
        BY <1>1, <2>2, <3>5, ServeBatchEffect
      <4>2. r.ops \subseteq log'[s]
        BY <1>1, <4>1
      <4>3. t # Nobody => /\ OthersKept(t) /\ DOMAIN session'[t] = Fields
                          /\ session'[t].pc = "apply" /\ Changes(t, {"pc", "reply", "rows"})
                          /\ session'[t].reply = epoch[s] /\ session'[t].rows = log'[s]
        BY <1>1, <2>2, <3>5, ServeBatchEffect
      <4> QED
        BY <3>1, <3>2, <3>3, <4>2, <4>3
    <3> QED
      BY <3>4, <3>5
  <2> QED
    BY <2>1, <2>2 DEF Serve
<1>4. t # Nobody =>
        /\ t \in Tabs /\ TabInv(t) /\ session[t].pc = "wait"
        /\ s = session[t].subject /\ r.ops = session[t].sent
        /\ r.generation = session[t].generation
        /\ r.guarded <=> (/\ session[t].use = "guarded" /\ ~session[t].probing
                          /\ session[t].sent # {})
  BY <1>1 DEF RequestInv, Inv
<1>5. t # Nobody =>
        /\ SessionType(session[t])' /\ SessionFlow(session[t])'
        /\ session'[t].subject = session[t].subject
        /\ session'[t].aborted = session[t].aborted
        /\ session'[t].pc # "idle"
  <2> SUFFICES ASSUME t # Nobody
               PROVE  /\ SessionType(session[t])' /\ SessionFlow(session[t])'
                      /\ session'[t].subject = session[t].subject
                      /\ session'[t].aborted = session[t].aborted
                      /\ session'[t].pc # "idle"
    OBVIOUS
  <2>1. /\ SessionType(session[t]) /\ SessionFlow(session[t]) /\ session[t].pc = "wait"
        /\ epoch'[s] \in Issued' /\ log'[s] \subseteq All /\ Issued \subseteq Issued'
    BY <1>1, <1>3, <1>4 DEF TabInv, Issued
  <2> HIDE DEF t
  <2>2. CASE session'[t].pc = "conflict" /\ Changes(t, {"pc"}) /\ r.guarded = TRUE
    <3>1. session[t].use = "guarded" /\ ~session[t].probing
      BY <1>4, <2>2
    <3> QED
      BY <1>3, <2>1, <2>2, <3>1
      DEF Changes, Fields, Idle, SessionType, SessionFlow, Phases, Current
  <2>3. CASE /\ session'[t].pc = "mismatch" /\ Changes(t, {"pc", "reply"})
             /\ session'[t].reply = epoch'[s]
    BY <1>3, <2>1, <2>3 DEF Changes, Fields, Idle, SessionType, SessionFlow, Phases, Current
  <2>4. CASE /\ session'[t].pc = "apply" /\ Changes(t, {"pc", "reply", "rows"})
             /\ session'[t].reply = epoch'[s] /\ session'[t].rows = log'[s]
             /\ r.generation = Unknown \/ r.ops \subseteq log'[s]
    <3>1. session[t].sent \subseteq log'[s]
      BY <1>4, <2>1, <2>4 DEF SessionFlow
    <3> QED
      BY <1>3, <2>1, <2>4, <3>1
      DEF Changes, Fields, Idle, SessionType, SessionFlow, Phases, Current
  <2> QED
    BY <1>3, <2>2, <2>3, <2>4
<1>6. /\ \A u \in Tabs : TabInv(u)'
      /\ TabType' /\ LockType'
  BY <1>1, <1>2, <1>3, <1>5, AnsweredStep
<1>7. ASSUME NEW q \in requests' PROVE RequestInv(q)'
  <2>1. q \in requests /\ q # r /\ RequestInv(q)
    BY <1>2 DEF Inv
  <2>2. q.kind = "sync" /\ q.tab = t /\ t # Nobody => q = r
    <3> SUFFICES ASSUME q.kind = "sync", q.tab = t, t # Nobody PROVE q = r
      OBVIOUS
    <3>1. /\ q.subject = r.subject /\ q.ops = r.ops /\ q.generation = r.generation
          /\ q.guarded = r.guarded /\ q.kind = r.kind /\ q.tab = r.tab
          /\ DOMAIN q = SyncFields /\ DOMAIN r = SyncFields
      BY <1>1, <2>1 DEF RequestInv
    <3>2. \A f \in SyncFields : q[f] = r[f]
      BY <3>1 DEF SyncFields
    <3>3. q = [f \in SyncFields |-> q[f]] /\ r = [f \in SyncFields |-> r[f]]
      BY <1>1, <2>1, <3>1 DEF RequestInv
    <3> QED
      BY <3>2, <3>3
  <2>3. session'[q.tab] = session[q.tab] \/ q.kind = "delete" \/ q.tab = Nobody
    BY <1>3, <2>1, <2>2 DEF OthersKept, RequestInv
  <2> QED
    BY <1>1, <1>2, <1>3, <2>1, <2>3 DEF RequestInv, Issued, user
<1>8. StoreType'
  BY <1>2, <1>6, StoreFrame
<1>9. ServiceType'
  BY <1>1, <1>2, <1>3 DEF Inv, ServiceType, Issued, account
<1> QED
  BY <1>6, <1>7, <1>8, <1>9 DEF Inv

\* The service and the account are as another device leaves them.
LEMMA ServedTypes ==
  ASSUME Inv, NEW s \in Subjects, NEW rows \in SUBSET All, issued' \in Nat, issued <= issued',
         epoch' = [epoch EXCEPT ![s] = issued'] \/ epoch' = epoch,
         log' = [log EXCEPT ![s] = rows], UNCHANGED generation
  PROVE  ServiceType'
<1>1. /\ epoch \in [Subjects -> Issued] /\ generation \in [Subjects -> Issued]
      /\ log \in [Subjects -> SUBSET All] /\ issued \in Nat
  BY DEF Inv, ServiceType
<1>2. Issued \subseteq Issued' /\ issued' \in Issued'
  BY <1>1 DEF Issued
<1>3. epoch' \in [Subjects -> Issued'] /\ generation' \in [Subjects -> Issued']
  BY <1>1, <1>2
<1>4. log' \in [Subjects -> SUBSET All]
  BY <1>1
<1> QED
  BY <1>1, <1>3, <1>4 DEF ServiceType, All

\* An account deleted by this browser begins a new generation.
LEMMA ServeDeleteTypes == ASSUME Inv, NEW r \in requests, ServeDelete(r) PROVE Inv'
<1> DEFINE s == r.subject
           t == r.tab
<1>1. /\ RequestInv(r) /\ r.kind = "delete" /\ s \in Subjects /\ t \in Tabs \cup {Nobody}
      /\ TabType /\ LockType /\ issued \in Nat
  BY DEF ServeDelete, Inv, RequestInv, StoreType, LockType, ServiceType
<1>2. /\ requests' = requests \ {r}
      /\ issued' = IF issued = 0 THEN 2 ELSE issued + 1
      /\ epoch' = [epoch EXCEPT ![s] = issued']
      /\ log' = [log EXCEPT ![s] = {}]
      /\ deletion' = IF t = Nobody THEN deletion
                     ELSE [deletion EXCEPT ![t].pc = "return", ![t].reply = issued']
      /\ UNCHANGED <<account, lock, intent, user, session, prompt, adding, acts, history>>
  BY DEF ServeDelete
<1>3. issued' \in Nat /\ issued <= issued' /\ issued' \in Issued' /\ Issued \subseteq Issued'
  BY <1>1, <1>2 DEF Issued
<1>4. ServiceType'
  BY <1>1, <1>2, <1>3, ServedTypes DEF account
<1>5. StoreType' /\ TabType'
  BY <1>1, <1>2, StoreFrame DEF TabType, LockType, user
<1>6. \A u \in Tabs : TabInv(u)'
  <2>1. CASE t = Nobody
    BY <1>1, <1>2, <1>3, <2>1, TabFrame DEF Inv, user
  <2>2. CASE t # Nobody
    <3>1. t \in Tabs /\ deletion[t].pc = "wait" /\ TabInv(t)
      BY <1>1, <2>2 DEF RequestInv, Inv
    <3>2. OtherTabs(t)
      BY <1>1, <1>2, <2>2 DEF OtherTabs, TabType, user
    <3>3. SessionType(session[t])' /\ SessionFlow(session[t])'
      BY <1>2, <1>3, <3>1 DEF TabInv, SessionType, SessionFlow
    <3>4. DeletionType(deletion[t])' /\ deletion'[t].pc = "return"
      BY <1>1, <1>2, <1>3, <2>2, <3>1
      DEF TabInv, DeletionType, NoDeletion, TabType
    <3>5. TabInv(t)'
      BY <1>2, <3>1, <3>3, <3>4 DEF TabInv, user
    <3> HIDE DEF t
    <3> QED
      BY <1>3, <3>1, <3>2, <3>5, TabStep
  <2> QED
    BY <2>1, <2>2
<1>7. ASSUME NEW q \in requests' PROVE RequestInv(q)'
  <2>1. q \in requests /\ q # r /\ RequestInv(q)
    BY <1>2 DEF Inv
  <2>2. q.kind = "delete" /\ q.tab = t /\ t # Nobody => q = r
    <3> SUFFICES ASSUME q.kind = "delete", q.tab = t, t # Nobody PROVE q = r
      OBVIOUS
    <3>1. /\ q.subject = r.subject /\ q.kind = r.kind /\ q.tab = r.tab
          /\ DOMAIN q = {"kind", "tab", "subject"} /\ DOMAIN r = {"kind", "tab", "subject"}
      BY <1>1, <2>1 DEF RequestInv
    <3>2. \A f \in {"kind", "tab", "subject"} : q[f] = r[f]
      BY <3>1
    <3>3. /\ q = [f \in {"kind", "tab", "subject"} |-> q[f]]
          /\ r = [f \in {"kind", "tab", "subject"} |-> r[f]]
      BY <1>1, <2>1, <3>1 DEF RequestInv
    <3> QED
      BY <3>2, <3>3
  <2>3. \/ q.kind = "sync" \/ q.tab = Nobody
        \/ q.kind = "delete" /\ q.tab \in Tabs /\ deletion'[q.tab] = deletion[q.tab]
    BY <1>1, <1>2, <2>1, <2>2 DEF RequestInv, TabType
  <2> QED
    BY <1>2, <1>3, <2>1, <2>3 DEF RequestInv, user
<1> QED
  BY <1>4, <1>5, <1>6, <1>7 DEF Inv

\* A request that is lost is one less.
LEMMA LoseTypes == ASSUME Inv, NEW r \in requests, Lose(r) PROVE Inv'
<1>1. /\ requests' \subseteq requests
      /\ UNCHANGED <<service, account, lock, intent, user, session, prompt, adding, deletion,
                     acts, history>>
  BY DEF Lose
<1>2. issued \in Nat /\ issued' = issued /\ LockType'
  BY <1>1 DEF Inv, ServiceType, service, StoreType, LockType
<1>3. StoreType' /\ ServiceType' /\ TabType'
  BY <1>1, <1>2, StoreFrame, ServiceFrame DEF Inv, TabType, account, user
<1>4. \A u \in Tabs : TabInv(u)'
  BY <1>1, <1>2, TabFrame DEF Inv, user
<1>5. \A q \in requests' : RequestInv(q)'
  BY <1>1, <1>2, RequestFrame DEF Inv, user
<1> QED
  BY <1>3, <1>4, <1>5 DEF Inv

\* Another device adds an event, or deletes the account.
LEMMA OtherTypes ==
  ASSUME Inv, NEW s \in Subjects, NEW rows \in SUBSET All, issued' \in {issued, issued + 1},
         epoch' = [epoch EXCEPT ![s] = issued'] \/ epoch' = epoch,
         log' = [log EXCEPT ![s] = rows],
         UNCHANGED <<account, lock, intent, user, session, prompt, adding, deletion, requests,
                     history>>
  PROVE  Inv'
<1>1. issued \in Nat /\ issued' \in Nat /\ issued <= issued' /\ LockType'
  BY DEF Inv, ServiceType, StoreType, LockType
<1>2. StoreType' /\ ServiceType' /\ TabType'
  BY <1>1, StoreFrame, ServedTypes DEF Inv, TabType, account, user
<1>3. \A u \in Tabs : TabInv(u)'
  BY <1>1, TabFrame DEF Inv, user
<1>4. \A q \in requests' : RequestInv(q)'
  BY <1>1, RequestFrame DEF Inv, user
<1> QED
  BY <1>2, <1>3, <1>4 DEF Inv

\* Another device writes in a generation that was issued.
LEMMA OtherWritesTypes ==
  ASSUME Inv, NEW s \in Subjects, NEW e \in Others, OtherWrites(s, e) PROVE Inv'
<1>1. /\ issued' \in {issued, issued + 1} /\ log' = [log EXCEPT ![s] = @ \cup {e}]
      /\ UNCHANGED <<account, lock, intent, user, session, prompt, adding, deletion, requests,
                     history>>
  BY DEF OtherWrites
<1>2. epoch' = [epoch EXCEPT ![s] = issued'] \/ epoch' = epoch
  BY DEF OtherWrites, Inv, ServiceType
<1>3. PICK rows : rows = log[s] \cup {e}
  OBVIOUS
<1>4. log' = [log EXCEPT ![s] = rows] /\ rows \in SUBSET All
  BY <1>1, <1>3 DEF Inv, ServiceType, All
<1> QED
  BY <1>1, <1>2, <1>4, OtherTypes

\* Another device deletes the account, which gets a new generation.
LEMMA OtherDeletesTypes ==
  ASSUME Inv, NEW s \in Subjects, OtherDeletes(s) PROVE Inv'
<1>1. /\ issued' \in {issued, issued + 1} /\ log' = [log EXCEPT ![s] = {}]
      /\ epoch' = [epoch EXCEPT ![s] = issued']
      /\ UNCHANGED <<account, lock, intent, user, session, prompt, adding, deletion, requests,
                     history>>
  BY DEF OtherDeletes
<1>2. {} \in SUBSET All
  OBVIOUS
<1> QED
  BY <1>1, <1>2, OtherTypes

\* deleteCloud takes the lock and waits for the session to end.
LEMMA BeginDeleteTypes == ASSUME Inv, NEW t \in Tabs, BeginDelete(t) PROVE Inv'
<1> DEFINE s == subject[t]
<1>1. TabType /\ LockType /\ TabInv(t) /\ issued \in Nat
  BY TabFacts
<1>2. /\ s # Nobody /\ deletion[t].pc = "none" /\ lock[s] = Nobody
      /\ lock' = [lock EXCEPT ![s] = t]
      /\ deletion' = [deletion EXCEPT ![t].pc = "drain"]
      /\ session' = [session EXCEPT ![t] =
           IF @.pc \in {"idle", "wait"} THEN Idle ELSE [@ EXCEPT !.aborted = TRUE]]
      /\ requests' = Abandoned(t)
      /\ UNCHANGED <<service, account, intent, user, prompt, adding, history>>
  BY DEF BeginDelete
<1>3. OthersKept(t) /\ issued' = issued /\ LockType'
  BY <1>1, <1>2, AbortEffect DEF service, LockType
<1>4. OtherTabs(t)
  BY <1>1, <1>2, <1>3 DEF OtherTabs, OthersKept, TabType, user
<1>5. /\ SessionType(session[t])' /\ SessionFlow(session[t])'
      /\ session'[t].pc # "idle" => session'[t].aborted
  BY <1>2, <1>3, AbortTypes
<1>6. DeletionType(deletion[t])' /\ deletion'[t].pc = "drain"
  BY <1>1, <1>2, <1>3 DEF TabInv, DeletionType, NoDeletion, TabType, Issued
<1>7. TabInv(t)'
  BY <1>1, <1>2, <1>5, <1>6 DEF TabInv, TabType, user
<1>8. \A u \in Tabs : TabInv(u)'
  BY <1>1, <1>3, <1>4, <1>7, TabStep
<1>9. \A r \in requests' : RequestInv(r)'
  BY <1>2, <1>3, <1>4, AbandonStep
<1>10. TabType'
  BY <1>1, <1>2, <1>3 DEF TabType, OthersKept, user
<1> QED
  BY <1>2, <1>3, <1>8, <1>9, <1>10, StoreFrame, ServiceFrame DEF Inv, account

\* A tab whose deletion changes, without a session.
LEMMA DeletionStep ==
  ASSUME Inv, NEW t \in Tabs, session[t].pc = "idle", subject[t] \in Subjects,
         DOMAIN deletion' = Tabs, \A u \in Tabs \ {t} : deletion'[u] = deletion[u],
         DeletionType(deletion[t])',
         UNCHANGED <<issued, session, subject, adding>>
  PROVE  /\ \A u \in Tabs : TabInv(u)'
         /\ \A r \in requests : r.tab # t => RequestInv(r)'
<1>1. TabType /\ TabInv(t) /\ issued \in Nat
  BY TabFacts
<1>2. OtherTabs(t)
  BY DEF OtherTabs
<1>3. SessionType(session[t])' /\ SessionFlow(session[t])'
  BY <1>1 DEF TabInv, SessionType, SessionFlow, Issued
<1>4. TabInv(t)'
  BY <1>1, <1>3 DEF TabInv
<1> QED
  BY <1>1, <1>2, <1>4, TabStep, RequestStep

\* The DELETE is sent once the session has ended.
LEMMA SendDeleteTypes == ASSUME Inv, NEW t \in Tabs, SendDelete(t) PROVE Inv'
<1> DEFINE s == subject[t]
<1>1. TabType /\ LockType /\ TabInv(t) /\ issued \in Nat
  BY TabFacts
<1>2. /\ deletion[t].pc = "drain" /\ session[t].pc = "idle" /\ s \in Subjects
      /\ deletion' = [deletion EXCEPT ![t].pc = "wait", ![t].claimed = record[s].claimed]
      /\ requests' = requests \cup {[kind |-> "delete", tab |-> t, subject |-> s]}
      /\ UNCHANGED <<service, account, lock, intent, user, session, prompt, adding, acts,
                     history>>
  BY <1>1 DEF SendDelete, TabInv
<1>3. record[s].claimed \subseteq Events
  BY <1>2 DEF Inv, StoreType, Records
<1>4. DeletionType(deletion[t])' /\ deletion'[t].pc = "wait"
  BY <1>1, <1>2, <1>3 DEF TabInv, DeletionType, NoDeletion, TabType, Issued, service
<1>5. /\ \A u \in Tabs : TabInv(u)'
      /\ \A r \in requests : r.tab # t => RequestInv(r)'
  <2>1. /\ DOMAIN deletion' = Tabs /\ \A u \in Tabs \ {t} : deletion'[u] = deletion[u]
        /\ UNCHANGED <<issued, session, subject, adding>>
    BY <1>1, <1>2 DEF TabType, service, user
  <2> QED
    BY <1>2, <1>4, <2>1, DeletionStep
<1>6. \A r \in requests : r.tab # t
  BY <1>2, NobodyWaits
<1>7. PICK new : new = [kind |-> "delete", tab |-> t, subject |-> s]
  OBVIOUS
<1>8. /\ new.kind = "delete" /\ new.tab = t /\ new.subject = s
      /\ DOMAIN new = {"kind", "tab", "subject"} /\ new = [f \in DOMAIN new |-> new[f]]
  BY <1>7
<1>9. RequestInv(new)'
  BY <1>2, <1>4, <1>8 DEF RequestInv, user
<1>10. \A r \in requests' : RequestInv(r)'
  BY <1>2, <1>5, <1>6, <1>7, <1>9
<1>11. StoreType' /\ ServiceType' /\ TabType'
  BY <1>1, <1>2, StoreFrame, ServiceFrame DEF TabType, LockType, account, user
<1> QED
  BY <1>5, <1>10, <1>11 DEF Inv

\* The answer to the DELETE: what was claimed is anonymous again.
LEMMA ReturnPendingTypes == ASSUME Inv, NEW t \in Tabs, ReturnPending(t) PROVE Inv'
<1> DEFINE s == subject[t]
           claimed == deletion[t].claimed
<1>1. TabType /\ LockType /\ TabInv(t) /\ issued \in Nat
  BY TabFacts
<1>2. /\ deletion[t].pc = "return" /\ session[t].pc = "idle" /\ s \in Subjects
      /\ claimed \subseteq Events
      /\ \/ Returned(s, claimed) \/ UNCHANGED <<owner, acked, record, adopted>>
      /\ UNCHANGED <<service, generation, intent, user, session, prompt, adding, requests,
                     acts, home, slipped>>
  BY <1>1 DEF ReturnPending, TabInv, DeletionType
<1>3. \/ deletion' = [deletion EXCEPT ![t].pc = "clear"] /\ UNCHANGED lock
      \/ /\ deletion' = [deletion EXCEPT ![t] = NoDeletion]
         /\ lock' = [lock EXCEPT ![s] = IF @ = t THEN Nobody ELSE @]
  BY DEF ReturnPending
<1>4. LockType'
  BY <1>1, <1>3 DEF LockType
<1>5. DeletionType(deletion[t])'
  <2>1. CASE deletion' = [deletion EXCEPT ![t].pc = "clear"]
    BY <1>1, <1>2, <2>1 DEF TabInv, DeletionType, NoDeletion, TabType, Issued, service
  <2>2. CASE deletion' = [deletion EXCEPT ![t] = NoDeletion]
    BY <1>1, <1>2, <2>2 DEF DeletionType, NoDeletion, TabType, Issued, Unknown, service
  <2> QED
    BY <1>3, <2>1, <2>2
<1>6. /\ \A u \in Tabs : TabInv(u)'
      /\ \A r \in requests : r.tab # t => RequestInv(r)'
  <2>1. /\ DOMAIN deletion' = Tabs /\ \A u \in Tabs \ {t} : deletion'[u] = deletion[u]
        /\ UNCHANGED <<issued, session, subject, adding>>
    BY <1>1, <1>2, <1>3 DEF TabType, service, user
  <2> QED
    BY <1>2, <1>5, <2>1, DeletionStep
<1>7. \A r \in requests : r.tab # t
  BY <1>2, NobodyWaits
<1>8. StoreType'
  BY <1>2, <1>4, ReturnedStore DEF Inv, StoreType, LockType
<1>9. ServiceType' /\ TabType'
  BY <1>1, <1>2, <1>3, ServiceFrame DEF TabType, user
<1> QED
  BY <1>2, <1>6, <1>7, <1>8, <1>9 DEF Inv

\* Then the account's local data goes.
LEMMA ClearDeletedTypes == ASSUME Inv, NEW t \in Tabs, ClearDeleted(t) PROVE Inv'
<1> DEFINE s == subject[t]
<1>1. TabType /\ LockType /\ TabInv(t) /\ issued \in Nat
  BY TabFacts
<1>2. /\ deletion[t].pc = "clear" /\ session[t].pc = "idle" /\ s \in Subjects
      /\ deletion[t].reply \in Issued
      /\ Cleared(s, deletion[t].reply)
      /\ deletion' = [deletion EXCEPT ![t] = NoDeletion]
      /\ lock' = [lock EXCEPT ![s] = IF @ = t THEN Nobody ELSE @]
      /\ prompt' = [prompt EXCEPT ![t] = FALSE]
      /\ UNCHANGED <<service, intent, user, session, adding, requests, acts, history>>
  BY <1>1 DEF ClearDeleted, TabInv, DeletionType
<1>3. LockType'
  BY <1>1, <1>2 DEF LockType
<1>4. DeletionType(deletion[t])'
  BY <1>1, <1>2 DEF DeletionType, NoDeletion, TabType, Issued, Unknown, service
<1>5. /\ \A u \in Tabs : TabInv(u)'
      /\ \A r \in requests : r.tab # t => RequestInv(r)'
  <2>1. /\ DOMAIN deletion' = Tabs /\ \A u \in Tabs \ {t} : deletion'[u] = deletion[u]
        /\ UNCHANGED <<issued, session, subject, adding>>
    BY <1>1, <1>2 DEF TabType, service, user
  <2> QED
    BY <1>2, <1>4, <2>1, DeletionStep
<1>6. \A r \in requests : r.tab # t
  BY <1>2, NobodyWaits
<1>7. StoreType' /\ ServiceType'
  BY <1>2, <1>3, ClearedStore DEF service, history
<1>8. TabType'
  BY <1>1, <1>2 DEF TabType, user
<1> QED
  BY <1>2, <1>5, <1>6, <1>7, <1>8 DEF Inv

-----------------------------------------------------------------------------
(* The invariant of any number of tabs.                                        *)

\* The first state has the types.
LEMMA InitTypes == ASSUME Init PROVE Inv
<1>1. ServiceType
  BY DEF Init, ServiceType, Issued, Unknown
<1>2. StoreType
  <2>1. NoRecord \in Records
    BY DEF Records, NoRecord
  <2>2. /\ record \in [Subjects -> Records]
        /\ \A s \in Subjects : record[s].claimed = {} => record[s] = NoRecord
    BY <2>1 DEF Init
  <2>3. /\ owner \in [All -> Domains \cup {Unborn, Gone}]
        /\ home \in [All -> Domains \cup {Unborn}]
        /\ \A e \in Others : owner[e] = Unborn
    BY DEF Init, All
  <2>4. lock \in [Subjects -> Tabs \cup {Nobody}] /\ acked = {} /\ slipped = {}
        /\ DOMAIN adopted = All
    BY DEF Init
  <2> QED
    BY <2>2, <2>3, <2>4, Names DEF StoreType
<1>3. TabType
  BY DEF Init, TabType
<1>4. issued \in Nat
  BY <1>1 DEF ServiceType
<1>5. ASSUME NEW t \in Tabs PROVE TabInv(t)
  <2>1. session[t] = Idle /\ deletion[t] = NoDeletion /\ adding[t] = Nobody
    BY DEF Init
  <2>2. SessionType(Idle) /\ SessionFlow(Idle)
    BY <1>4 DEF SessionType, SessionFlow, Idle, Fields, Phases, Uses, Records, NoRecord,
           Causes, Issued, Unknown, Started, Current
  <2>3. DeletionType(NoDeletion) /\ NoDeletion.pc = "none"
    BY <1>4 DEF DeletionType, NoDeletion, Issued, Unknown
  <2>4. Idle.pc = "idle"
    BY DEF Idle
  <2> QED
    BY <2>1, <2>2, <2>3, <2>4, Names DEF TabInv
<1> QED
  BY <1>1, <1>2, <1>3, <1>5 DEF Inv, Init

\* A step that changes nothing.
LEMMA StutterTypes == ASSUME Inv, UNCHANGED vars PROVE Inv'
<1>1. /\ UNCHANGED <<service, account, lock, intent, user, session, prompt, adding, deletion,
                     requests, acts, history>>
  BY DEF vars
<1>2. issued \in Nat /\ issued' = issued /\ LockType'
  BY <1>1 DEF Inv, ServiceType, service, StoreType, LockType
<1>3. StoreType' /\ ServiceType' /\ TabType'
  BY <1>1, <1>2, StoreFrame, ServiceFrame DEF Inv, TabType, account, user
<1>4. \A u \in Tabs : TabInv(u)'
  BY <1>1, <1>2, TabFrame DEF Inv, user
<1>5. \A q \in requests' : RequestInv(q)'
  BY <1>1, <1>2, RequestFrame DEF Inv, user
<1> QED
  BY <1>3, <1>4, <1>5 DEF Inv

\* Every step of a session.
LEMMA SyncTypes == ASSUME Inv, NEW t \in Tabs, SyncStep(t) PROVE Inv'
<1>1. CASE ReadRecord(t)
  BY <1>1, ReadRecordTypes
<1>2. CASE Probe(t)
  BY <1>2, ProbeTypes
<1>3. CASE ReadQueue(t)
  BY <1>3, ReadQueueTypes
<1>4. CASE Attempt(t)
  BY <1>4, AttemptTypes
<1>5. CASE Apply(t)
  BY <1>5, ApplyTypes
<1>6. CASE CannotApply(t)
  BY <1>6, CannotApplyTypes
<1>7. CASE Complete(t)
  BY <1>7, CompleteTypes
<1>8. CASE Changed(t)
  BY <1>8, ChangedTypes
<1>9. CASE Conflict(t)
  BY <1>9, ConflictTypes
<1>10. CASE Restore(t)
  BY <1>10, RestoreTypes
<1>11. CASE Replace(t)
  BY <1>11, ReplaceTypes
<1>12. CASE ClearStale(t)
  BY <1>12, ClearStaleTypes
<1>13. CASE Reconcile(t)
  BY <1>13, ReconcileTypes
<1>14. CASE Claim(t)
  BY <1>14, ClaimTypes
<1> QED
  BY <1>1, <1>2, <1>3, <1>4, <1>5, <1>6, <1>7, <1>8, <1>9, <1>10, <1>11, <1>12, <1>13, <1>14
  DEF SyncStep

\* Every step of a tab.
LEMMA TabTypes ==
  ASSUME Inv, NEW t \in Tabs,
         \/ StartSync(t) \/ SyncStep(t)
         \/ Merge(t) \/ KeepSeparate(t) \/ BeginAdd(t) \/ Add(t)
         \/ BeginDelete(t) \/ DeleteStep(t)
         \/ SignOut(t) \/ Reload(t) \/ Timeout(t)
         \/ \E s \in Subjects : SignIn(t, s)
  PROVE  Inv'
<1>1. CASE StartSync(t)
  BY <1>1, StartSyncTypes
<1>2. CASE SyncStep(t)
  BY <1>2, SyncTypes
<1>3. CASE Merge(t)
  BY <1>3, MergeTypes
<1>4. CASE KeepSeparate(t)
  BY <1>4, KeepSeparateTypes
<1>5. CASE BeginAdd(t)
  BY <1>5, BeginAddTypes
<1>6. CASE Add(t)
  BY <1>6, AddTypes
<1>7. CASE BeginDelete(t)
  BY <1>7, BeginDeleteTypes
<1>8. CASE DeleteStep(t)
  BY <1>8, SendDeleteTypes, ReturnPendingTypes, ClearDeletedTypes DEF DeleteStep
<1>9. CASE SignOut(t)
  BY <1>9, SignOutTypes
<1>10. CASE Reload(t)
  BY <1>10, ReloadTypes
<1>11. CASE Timeout(t)
  BY <1>11, TimeoutTypes
<1>12. CASE \E s \in Subjects : SignIn(t, s)
  BY <1>12, SignInTypes
<1> QED
  BY <1>1, <1>2, <1>3, <1>4, <1>5, <1>6, <1>7, <1>8, <1>9, <1>10, <1>11, <1>12

\* Every step keeps the types.
LEMMA NextTypes == ASSUME Inv, [Next]_vars PROVE Inv'
<1>1. CASE \E t \in Tabs :
             \/ StartSync(t) \/ SyncStep(t)
             \/ Merge(t) \/ KeepSeparate(t) \/ BeginAdd(t) \/ Add(t)
             \/ BeginDelete(t) \/ DeleteStep(t)
             \/ SignOut(t) \/ Reload(t) \/ Timeout(t)
             \/ \E s \in Subjects : SignIn(t, s)
  BY <1>1, TabTypes
<1>2. CASE \E r \in requests : Serve(r) \/ ServeDelete(r) \/ Lose(r)
  BY <1>2, ServeTypes, ServeDeleteTypes, LoseTypes
<1>3. CASE \E s \in Subjects : OtherDeletes(s) \/ \E e \in Others : OtherWrites(s, e)
  BY <1>3, OtherDeletesTypes, OtherWritesTypes
<1>4. CASE UNCHANGED vars
  BY <1>4, StutterTypes
<1> QED
  BY <1>1, <1>2, <1>3, <1>4 DEF Next

\* Whatever the tabs, the service and other devices do, a session, a deletion, a request
\* and the stores fit each other.
THEOREM SessionsFit == Spec => []Inv
<1>1. Init => Inv
  BY InitTypes
<1>2. Inv /\ [Next]_vars => Inv'
  BY NextTypes
<1> QED
  BY <1>1, <1>2, PTL DEF Spec

-----------------------------------------------------------------------------
(* Counting the generations.                                                   *)

\* Giving up a request does not make more of them.
LEMMA AbandonedDeletes ==
  ASSUME Inv, NEW t \in Tabs, requests' = Abandoned(t), IsFiniteSet(Deletes)
  PROVE  IsFiniteSet(Deletes') /\ Cardinality(Deletes') <= Cardinality(Deletes)
<1> DEFINE left(r) == IF r.tab = t THEN [r EXCEPT !.tab = Nobody] ELSE r
           T == {left(r) : r \in Deletes}
           f == [r \in Deletes |-> left(r)]
<1>1. \A r \in requests : left(r).kind = r.kind
  BY DEF Inv, RequestInv
<1>2. requests' = {left(r) : r \in requests}
  BY DEF Abandoned
<1> HIDE DEF left
<1>3. Deletes' = T
  BY <1>1, <1>2 DEF Deletes
<1>4. f \in Surjection(Deletes, T)
  BY DEF Surjection
<1>5. IsFiniteSet(T) /\ Cardinality(T) <= Cardinality(Deletes)
  BY <1>4, FS_Surjection
<1> QED
  BY <1>3, <1>5

\* The counters of a bounded state are numbers.
LEMMA Counts ==
  ASSUME Inv, Bounded
  PROVE  /\ issued \in Nat /\ acts \in Nat /\ MaxActs \in Nat
         /\ Cardinality(Draining) \in Nat /\ Cardinality(Deletes) \in Nat
         /\ IsFiniteSet(Known) /\ Cardinality(Known) \in Nat
         /\ Cardinality(Known) <= Cardinality(Subjects)
         /\ IsFiniteSet(Subjects) /\ Cardinality(Subjects) \in Nat
<1>1. IsFiniteSet(Subjects) /\ MaxActs \in Nat
  BY EnrollmentType
<1>2. Known \in SUBSET Subjects
  BY DEF Known
<1>3. /\ IsFiniteSet(Known) /\ Cardinality(Known) <= Cardinality(Subjects)
  BY <1>1, <1>2, FS_Subset
<1> QED
  BY <1>1, <1>3, FS_CardinalityType DEF Bounded, Inv, ServiceType

\* A step that issues no generation, and begins no deletion.
LEMMA QuietBound ==
  ASSUME Inv, Bounded, UNCHANGED <<issued, epoch>>,
         acts' = acts \/ (acts < MaxActs /\ acts' = acts + 1),
         Draining' \subseteq Draining,
         Deletes' \subseteq Deletes \/ \E t \in Tabs : requests' = Abandoned(t)
  PROVE  Bounded'
<1>1. /\ issued \in Nat /\ acts \in Nat /\ MaxActs \in Nat
      /\ Cardinality(Draining) \in Nat /\ Cardinality(Deletes) \in Nat
      /\ Cardinality(Known) \in Nat
  BY Counts
<1>2. IsFiniteSet(Draining') /\ Cardinality(Draining') <= Cardinality(Draining)
  BY FS_Subset DEF Bounded
<1>3. IsFiniteSet(Deletes') /\ Cardinality(Deletes') <= Cardinality(Deletes)
  <2>1. CASE Deletes' \subseteq Deletes
    BY <2>1, FS_Subset DEF Bounded
  <2> QED
    BY <2>1, AbandonedDeletes DEF Bounded
<1>4. Known' = Known
  BY DEF Known
<1>5. Cardinality(Draining') \in Nat /\ Cardinality(Deletes') \in Nat
  BY <1>2, <1>3, FS_CardinalityType
<1>6. issued + Cardinality(Draining) + Cardinality(Deletes) <= Cardinality(Known) + acts
      /\ acts \in 0..MaxActs
  BY DEF Bounded
<1>7. issued' + Cardinality(Draining)' + Cardinality(Deletes)' <= Cardinality(Known)' + acts'
  <2>1. issued' = issued /\ acts <= acts' /\ acts' \in Nat
    BY <1>1
  <2>2. Cardinality(Known)' = Cardinality(Known)
    BY <1>4
  <2> QED
    BY <1>1, <1>2, <1>3, <1>5, <1>6, <2>1, <2>2
<1>8. acts' \in 0..MaxActs
  BY <1>1, <1>6
<1> QED
  BY <1>2, <1>3, <1>7, <1>8 DEF Bounded

\* What a session does with its deletion and its requests.
LEMMA SyncQuiet ==
  ASSUME Inv, NEW t \in Tabs, SyncStep(t)
  PROVE  /\ DeletionKept(t) /\ UNCHANGED <<service, acts, user, adding, home, slipped>>
         /\ requests' = requests \/ \E ops, guarded : Send(t, ops, guarded)
<1>1. CASE ReadRecord(t)
  <2>1. UNCHANGED <<service, acts, user, adding, home, slipped, requests>>
    BY <1>1 DEF ReadRecord, history
  <2> QED
    BY <1>1, <2>1, ReadRecordEffect DEF Ends, Moves
<1>2. CASE Probe(t)
  <2>1. UNCHANGED <<service, acts, user, adding, home, slipped>>
    BY <1>2 DEF Probe, history
  <2> QED
    BY <1>2, <2>1, ProbeEffect DEF Ends, Moves
<1>3. CASE ReadQueue(t)
  <2>1. UNCHANGED <<service, acts, user, adding, home, slipped>>
    BY <1>3 DEF ReadQueue, history
  <2> QED
    BY <1>3, <2>1, ReadQueueEffect, FinishEffect DEF Ends, Moves
<1>4. CASE Attempt(t)
  <2>1. UNCHANGED <<service, acts, user, adding, home, slipped>>
    BY <1>4 DEF Attempt, history
  <2> QED
    BY <1>4, <2>1, AttemptEffect DEF Ends, Moves
<1>5. CASE Apply(t)
  <2>1. UNCHANGED <<service, acts, user, adding, home, slipped, requests>>
    BY <1>5 DEF Apply, history
  <2> QED
    BY <1>5, <2>1, ApplyEffect DEF Ends, Moves
<1>6. CASE CannotApply(t)
  <2>1. UNCHANGED <<service, acts, user, adding, home, slipped, requests>>
    BY <1>6 DEF CannotApply, history
  <2>2. DeletionKept(t)
    BY <1>6, TabFacts, EndEffect DEF CannotApply
  <2> QED
    BY <2>1, <2>2
<1>7. CASE Complete(t)
  <2>1. UNCHANGED <<service, acts, user, adding, home, slipped, requests>>
    BY <1>7 DEF Complete, history
  <2> QED
    BY <1>7, <2>1, CompleteEffect DEF Ends, Moves
<1>8. CASE Changed(t)
  <2>1. UNCHANGED <<service, acts, user, adding, home, slipped, requests>>
    BY <1>8 DEF Changed, history
  <2> QED
    BY <1>8, <2>1, ChangedEffect DEF Ends, Moves
<1>9. CASE Conflict(t)
  <2>1. UNCHANGED <<service, acts, user, adding, home, slipped, requests>>
    BY <1>9 DEF Conflict, history
  <2> QED
    BY <1>9, <2>1, ConflictEffect DEF Moves
<1>10. CASE Restore(t)
  <2>1. UNCHANGED <<service, acts, user, adding, home, slipped, requests>>
    BY <1>10 DEF Restore
  <2> QED
    BY <1>10, <2>1, RestoreEffect DEF Ends, Moves
<1>11. CASE Replace(t)
  <2>1. UNCHANGED <<service, acts, user, adding, home, slipped, requests>>
    BY <1>11 DEF Replace, history
  <2> QED
    BY <1>11, <2>1, ReplaceEffect DEF Ends
<1>12. CASE ClearStale(t)
  <2>1. UNCHANGED <<service, acts, user, adding, home, slipped, requests>>
    BY <1>12 DEF ClearStale, history
  <2> QED
    BY <1>12, <2>1, ClearStaleEffect DEF Ends
<1>13. CASE Reconcile(t)
  <2>1. UNCHANGED <<service, acts, user, adding, home, slipped, requests>>
    BY <1>13 DEF Reconcile, history
  <2> QED
    BY <1>13, <2>1, ReconcileEffect DEF Ends, Moves
<1>14. CASE Claim(t)
  <2>1. UNCHANGED <<service, acts, user, adding, home, slipped, requests>>
    BY <1>14 DEF Claim
  <2> QED
    BY <1>14, <2>1, ClaimEffect DEF Ends, Moves
<1> QED
  BY <1>1, <1>2, <1>3, <1>4, <1>5, <1>6, <1>7, <1>8, <1>9, <1>10, <1>11, <1>12, <1>13, <1>14
  DEF SyncStep

\* A deletion that goes on or is given up is not begun.
LEMMA KeptDraining ==
  ASSUME Inv, NEW t \in Tabs, DeletionKept(t)
  PROVE  Draining' \subseteq Draining
<1>1. NoDeletion.pc = "none"
  BY DEF NoDeletion
<1>2. \A u \in Tabs : deletion'[u].pc = "drain" => deletion[u].pc = "drain"
  BY <1>1 DEF DeletionKept
<1> QED
  BY <1>2 DEF Draining

\* The steps of a session issue no generation.
LEMMA SyncBound == ASSUME Inv, Bounded, NEW t \in Tabs, SyncStep(t) PROVE Bounded'
<1>1. /\ DeletionKept(t) /\ UNCHANGED <<service, acts>>
      /\ requests' = requests \/ \E ops, guarded : Send(t, ops, guarded)
  BY SyncQuiet
<1>2. Deletes' = Deletes
  <2>1. CASE requests' = requests
    BY <2>1 DEF Deletes
  <2>2. ASSUME NEW ops, NEW guarded, Send(t, ops, guarded) PROVE Deletes' = Deletes
    <3>1. PICK new : new = [kind |-> "sync", tab |-> t, subject |-> session[t].subject,
                             ops |-> ops, generation |-> session'[t].generation,
                             guarded |-> guarded]
      OBVIOUS
    <3>2. requests' = requests \cup {new} /\ new.kind = "sync"
      BY <2>2, <3>1 DEF Send
    <3> QED
      BY <3>2 DEF Deletes
  <2> QED
    BY <1>1, <2>1, <2>2
<1>3. Draining' \subseteq Draining
  BY <1>1, KeptDraining
<1> QED
  BY <1>1, <1>2, <1>3, QuietBound DEF service

\* The other steps of a tab that begin no deletion.
LEMMA TabBound ==
  ASSUME Inv, Bounded, NEW t \in Tabs,
         \/ StartSync(t) \/ Merge(t) \/ KeepSeparate(t) \/ BeginAdd(t) \/ Add(t)
         \/ SignOut(t) \/ Reload(t) \/ Timeout(t)
         \/ \E s \in Subjects : SignIn(t, s)
  PROVE  Bounded'
<1>1. TabType /\ acts \in Nat
  BY TabFacts, Counts
<1>2. CASE StartSync(t)
  BY <1>2, QuietBound DEF StartSync, Move, Draining, Deletes, service
<1>3. CASE Merge(t) \/ KeepSeparate(t) \/ BeginAdd(t)
  BY <1>3, QuietBound DEF Merge, KeepSeparate, BeginAdd, Draining, Deletes, service
<1>4. CASE Add(t)
  BY <1>4, QuietBound, AddEffect DEF Draining, Deletes, service
<1>5. CASE SignOut(t) \/ Reload(t) \/ \E s \in Subjects : SignIn(t, s)
  <2>1. /\ Forgotten(t) /\ UNCHANGED service
        /\ acts' = acts \/ (acts < MaxActs /\ acts' = acts + 1)
    BY <1>5 DEF SignOut, Reload, SignIn, Act
  <2>2. DeletionKept(t)
    BY <2>1, ForgottenEffect DEF DeletionKept
  <2>3. Draining' \subseteq Draining /\ requests' = Abandoned(t)
    BY <2>1, <2>2, KeptDraining, ForgottenEffect
  <2> QED
    BY <2>1, <2>3, QuietBound DEF service
<1>6. CASE Timeout(t)
  <2>1. /\ requests' = Abandoned(t) /\ UNCHANGED service
        /\ acts < MaxActs /\ acts' = acts + 1
    BY <1>6 DEF Timeout, Act
  <2>2. DeletionKept(t)
    <3>1. CASE End(t, "failed")
      BY <3>1, TabFacts, EndEffect
    <3>2. CASE deletion' = [deletion EXCEPT ![t] = NoDeletion]
      BY <1>1, <3>2 DEF DeletionKept, TabType
    <3> QED
      BY <1>6, <3>1, <3>2 DEF Timeout
  <2>3. Draining' \subseteq Draining
    BY <2>2, KeptDraining
  <2> QED
    BY <2>1, <2>3, QuietBound DEF service
<1> QED
  BY <1>2, <1>3, <1>4, <1>5, <1>6

\* deleteCloud begins: it is one act.
LEMMA BeginDeleteBound == ASSUME Inv, Bounded, NEW t \in Tabs, BeginDelete(t) PROVE Bounded'
<1>1. /\ issued \in Nat /\ acts \in Nat /\ MaxActs \in Nat
      /\ Cardinality(Draining) \in Nat /\ Cardinality(Deletes) \in Nat
      /\ Cardinality(Known) \in Nat
  BY Counts
<1>2. /\ acts < MaxActs /\ acts' = acts + 1
      /\ deletion' = [deletion EXCEPT ![t].pc = "drain"]
      /\ requests' = Abandoned(t) /\ UNCHANGED <<issued, epoch>>
  BY DEF BeginDelete, Act, service
<1>3. TabType
  BY TabFacts
<1>4. Draining' \subseteq Draining \cup {t}
  BY <1>2, <1>3 DEF Draining, TabType
<1>5. /\ IsFiniteSet(Draining \cup {t})
      /\ Cardinality(Draining \cup {t}) <= Cardinality(Draining) + 1
  <2>1. IsFiniteSet(Draining)
    BY DEF Bounded
  <2>2. /\ IsFiniteSet(Draining \cup {t})
        /\ Cardinality(Draining \cup {t}) = IF t \in Draining THEN Cardinality(Draining)
                                            ELSE Cardinality(Draining) + 1
    BY <2>1, FS_AddElement
  <2> QED
    BY <1>1, <2>2
<1>6. IsFiniteSet(Draining') /\ Cardinality(Draining') <= Cardinality(Draining \cup {t})
  BY <1>4, <1>5, FS_Subset
<1>7. IsFiniteSet(Deletes') /\ Cardinality(Deletes') <= Cardinality(Deletes)
  BY <1>2, AbandonedDeletes DEF Bounded
<1>8. /\ Cardinality(Draining') \in Nat /\ Cardinality(Deletes') \in Nat
      /\ Cardinality(Draining \cup {t}) \in Nat
  BY <1>5, <1>6, <1>7, FS_CardinalityType
<1>9. Cardinality(Known)' = Cardinality(Known)
  BY <1>2 DEF Known
<1>10. issued + Cardinality(Draining) + Cardinality(Deletes) <= Cardinality(Known) + acts
  BY DEF Bounded
<1>11. issued' + Cardinality(Draining)' + Cardinality(Deletes)' <= Cardinality(Known)' + acts'
  BY <1>1, <1>2, <1>5, <1>6, <1>7, <1>8, <1>9, <1>10
<1> QED
  BY <1>1, <1>2, <1>6, <1>7, <1>11 DEF Bounded

\* A deletion that waited for the session becomes a request.
LEMMA SendDeleteBound == ASSUME Inv, Bounded, NEW t \in Tabs, SendDelete(t) PROVE Bounded'
<1>1. /\ issued \in Nat /\ acts \in Nat
      /\ Cardinality(Draining) \in Nat /\ Cardinality(Deletes) \in Nat
      /\ Cardinality(Known) \in Nat /\ TabType
  BY Counts, TabFacts
<1>2. /\ deletion[t].pc = "drain"
      /\ deletion' = [deletion EXCEPT ![t].pc = "wait",
                                      ![t].claimed = record[subject[t]].claimed]
      /\ UNCHANGED <<issued, epoch, acts>>
  BY DEF SendDelete, service
<1>3. PICK new : /\ new = [kind |-> "delete", tab |-> t, subject |-> subject[t]]
                 /\ requests' = requests \cup {new}
  BY DEF SendDelete
<1>4. Draining' \subseteq Draining \ {t} /\ t \in Draining
  BY <1>1, <1>2 DEF Draining, TabType, Inv, TabInv, DeletionType, NoDeletion
<1>5. IsFiniteSet(Draining \ {t}) /\ Cardinality(Draining \ {t}) = Cardinality(Draining) - 1
  BY <1>4, FS_RemoveElement DEF Bounded
<1>6. IsFiniteSet(Draining') /\ Cardinality(Draining') <= Cardinality(Draining \ {t})
  BY <1>4, <1>5, FS_Subset
<1>7. Deletes' \subseteq Deletes \cup {new}
  BY <1>3 DEF Deletes
<1>8. /\ IsFiniteSet(Deletes \cup {new})
      /\ Cardinality(Deletes \cup {new}) <= Cardinality(Deletes) + 1
  <2>1. IsFiniteSet(Deletes)
    BY DEF Bounded
  <2>2. /\ IsFiniteSet(Deletes \cup {new})
        /\ Cardinality(Deletes \cup {new}) = IF new \in Deletes THEN Cardinality(Deletes)
                                             ELSE Cardinality(Deletes) + 1
    BY <2>1, FS_AddElement
  <2> QED
    BY <1>1, <2>2
<1>9. IsFiniteSet(Deletes') /\ Cardinality(Deletes') <= Cardinality(Deletes \cup {new})
  BY <1>7, <1>8, FS_Subset
<1>10. /\ Cardinality(Draining') \in Nat /\ Cardinality(Deletes') \in Nat
       /\ Cardinality(Deletes \cup {new}) \in Nat
  BY <1>6, <1>8, <1>9, FS_CardinalityType
<1>11. Cardinality(Known)' = Cardinality(Known)
  BY <1>2 DEF Known
<1>12. issued + Cardinality(Draining) + Cardinality(Deletes) <= Cardinality(Known) + acts
       /\ acts \in 0..MaxActs
  BY DEF Bounded
<1>13. issued' + Cardinality(Draining)' + Cardinality(Deletes)' <= Cardinality(Known)' + acts'
  BY <1>1, <1>2, <1>5, <1>6, <1>8, <1>9, <1>10, <1>11, <1>12
<1> QED
  BY <1>2, <1>6, <1>9, <1>12, <1>13 DEF Bounded

\* The rest of a deletion begins none.
LEMMA ReturnBound ==
  ASSUME Inv, Bounded, NEW t \in Tabs, ReturnPending(t) \/ ClearDeleted(t) PROVE Bounded'
<1>1. TabType
  BY TabFacts
<1>2. \/ deletion' = [deletion EXCEPT ![t].pc = "clear"]
      \/ deletion' = [deletion EXCEPT ![t] = NoDeletion]
  BY DEF ReturnPending, ClearDeleted
<1>3. UNCHANGED <<service, acts, requests>>
  BY DEF ReturnPending, ClearDeleted
<1>4. Draining' \subseteq Draining
  <2>1. CASE deletion' = [deletion EXCEPT ![t].pc = "clear"]
    BY <1>1, <2>1 DEF Draining, TabType, Inv, TabInv, DeletionType, NoDeletion
  <2>2. CASE deletion' = [deletion EXCEPT ![t] = NoDeletion]
    BY <1>1, <2>2 DEF Draining, TabType, NoDeletion
  <2> QED
    BY <1>2, <2>1, <2>2
<1> QED
  BY <1>3, <1>4, QuietBound DEF Deletes, service

\* The service issues a generation to an account that has none, or for an act.
LEMMA IssuedBound ==
  ASSUME Inv, Bounded, NEW s \in Subjects, UNCHANGED deletion, Deletes' \subseteq Deletes,
         \/ acts' = acts
         \/ acts < MaxActs /\ acts' = acts + 1,
         \/ UNCHANGED <<issued, epoch>>
         \/ /\ issued' = issued + 1 /\ epoch' = [epoch EXCEPT ![s] = issued']
            /\ epoch[s] = Unknown \/ acts' = acts + 1
  PROVE  Bounded'
<1>1. /\ issued \in Nat /\ acts \in Nat /\ MaxActs \in Nat
      /\ Cardinality(Draining) \in Nat /\ Cardinality(Deletes) \in Nat
      /\ IsFiniteSet(Known) /\ Cardinality(Known) \in Nat
  BY Counts
<1>2. Draining' = Draining
  BY DEF Draining
<1>3. CASE UNCHANGED <<issued, epoch>>
  BY <1>2, <1>3, QuietBound
<1>4. CASE /\ issued' = issued + 1 /\ epoch' = [epoch EXCEPT ![s] = issued']
           /\ epoch[s] = Unknown \/ acts' = acts + 1
  <2>1. Known' = Known \cup {s}
    BY <1>1, <1>4 DEF Known, Inv, ServiceType, Unknown
  <2>2. /\ IsFiniteSet(Known')
        /\ Cardinality(Known') = IF s \in Known THEN Cardinality(Known) ELSE Cardinality(Known) + 1
    BY <1>1, <2>1, FS_AddElement
  <2>3. epoch[s] = Unknown => s \notin Known
    BY DEF Known
  <2>4. IsFiniteSet(Deletes') /\ Cardinality(Deletes') <= Cardinality(Deletes)
    BY FS_Subset DEF Bounded
  <2>5. Cardinality(Deletes') \in Nat
    BY <2>4, FS_CardinalityType
  <2>6. issued + Cardinality(Draining) + Cardinality(Deletes) <= Cardinality(Known) + acts
        /\ acts \in 0..MaxActs
    BY DEF Bounded
  <2>7. issued' + Cardinality(Draining') + Cardinality(Deletes') <= Cardinality(Known') + acts'
    BY <1>1, <1>2, <1>4, <2>2, <2>3, <2>4, <2>5, <2>6
  <2>8. acts' \in 0..MaxActs
    BY <1>1, <2>6
  <2> QED
    BY <1>2, <2>4, <2>7, <2>8 DEF Bounded
<1> QED
  BY <1>3, <1>4

\* A sync may be the first of its account.
LEMMA ServeBound == ASSUME Inv, Bounded, NEW r \in requests, Serve(r) PROVE Bounded'
<1>1. /\ r.kind = "sync" /\ requests' = requests \ {r} /\ UNCHANGED <<deletion, acts>>
      /\ r.subject \in Subjects
  BY DEF Serve, Inv, RequestInv
<1>2. Deletes' \subseteq Deletes
  BY <1>1 DEF Deletes
<1>3. \/ UNCHANGED <<issued, epoch>>
      \/ /\ issued' = issued + 1 /\ epoch' = [epoch EXCEPT ![r.subject] = issued']
         /\ epoch[r.subject] = Unknown
  <2>1. CASE ServeEpoch(r)
    BY <1>1, <2>1, ServeEpochEffect
  <2>2. CASE ServeBatch(r)
    BY <1>1, <2>2, ServeBatchEffect
  <2> QED
    BY <2>1, <2>2 DEF Serve
<1> QED
  BY <1>1, <1>2, <1>3, IssuedBound

\* What other devices do: a deletion is an act, a first event makes an account known.
LEMMA OtherBound ==
  ASSUME Inv, Bounded, NEW s \in Subjects,
         OtherDeletes(s) \/ \E e \in Others : OtherWrites(s, e)
  PROVE  Bounded'
<1>1. UNCHANGED <<deletion, requests>>
  BY DEF OtherDeletes, OtherWrites
<1>2. CASE OtherDeletes(s)
  <2>1. /\ acts < MaxActs /\ acts' = acts + 1
        /\ issued' = issued + 1 /\ epoch' = [epoch EXCEPT ![s] = issued']
    BY <1>2 DEF OtherDeletes, Act
  <2> QED
    BY <1>1, <2>1, IssuedBound DEF Deletes
<1>3. ASSUME NEW e \in Others, OtherWrites(s, e) PROVE Bounded'
  <2>1. /\ epoch \in [Subjects -> Issued] /\ UNCHANGED acts
        /\ \/ UNCHANGED <<issued, epoch>>
           \/ /\ epoch[s] = Unknown
              /\ issued' = issued + 1 /\ epoch' = [epoch EXCEPT ![s] = issued']
    BY <1>3 DEF Inv, ServiceType, OtherWrites
  <2> QED
    BY <1>1, <2>1, IssuedBound DEF Deletes
<1> QED
  BY <1>2, <1>3

\* A deletion uses the generation that its request stood for; the very first one uses two,
\* which no account has before.
LEMMA ServeDeleteBound == ASSUME Inv, Bounded, NEW r \in requests, ServeDelete(r) PROVE Bounded'
<1> DEFINE s == r.subject
<1>1. /\ issued \in Nat /\ acts \in Nat
      /\ Cardinality(Draining) \in Nat /\ Cardinality(Deletes) \in Nat
      /\ IsFiniteSet(Known) /\ Cardinality(Known) \in Nat
      /\ RequestInv(r) /\ TabType /\ epoch \in [Subjects -> Issued]
  BY Counts DEF Inv, ServiceType
<1>2. /\ requests' = requests \ {r} /\ r.kind = "delete" /\ UNCHANGED acts
      /\ issued' = IF issued = 0 THEN 2 ELSE issued + 1
      /\ epoch' = [epoch EXCEPT ![s] = issued']
      /\ deletion' = IF r.tab = Nobody THEN deletion
                     ELSE [deletion EXCEPT ![r.tab].pc = "return", ![r.tab].reply = issued']
      /\ s \in Subjects
  BY <1>1 DEF ServeDelete, RequestInv
<1>3. Deletes' = Deletes \ {r} /\ r \in Deletes
  BY <1>2 DEF Deletes
<1>4. IsFiniteSet(Deletes') /\ Cardinality(Deletes') = Cardinality(Deletes) - 1
  BY <1>3, FS_RemoveElement DEF Bounded
<1>5. Draining' \subseteq Draining
  <2>1. \A t \in Tabs : deletion'[t].pc = "drain" => deletion[t].pc = "drain"
    BY <1>1, <1>2 DEF TabType, Inv, TabInv, DeletionType, NoDeletion
  <2> QED
    BY <2>1 DEF Draining
<1>6. IsFiniteSet(Draining') /\ Cardinality(Draining') <= Cardinality(Draining)
  BY <1>5, FS_Subset DEF Bounded
<1>7. Known' = Known \cup {s}
  BY <1>1, <1>2 DEF Known, Unknown
<1>8. /\ IsFiniteSet(Known')
      /\ Cardinality(Known') = IF s \in Known THEN Cardinality(Known) ELSE Cardinality(Known) + 1
  BY <1>1, <1>7, FS_AddElement
<1>9. issued = 0 => s \notin Known
  BY <1>1, <1>2 DEF Known, Issued, Unknown
<1>10. Cardinality(Draining') \in Nat /\ Cardinality(Deletes') \in Nat
  BY <1>4, <1>6, FS_CardinalityType
<1>11. issued + Cardinality(Draining) + Cardinality(Deletes) <= Cardinality(Known) + acts
       /\ acts \in 0..MaxActs
  BY DEF Bounded
<1>12. issued' + Cardinality(Draining') + Cardinality(Deletes') <= Cardinality(Known') + acts'
  BY <1>1, <1>2, <1>4, <1>6, <1>8, <1>9, <1>10, <1>11
<1> QED
  BY <1>2, <1>4, <1>6, <1>11, <1>12 DEF Bounded

\* Every step keeps the count.
LEMMA NextBound == ASSUME Inv, Bounded, [Next]_vars PROVE Bounded'
<1>1. ASSUME NEW t \in Tabs,
             \/ StartSync(t) \/ SyncStep(t)
             \/ Merge(t) \/ KeepSeparate(t) \/ BeginAdd(t) \/ Add(t)
             \/ BeginDelete(t) \/ DeleteStep(t)
             \/ SignOut(t) \/ Reload(t) \/ Timeout(t)
             \/ \E s \in Subjects : SignIn(t, s)
      PROVE  Bounded'
  BY <1>1, TabBound, SyncBound, BeginDeleteBound, SendDeleteBound, ReturnBound DEF DeleteStep
<1>2. ASSUME NEW r \in requests, Serve(r) \/ ServeDelete(r) \/ Lose(r) PROVE Bounded'
  <2>1. CASE Lose(r)
    BY <2>1, QuietBound DEF Lose, Draining, Deletes, service
  <2> QED
    BY <1>2, <2>1, ServeBound, ServeDeleteBound
<1>3. CASE \E s \in Subjects : OtherDeletes(s) \/ \E e \in Others : OtherWrites(s, e)
  BY <1>3, OtherBound
<1>4. CASE UNCHANGED vars
  BY <1>4, QuietBound DEF vars, service, Draining, Deletes
<1> QED
  BY <1>1, <1>2, <1>3, <1>4 DEF Next

\* There is nothing to count at first.
LEMMA InitBound == ASSUME Init PROVE Bounded
<1>1. NoDeletion.pc = "none"
  BY DEF NoDeletion
<1>2. Draining = {} /\ Deletes = {} /\ Known = {}
  BY <1>1 DEF Init, Draining, Deletes, Known
<1> QED
  BY <1>2, FS_EmptySet, EnrollmentType DEF Init, Bounded

\* What IndexedDB and the service hold has its type, and no more generations are issued than
\* accounts and acts ask for.
THEOREM TypesHold == Spec => []TypeOK
<1>1. Init => Inv /\ Bounded
  BY InitTypes, InitBound
<1>2. Inv /\ Bounded /\ [Next]_vars => (Inv /\ Bounded)'
  BY NextTypes, NextBound
<1>3. Inv /\ Bounded => TypeOK
  <2> SUFFICES ASSUME Inv, Bounded PROVE TypeOK
    OBVIOUS
  <2>1. issued \in 0..LastGeneration
    <3>1. issued + Cardinality(Draining) + Cardinality(Deletes) <= Cardinality(Known) + acts
          /\ acts \in 0..MaxActs
      BY DEF Bounded
    <3> QED
      BY <3>1, Counts DEF LastGeneration
  <2>2. \A s \in Subjects :
          /\ record[s].claimed \subseteq Events
          /\ record[s].attempted # {} => record[s].claimed # {}
    BY DEF Inv, StoreType, Records, NoRecord
  <2> QED
    BY <2>1, <2>2 DEF TypeOK, Inv, ServiceType, StoreType, TabType, Issued
<1> QED
  BY <1>1, <1>2, <1>3, PTL DEF Spec

-----------------------------------------------------------------------------
(* One tab: the session, the record and the generations.                       *)

SingleTab == \A t, u \in Tabs : t = u

\* What a session that works on an account knows of it, and what the record says.
LEMMA TogetherFacts ==
  ASSUME Inv, Together, NEW t \in Tabs
  PROVE  /\ SessionEpoch(t) /\ SessionRecord(t) /\ DeletionRecord(t)
         /\ session[t].pc # "idle" =>
              /\ session[t].subject \in Subjects /\ AccountInv(session[t].subject)
              /\ generation[session[t].subject] \in Nat
              /\ epoch[session[t].subject] \in Nat
              /\ record[session[t].subject] \in Records
<1>1. session[t].pc # "idle" => session[t].subject \in Subjects
  BY DEF Inv, TabInv, SessionType
<1> QED
  BY <1>1 DEF Together, Inv, ServiceType, StoreType, Issued

\* A step of the tab on which the store and the service do not depend.
LEMMA TogetherFrame ==
  ASSUME Inv, SingleTab, Together, NEW t \in Tabs,
         UNCHANGED <<service, owner, acked, generation, record, subject>>,
         DeletionKept(t), Behind', SessionEpoch(t)', SessionRecord(t)'
  PROVE  Together'
<1>1. \A s \in Subjects : AccountInv(s)'
  BY DEF Together, AccountInv, OwnedBy, service
<1>2. NoDeletion.pc = "none"
  BY DEF NoDeletion
<1>3. DeletionRecord(t)'
  BY <1>2 DEF Together, DeletionRecord, DeletionKept, service
<1>4. \A u \in Tabs : u = t
  BY DEF SingleTab
<1>5. \A u \in Tabs : SessionEpoch(u)' /\ SessionRecord(u)' /\ DeletionRecord(u)'
  BY <1>3, <1>4
<1> QED
  BY <1>1, <1>5 DEF Together

\* A tab without a session.
LEMMA RestingTogether ==
  ASSUME NEW t, session'[t].pc = "idle",
         prompt'[t] /\ subject'[t] # Nobody => record'[subject'[t]] = NoRecord
  PROVE  SessionEpoch(t)' /\ SessionRecord(t)'
  BY DEF SessionEpoch, SessionRecord, Started, Current, Phases

\* A new request goes in the generation of the account.
LEMMA BehindSend ==
  ASSUME Together, NEW t, NEW ops, NEW guarded, Send(t, ops, guarded), UNCHANGED generation,
         session'[t].generation <= generation[session[t].subject]
  PROVE  Behind'
<1>1. PICK new : new = [kind |-> "sync", tab |-> t, subject |-> session[t].subject,
                         ops |-> ops, generation |-> session'[t].generation,
                         guarded |-> guarded]
  OBVIOUS
<1>2. /\ requests' = requests \cup {new} /\ new.generation = session'[t].generation
      /\ new.subject = session[t].subject
  BY <1>1 DEF Send
<1> QED
  BY <1>2 DEF Together, Behind

\* Requests that go on, with or without their tab.
LEMMA BehindKept ==
  ASSUME Inv, Together, UNCHANGED generation,
         requests' \subseteq requests \/ \E t \in Tabs : requests' = Abandoned(t)
  PROVE  Behind'
<1>1. CASE requests' \subseteq requests
  BY <1>1 DEF Together, Behind
<1>2. ASSUME NEW t \in Tabs, requests' = Abandoned(t) PROVE Behind'
  <2>1. ASSUME NEW r \in requests', r.kind = "sync"
        PROVE  r.generation <= generation[r.subject]
    <3>1. PICK q \in requests : LeftBy(r, t, q)
      BY <1>2, AbandonedRequests
    <3> QED
      BY <2>1, <3>1 DEF LeftBy, Together, Behind
  <2> QED
    BY <2>1 DEF Behind
<1> QED
  BY <1>1, <1>2

\* The record is read: the session goes by it.
LEMMA ReadRecordTogether ==
  ASSUME Inv, SingleTab, Together, NEW t \in Tabs, ReadRecord(t) PROVE Together'
<1> DEFINE a == session[t].subject
<1>1. /\ session[t].pc = "record"
      /\ UNCHANGED <<service, owner, acked, generation, record, subject, prompt, requests>>
  BY DEF ReadRecord, account, user
<1>2. /\ SessionEpoch(t) /\ SessionRecord(t) /\ AccountInv(a) /\ record[a] \in Records
  BY <1>1, TogetherFacts
<1>3. DeletionKept(t) /\ SessionEpoch(t)' /\ SessionRecord(t)'
  <2>1. CASE Ends(t)
    <3>1. session'[t].pc = "idle"
      BY <2>1 DEF Ends, Idle
    <3> QED
      BY <1>1, <1>2, <2>1, <3>1, RestingTogether DEF SessionRecord, Ends
  <2>2. CASE /\ Moves(t, {"pc", "use", "first"})
             /\ record[a] = NoRecord
             /\ session'[t].pc = "read" /\ session'[t].use = "plain" /\ session'[t].first
    BY <1>1, <1>2, <2>2
    DEF Moves, Changes, Fields, Idle, SessionEpoch, SessionRecord, Started, Current, Phases
  <2>3. CASE /\ Moves(t, {"pc", "use", "first", "claim", "enrolling"})
             /\ record[a] # NoRecord
             /\ session'[t].pc = IF record[a].attempted = {} THEN "read" ELSE "probe"
             /\ session'[t].use = "guarded" /\ session'[t].first
             /\ session'[t].claim = record[a]
    BY <1>1, <1>2, <2>3
    DEF Moves, Changes, Fields, Idle, SessionEpoch, SessionRecord, Started, Current, Phases
  <2> QED
    BY <2>1, <2>2, <2>3, ReadRecordEffect
<1>4. Behind'
  BY <1>1, BehindKept
<1> QED
  BY <1>1, <1>3, <1>4, TogetherFrame

\* The probe is sent in the account's generation.
LEMMA ProbeTogether ==
  ASSUME Inv, SingleTab, Together, NEW t \in Tabs, Probe(t) PROVE Together'
<1> DEFINE a == session[t].subject
<1>1. /\ session[t].pc = "probe"
      /\ UNCHANGED <<service, owner, acked, generation, record, subject, prompt>>
  BY DEF Probe, account, user
<1>2. /\ SessionEpoch(t) /\ SessionRecord(t) /\ generation[a] \in Nat
  BY <1>1, TogetherFacts
<1>3. CASE Ends(t) /\ UNCHANGED requests
  <2>1. session'[t].pc = "idle"
    BY <1>3 DEF Ends, Idle
  <2>2. SessionEpoch(t)' /\ SessionRecord(t)'
    BY <1>1, <1>2, <2>1, RestingTogether DEF SessionRecord
  <2>3. Behind'
    BY <1>1, <1>3, BehindKept
  <2> QED
    BY <1>1, <1>3, <2>2, <2>3, TogetherFrame DEF Ends
<1>4. CASE /\ Moves(t, {"pc", "probing", "sent", "generation"})
           /\ session'[t].pc = "wait" /\ session'[t].probing = TRUE /\ session'[t].sent = {}
           /\ session'[t].generation = generation[a]
           /\ Send(t, {}, FALSE)
  <2>1. SessionEpoch(t)' /\ SessionRecord(t)'
    BY <1>1, <1>2, <1>4
    DEF Moves, Changes, Fields, Idle, SessionEpoch, SessionRecord, Started, Current, Phases
  <2>2. Behind'
    <3>1. session'[t].generation <= generation[session[t].subject]
      BY <1>2, <1>4
    <3>2. UNCHANGED generation /\ Send(t, {}, FALSE)
      BY <1>1, <1>4
    <3> QED
      BY <3>1, <3>2, BehindSend
  <2> QED
    BY <1>1, <1>4, <2>1, <2>2, TogetherFrame DEF Moves
<1> QED
  BY <1>3, <1>4, ProbeEffect

\* A claim that waits is in the queue.
LEMMA ClaimIsQueued ==
  ASSUME Inv, Together, NEW t \in Tabs, session[t].pc = "read", session[t].use = "guarded",
         ~session[t].aborted
  PROVE  QueueOf(t) # {} /\ QueueOf(t) = Batch(session[t].subject)
<1> DEFINE a == session[t].subject
<1>1. /\ SessionRecord(t) /\ a \in Subjects /\ AccountInv(a) /\ record[a] \in Records
  BY TogetherFacts
<1>2. record[a] # NoRecord /\ (record[a].attempted # {} => acked \cap OwnedBy(a) = {})
  BY <1>1 DEF SessionRecord, Started, Phases
<1>3. record[a].claimed # {}
  BY <1>1, <1>2 DEF Inv, StoreType
<1>4. record[a].claimed \cap acked = {} /\ record[a].claimed \subseteq OwnedBy(a)
  BY <1>1, <1>2 DEF AccountInv
<1>5. Unsynced(a) # {} /\ Unsynced(a) \subseteq Events
  BY <1>3, <1>4, QueueType DEF Unsynced
<1>6. Batch(a) # {}
  BY <1>1, <1>5, BatchIsUnsynced
<1>7. Active(t, a)
  BY DEF Inv, TabInv, Active
<1> QED
  BY <1>6, <1>7 DEF QueueOf

\* The queue is read in the account's generation.
LEMMA ReadQueueTogether ==
  ASSUME Inv, SingleTab, Together, NEW t \in Tabs, ReadQueue(t) PROVE Together'
<1> DEFINE a == session[t].subject
<1>1. /\ session[t].pc = "read"
      /\ UNCHANGED <<service, owner, acked, generation, record, subject>>
  BY DEF ReadQueue, account, user
<1>2. /\ SessionEpoch(t) /\ SessionRecord(t) /\ generation[a] \in Nat
  BY <1>1, TogetherFacts
<1>3. KnownTo(t) = generation[a]
  BY <1>1, <1>2 DEF KnownTo, SessionEpoch
<1>4. CASE ~session[t].first /\ Finish(t) /\ UNCHANGED requests
  <2>1. session[t].use # "guarded" /\ record[a] = NoRecord
    BY <1>1, <1>2, <1>4 DEF SessionRecord, Started, Phases
  <2>2. /\ Ends(t) \/ (Moves(t, {"pc"}) /\ session'[t].pc = "reconcile")
        /\ prompt'[t] => prompt[t] \/ session[t].use = "restored"
    BY <1>4, FinishEffect
  <2>3. subject[t] \in {a, Nobody}
    BY <1>1, <1>2 DEF SessionRecord
  <2>4. SessionEpoch(t)' /\ SessionRecord(t)' /\ DeletionKept(t)
    <3>1. CASE Ends(t)
      <4>1. session'[t].pc = "idle"
        BY <3>1 DEF Ends, Idle
      <4> QED
        BY <1>1, <2>1, <2>3, <3>1, <4>1, RestingTogether DEF Ends
    <3>2. CASE Moves(t, {"pc"}) /\ session'[t].pc = "reconcile"
      BY <1>1, <1>2, <2>1, <2>3, <3>2
      DEF Moves, Changes, Fields, Idle, SessionEpoch, SessionRecord, Started, Current, Phases
    <3> QED
      BY <2>2, <3>1, <3>2
  <2>5. Behind'
    BY <1>1, <1>4, BehindKept
  <2> QED
    BY <1>1, <2>4, <2>5, TogetherFrame
<1>5. CASE Ends(t) /\ UNCHANGED <<intent, prompt, requests>>
  <2>1. session'[t].pc = "idle"
    BY <1>5 DEF Ends, Idle
  <2>2. SessionEpoch(t)' /\ SessionRecord(t)'
    BY <1>1, <1>2, <1>5, <2>1, RestingTogether DEF SessionRecord
  <2>3. Behind'
    BY <1>1, <1>5, BehindKept
  <2> QED
    BY <1>1, <1>5, <2>2, <2>3, TogetherFrame DEF Ends
<1>6. ASSUME /\ Moves(t, {"pc", "probing", "sent", "generation", "first"})
             /\ ~session[t].aborted
             /\ session'[t].probing = FALSE /\ session'[t].first = FALSE
             /\ session'[t].generation = KnownTo(t)
             /\ session'[t].sent = QueueOf(t),
             \/ /\ session[t].use = "guarded" /\ QueueOf(t) # {}
                /\ session'[t].pc = "attempt" /\ UNCHANGED requests
             \/ /\ session[t].use # "guarded" \/ QueueOf(t) = {}
                /\ session'[t].pc = "wait" /\ Send(t, QueueOf(t), FALSE),
             UNCHANGED <<intent, prompt>>
      PROVE  Together'
  <2>1. /\ session'[t].pc \in {"attempt", "wait"}
        /\ session'[t].pc = "wait" => session[t].use # "guarded"
    BY <1>1, <1>6, ClaimIsQueued
  <2>2. SessionEpoch(t)' /\ SessionRecord(t)'
    BY <1>1, <1>2, <1>3, <1>6, <2>1
    DEF Moves, Changes, Fields, Idle, SessionEpoch, SessionRecord, Started, Current, Phases
  <2>3. Behind'
    <3>1. CASE UNCHANGED requests
      BY <1>1, <3>1, BehindKept
    <3>2. CASE Send(t, QueueOf(t), FALSE)
      <4>1. session'[t].generation <= generation[session[t].subject]
        BY <1>2, <1>3, <1>6
      <4>2. UNCHANGED generation
        BY <1>1
      <4> QED
        BY <3>2, <4>1, <4>2, BehindSend
    <3> QED
      BY <1>6, <3>1, <3>2
  <2> QED
    BY <1>1, <1>6, <2>2, <2>3, TogetherFrame DEF Moves
<1> QED
  BY <1>4, <1>5, <1>6, ReadQueueEffect

\* Another generation than the one it sent: the account's is newer.
LEMMA ChangedTogether ==
  ASSUME Inv, SingleTab, Together, NEW t \in Tabs, Changed(t) PROVE Together'
<1> DEFINE a == session[t].subject
<1>1. /\ session[t].pc \in {"mismatch", "apply"}
      /\ session[t].pc = "apply" => Fenced(t)
      /\ UNCHANGED <<service, owner, acked, generation, record, subject, prompt, requests>>
  BY DEF Changed, account, user
<1>2. /\ SessionEpoch(t) /\ SessionRecord(t) /\ generation[a] \in Nat
  BY <1>1, TogetherFacts
<1>3. session[t].pc = "mismatch" /\ NewGeneration(t) = session[t].reply
  BY <1>1, <1>2 DEF SessionEpoch, Current, Fenced, NewGeneration
<1>4. DeletionKept(t) /\ SessionEpoch(t)' /\ SessionRecord(t)'
  <2>1. CASE Ends(t)
    <3>1. session'[t].pc = "idle"
      BY <2>1 DEF Ends, Idle
    <3> QED
      BY <1>1, <1>2, <2>1, <3>1, RestingTogether DEF SessionRecord, Ends
  <2>2. CASE /\ session[t].use = "plain"
             /\ Moves(t, {"pc", "reply"})
             /\ session'[t].pc = "clear" /\ session'[t].reply = NewGeneration(t)
    BY <1>1, <1>2, <1>3, <2>2
    DEF Moves, Changes, Fields, Idle, SessionEpoch, SessionRecord, Started, Current, Phases, service
  <2>3. CASE /\ Moves(t, {"pc", "next", "cause"})
             /\ session'[t].pc = "restore" /\ session'[t].next = NewGeneration(t)
             /\ session'[t].cause = "generation"
    BY <1>1, <1>2, <1>3, <2>3
    DEF Moves, Changes, Fields, Idle, SessionEpoch, SessionRecord, Started, Current, Phases, service
  <2> QED
    BY <2>1, <2>2, <2>3, ChangedEffect
<1>5. Behind'
  BY <1>1, BehindKept
<1> QED
  BY <1>1, <1>4, <1>5, TogetherFrame

\* A conflict keeps the record until the choice is restored.
LEMMA ConflictTogether ==
  ASSUME Inv, SingleTab, Together, NEW t \in Tabs, Conflict(t) PROVE Together'
<1>1. /\ session[t].pc = "conflict"
      /\ UNCHANGED <<service, owner, acked, generation, record, subject, prompt, requests>>
  BY DEF Conflict, account, user
<1>2. SessionEpoch(t) /\ SessionRecord(t)
  BY TogetherFacts
<1>3. DeletionKept(t) /\ SessionEpoch(t)' /\ SessionRecord(t)'
  BY <1>1, <1>2, ConflictEffect
  DEF Moves, Changes, Fields, Idle, SessionEpoch, SessionRecord, Started, Current, Phases
<1>4. Behind'
  BY <1>1, BehindKept
<1> QED
  BY <1>1, <1>3, <1>4, TogetherFrame

\* What is decided of the anonymous events asks for no record.
LEMMA ReconcileTogether ==
  ASSUME Inv, SingleTab, Together, NEW t \in Tabs, Reconcile(t) PROVE Together'
<1> DEFINE a == session[t].subject
<1>1. /\ session[t].pc = "reconcile"
      /\ UNCHANGED <<service, owner, acked, generation, record, subject, requests>>
  BY DEF Reconcile, account, user
<1>2. SessionEpoch(t) /\ SessionRecord(t)
  BY TogetherFacts
<1>3. /\ session[t].use # "guarded" /\ record[a] = NoRecord /\ subject[t] \in {a, Nobody}
  BY <1>1, <1>2 DEF SessionRecord, Started, Phases
<1>4. DeletionKept(t) /\ SessionEpoch(t)' /\ SessionRecord(t)'
  <2>1. CASE Ends(t)
    <3>1. session'[t].pc = "idle"
      BY <2>1 DEF Ends, Idle
    <3> QED
      BY <1>1, <1>3, <2>1, <3>1, RestingTogether DEF Ends
  <2>2. CASE Moves(t, {"pc"}) /\ session'[t].pc = "claim" /\ ~prompt'[t]
    BY <1>1, <1>2, <1>3, <2>2
    DEF Moves, Changes, Fields, Idle, SessionEpoch, SessionRecord, Started, Current, Phases
  <2> QED
    BY <2>1, <2>2, ReconcileEffect
<1>5. Behind'
  BY <1>1, BehindKept
<1> QED
  BY <1>1, <1>4, <1>5, TogetherFrame

\* A session begins with no record read.
LEMMA StartSyncTogether ==
  ASSUME Inv, SingleTab, Together, NEW t \in Tabs, StartSync(t) PROVE Together'
<1>1. UNCHANGED <<service, owner, acked, generation, record, subject, prompt, requests>>
  BY DEF StartSync, account, user
<1>2. SessionRecord(t)
  BY TogetherFacts
<1>3. DeletionKept(t) /\ SessionEpoch(t)' /\ SessionRecord(t)'
  BY <1>1, <1>2, StartSyncEffect
  DEF Moves, Changes, Fields, Idle, SessionEpoch, SessionRecord, Started, Current, Phases
<1>4. Behind'
  BY <1>1, BehindKept
<1> QED
  BY <1>1, <1>3, <1>4, TogetherFrame

\* A session that goes on as it was, or aborted.
LEMMA SessionFrame ==
  ASSUME NEW t, SessionEpoch(t), SessionRecord(t),
         UNCHANGED <<service, owner, acked, generation, record>>,
         UNCHANGED session \/ (DOMAIN session'[t] = Fields /\ Changes(t, {"aborted"})),
         subject'[t] \in {subject[t], Nobody}, prompt'[t] => prompt[t]
  PROVE  SessionEpoch(t)' /\ SessionRecord(t)'
<1>1. /\ session'[t].pc = session[t].pc /\ session'[t].subject = session[t].subject
      /\ session'[t].use = session[t].use /\ session'[t].first = session[t].first
      /\ session'[t].claim = session[t].claim /\ session'[t].probing = session[t].probing
      /\ session'[t].sent = session[t].sent /\ session'[t].rows = session[t].rows
      /\ session'[t].generation = session[t].generation
      /\ session'[t].reply = session[t].reply /\ session'[t].next = session[t].next
      /\ session'[t].cause = session[t].cause
  BY DEF Changes, Fields, Idle
<1>2. \A d : OwnedBy(d)' = OwnedBy(d)
  BY DEF OwnedBy
<1>3. epoch' = epoch /\ log' = log
  BY DEF service
<1>4. SessionEpoch(t)'
  BY <1>1, <1>3 DEF SessionEpoch
<1>5. SessionRecord(t)'
  BY <1>1, <1>2 DEF SessionRecord
<1> QED
  BY <1>4, <1>5

\* The choice to keep them separate, and the beginning of an edit.
LEMMA ChoiceTogether ==
  ASSUME Inv, SingleTab, Together, NEW t \in Tabs, KeepSeparate(t) \/ BeginAdd(t)
  PROVE  Together'
<1>1. TabType
  BY TabFacts
<1>2. /\ UNCHANGED <<service, owner, acked, generation, record, subject, session, deletion,
                     requests>>
      /\ prompt'[t] => prompt[t]
  BY <1>1 DEF KeepSeparate, BeginAdd, account, user, TabType
<1>3. SessionEpoch(t)' /\ SessionRecord(t)'
  BY <1>2, TogetherFacts, SessionFrame
<1>4. DeletionKept(t)
  BY <1>1, <1>2 DEF DeletionKept, TabType
<1>5. Behind'
  BY <1>2, BehindKept
<1> QED
  BY <1>2, <1>3, <1>4, <1>5, TogetherFrame

\* A step of the tab that leaves its session, or aborts it.
LEMMA LeavingTogether ==
  ASSUME Inv, SingleTab, Together, NEW t \in Tabs,
         UNCHANGED <<service, account>>, requests' = Abandoned(t),
         \/ session'[t] = Idle \/ UNCHANGED session
         \/ DOMAIN session'[t] = Fields /\ Changes(t, {"aborted"}),
         deletion'[t] \in {deletion[t], NoDeletion} \/ deletion'[t].pc = "drain",
         subject'[t] = Nobody \/ subject'[t] = subject[t] \/ session'[t] = Idle,
         deletion'[t] = NoDeletion \/ subject'[t] = subject[t],
         prompt'[t] => prompt[t] /\ subject'[t] = subject[t]
  PROVE  Together'
<1>1. /\ UNCHANGED <<generation, record, owner, acked>>
      /\ SessionEpoch(t) /\ SessionRecord(t) /\ DeletionRecord(t)
  BY TogetherFacts DEF account
<1>2. \A s \in Subjects : AccountInv(s)'
  BY <1>1 DEF Together, AccountInv, OwnedBy, service
<1>3. Behind'
  BY <1>1, BehindKept
<1>4. SessionEpoch(t)' /\ SessionRecord(t)'
  <2>1. CASE session'[t] = Idle
    <3>1. session'[t].pc = "idle"
      BY <2>1 DEF Idle
    <3>2. prompt'[t] /\ subject'[t] # Nobody => record'[subject'[t]] = NoRecord
      BY <1>1 DEF SessionRecord
    <3> QED
      BY <3>1, <3>2, RestingTogether
  <2>2. CASE session'[t] # Idle
    BY <1>1, <2>2, SessionFrame
  <2> QED
    BY <2>1, <2>2
<1>5. DeletionRecord(t)'
  <2>1. NoDeletion.pc = "none"
    BY DEF NoDeletion
  <2> QED
    BY <1>1, <2>1 DEF DeletionRecord, service
<1>6. \A u \in Tabs : u = t
  BY DEF SingleTab
<1> QED
  BY <1>2, <1>3, <1>4, <1>5, <1>6 DEF Together

\* Signing in and out, a reload, a timeout and the beginning of a deletion.
LEMMA LeftTogether ==
  ASSUME Inv, SingleTab, Together, NEW t \in Tabs,
         \/ SignOut(t) \/ Reload(t) \/ Timeout(t) \/ BeginDelete(t)
         \/ \E s \in Subjects : SignIn(t, s)
  PROVE  Together'
<1>1. TabType
  BY TabFacts
<1>2. CASE \/ Reload(t) \/ \E s \in Subjects : SignIn(t, s)
  <2>1. /\ session' = [session EXCEPT ![t] = Idle] /\ Forgotten(t)
        /\ UNCHANGED <<service, account>>
    BY <1>2 DEF Reload, SignIn
  <2>2. /\ requests' = Abandoned(t) /\ ~prompt'[t] /\ deletion'[t] = NoDeletion
    BY <2>1, ForgottenEffect
  <2> QED
    BY <1>1, <2>1, <2>2, LeavingTogether DEF TabType
<1>3. CASE SignOut(t)
  <2>1. /\ session' = [session EXCEPT ![t] =
             IF @.pc \in {"idle", "wait"} THEN Idle ELSE [@ EXCEPT !.aborted = TRUE]]
        /\ Forgotten(t) /\ subject'[t] = Nobody
        /\ UNCHANGED <<service, account>>
    BY <1>1, <1>3 DEF SignOut, TabType
  <2>2. /\ requests' = Abandoned(t) /\ ~prompt'[t] /\ deletion'[t] = NoDeletion
    BY <2>1, ForgottenEffect
  <2>3. \/ session'[t] = Idle
        \/ DOMAIN session'[t] = Fields /\ Changes(t, {"aborted"})
    BY <2>1, AbortEffect
  <2> QED
    BY <2>1, <2>2, <2>3, LeavingTogether
<1>4. CASE BeginDelete(t)
  <2>1. /\ session' = [session EXCEPT ![t] =
             IF @.pc \in {"idle", "wait"} THEN Idle ELSE [@ EXCEPT !.aborted = TRUE]]
        /\ deletion' = [deletion EXCEPT ![t].pc = "drain"]
        /\ requests' = Abandoned(t)
        /\ UNCHANGED <<service, account, subject, prompt>>
    BY <1>4 DEF BeginDelete, user
  <2>2. deletion'[t].pc = "drain"
    BY <1>1, <2>1 DEF TabType, Inv, TabInv, DeletionType, NoDeletion
  <2>3. \/ session'[t] = Idle
        \/ DOMAIN session'[t] = Fields /\ Changes(t, {"aborted"})
    BY <2>1, AbortEffect
  <2> QED
    BY <2>1, <2>2, <2>3, LeavingTogether
<1>5. CASE Timeout(t)
  <2>1. /\ requests' = Abandoned(t) /\ UNCHANGED <<service, account, subject, prompt>>
    BY <1>5 DEF Timeout, user
  <2>2. /\ session'[t] = Idle \/ UNCHANGED session
        /\ deletion'[t] \in {deletion[t], NoDeletion}
    <3>1. CASE End(t, "failed")
      <4>1. DeletionKept(t) /\ session'[t] = Idle
        BY <3>1, TabFacts, EndEffect
      <4> QED
        BY <4>1 DEF DeletionKept
    <3>2. CASE deletion' = [deletion EXCEPT ![t] = NoDeletion] /\ UNCHANGED session
      BY <1>1, <3>2 DEF TabType
    <3> QED
      BY <1>5, <3>1, <3>2 DEF Timeout
  <2> QED
    BY <2>1, <2>2, LeavingTogether
<1> QED
  BY <1>2, <1>3, <1>4, <1>5

\* The DELETE carries what was claimed when it was sent.
LEMMA SendDeleteTogether ==
  ASSUME Inv, SingleTab, Together, NEW t \in Tabs, SendDelete(t) PROVE Together'
<1>1. TabType /\ TabInv(t)
  BY TabFacts
<1>2. /\ deletion' = [deletion EXCEPT ![t].pc = "wait",
                                      ![t].claimed = record[subject[t]].claimed]
      /\ UNCHANGED <<service, account, session, subject, prompt>>
  BY DEF SendDelete, user
<1>3. PICK new : /\ new = [kind |-> "delete", tab |-> t, subject |-> subject[t]]
                 /\ requests' = requests \cup {new}
  BY DEF SendDelete
<1>4. /\ UNCHANGED <<generation, record, owner, acked>>
      /\ SessionEpoch(t) /\ SessionRecord(t) /\ DeletionRecord(t)
  BY <1>2, TogetherFacts DEF account
<1>5. \A s \in Subjects : AccountInv(s)'
  BY <1>2, <1>4 DEF Together, AccountInv, OwnedBy, service
<1>6. Behind'
  BY <1>3, <1>4 DEF Together, Behind
<1>7. SessionEpoch(t)' /\ SessionRecord(t)'
  BY <1>2, <1>4, SessionFrame
<1>8. DeletionRecord(t)'
  <2>1. deletion'[t].pc = "wait" /\ deletion'[t].claimed = record[subject[t]].claimed
    BY <1>1, <1>2 DEF TabType, TabInv, DeletionType, NoDeletion
  <2> QED
    BY <1>2, <1>4, <2>1 DEF DeletionRecord
<1>9. \A u \in Tabs : u = t
  BY DEF SingleTab
<1> QED
  BY <1>5, <1>6, <1>7, <1>8, <1>9 DEF Together

\* What an account is known by when a step leaves it alone, or gives it events that are
\* not acknowledged.
LEMMA AccountFrame ==
  ASSUME NEW s, AccountInv(s), generation'[s] = generation[s], epoch'[s] = epoch[s],
         log'[s] = log[s], record'[s] = record[s],
         OwnedBy(s) \subseteq OwnedBy(s)',
         (acked \cap OwnedBy(s))' \subseteq acked \cap OwnedBy(s),
         acked' \cap OwnedBy(s) \subseteq acked
  PROVE  AccountInv(s)'
<1>1. /\ generation[s] <= epoch[s] /\ (epoch[s] = Unknown => log[s] = {})
      /\ record[s].claimed \subseteq OwnedBy(s)
      /\ generation[s] = epoch[s] => acked \cap OwnedBy(s) \subseteq log[s]
      /\ generation[s] = Unknown => acked \cap OwnedBy(s) = {}
      /\ record[s].attempted = {} => record[s].claimed \cap acked = {}
  BY DEF AccountInv
<1>2. record[s].claimed \cap acked' \subseteq acked
  BY <1>1
<1>3. record'[s].claimed \subseteq OwnedBy(s)'
  BY <1>1
<1>4. generation[s] = epoch[s] => (acked \cap OwnedBy(s))' \subseteq log[s]
  BY <1>1
<1>5. generation[s] = Unknown => (acked \cap OwnedBy(s))' = {}
  BY <1>1
<1>6. record[s].attempted = {} => record[s].claimed \cap acked' = {}
  BY <1>1, <1>2
<1> QED
  BY <1>1, <1>3, <1>4, <1>5, <1>6 DEF AccountInv

\* Only the record of the account changes.
LEMMA RecordFrame ==
  ASSUME NEW s, AccountInv(s), UNCHANGED <<service, owner, acked, generation>>,
         record'[s].claimed \subseteq record[s].claimed,
         record'[s].attempted = {} => record'[s].claimed \cap acked = {}
  PROVE  AccountInv(s)'
<1>1. OwnedBy(s)' = OwnedBy(s)
  BY DEF OwnedBy
<1>2. epoch' = epoch /\ log' = log
  BY DEF service
<1> QED
  BY <1>1, <1>2 DEF AccountInv

\* An account that has no generation yet may get one, and one that has may get another;
\* no request knows of it.
LEMMA BehindGrows ==
  ASSUME Inv, Inv', Together, requests' \subseteq requests,
         \A s \in Subjects : generation[s] <= generation'[s]
  PROVE  Behind'
<1>1. ASSUME NEW r \in requests', r.kind = "sync"
      PROVE  r.generation <= generation'[r.subject]
  <2>1. r \in requests /\ RequestInv(r)
    BY <1>1 DEF Inv
  <2>2. r.subject \in Subjects /\ r.generation \in Nat
    BY <1>1, <2>1 DEF RequestInv, Inv, ServiceType, Issued
  <2>3. generation[r.subject] \in Nat /\ generation'[r.subject] \in Nat
    BY <2>2 DEF Inv, ServiceType, Issued
  <2>4. r.generation <= generation[r.subject]
    BY <1>1, <2>1 DEF Together, Behind
  <2>5. generation[r.subject] <= generation'[r.subject]
    BY <2>2
  <2> QED
    BY <2>2, <2>3, <2>4, <2>5
<1> QED
  BY <1>1 DEF Behind

\* While a session is in progress no deletion has an answer.
LEMMA TogetherStep ==
  ASSUME Inv, SingleTab, NEW t \in Tabs, session[t].pc # "idle", DeletionKept(t),
         Behind', \A s \in Subjects : AccountInv(s)', SessionEpoch(t)', SessionRecord(t)'
  PROVE  Together'
<1>1. deletion[t].pc \in {"none", "drain"}
  BY DEF Inv, TabInv, DeletionType
<1>2. deletion'[t].pc \in {"none", "drain"}
  BY <1>1 DEF DeletionKept, NoDeletion
<1>3. DeletionRecord(t)'
  BY <1>2 DEF DeletionRecord
<1>4. \A u \in Tabs : u = t
  BY DEF SingleTab
<1> QED
  BY <1>3, <1>4 DEF Together

\* A session with a record has not asked what to do with the anonymous events.
LEMMA NotAsking ==
  ASSUME Inv, Together, NEW t \in Tabs, session[t].pc # "idle",
         record[session[t].subject] # NoRecord
  PROVE  ~(prompt[t] /\ subject[t] # Nobody)
<1>1. SessionRecord(t)
  BY TogetherFacts
<1>2. subject[t] \in {session[t].subject, Nobody}
  BY <1>1 DEF SessionRecord
<1>3. prompt[t] /\ subject[t] # Nobody => record[subject[t]] = NoRecord
  BY <1>1 DEF SessionRecord
<1> QED
  BY <1>2, <1>3

\* The attempt that is noted is the one that is sent.
LEMMA AttemptTogether ==
  ASSUME Inv, Inv', SingleTab, Together, NEW t \in Tabs, Attempt(t) PROVE Together'
<1> DEFINE a == session[t].subject
           noted == [record EXCEPT ![a].attempted = session[t].sent]
<1>1. /\ session[t].pc = "attempt"
      /\ UNCHANGED <<service, owner, acked, generation, subject, prompt>>
  BY DEF Attempt, user
<1>2. /\ SessionEpoch(t) /\ SessionRecord(t) /\ a \in Subjects /\ generation[a] \in Nat
      /\ \A s \in Subjects : AccountInv(s)
  BY <1>1, TogetherFacts DEF Together
<1>3. session[t].use = "guarded" /\ ~session[t].probing /\ session[t].sent # {}
  BY <1>1 DEF Inv, TabInv, SessionFlow
<1>4. record \in [Subjects -> Records]
  BY DEF Inv, StoreType
<1>5. record[a] # NoRecord /\ record[a].claimed = session[t].claim.claimed
  BY <1>1, <1>2, <1>3 DEF SessionRecord, Started, Phases
<1>6. record' \in {record, noted}
  BY AttemptEffect
<1>7. \A s \in Subjects \ {a} : record'[s] = record[s]
  BY <1>4, <1>6
<1>8. /\ record'[a].claimed = record[a].claimed
      /\ record'[a].attempted \in {record[a].attempted, session[t].sent}
  BY <1>2, <1>4, <1>6 DEF Records
<1>9. \A s \in Subjects : AccountInv(s)'
  <2>1. ASSUME NEW s \in Subjects
        PROVE  /\ record'[s].claimed \subseteq record[s].claimed
               /\ record'[s].attempted = {} => record'[s].claimed \cap acked = {}
    BY <1>2, <1>3, <1>7, <1>8 DEF AccountInv
  <2> QED
    BY <1>1, <1>2, <2>1, RecordFrame
<1>10. ~(prompt[t] /\ subject[t] # Nobody)
  BY <1>1, <1>5, NotAsking
<1>11. CASE Ends(t) /\ UNCHANGED requests
  <2>1. session'[t].pc = "idle"
    BY <1>11 DEF Ends, Idle
  <2>2. SessionEpoch(t)' /\ SessionRecord(t)'
    BY <1>1, <1>10, <2>1, RestingTogether
  <2>3. Behind'
    BY <1>1, <1>11, BehindKept
  <2> QED
    BY <1>1, <1>9, <1>11, <2>2, <2>3, TogetherStep DEF Ends
<1>12. CASE /\ Moves(t, {"pc"}) /\ session'[t].pc = "wait"
            /\ record' = noted /\ Send(t, session[t].sent, TRUE)
  <2>1. record'[a].attempted = session[t].sent
    BY <1>2, <1>4, <1>12
  <2>2. record'[a] # NoRecord
    BY <1>3, <2>1 DEF NoRecord
  <2>3. /\ session'[t].subject = a /\ session'[t].generation = session[t].generation
        /\ session'[t].probing = session[t].probing /\ session'[t].use = session[t].use
        /\ session'[t].sent = session[t].sent /\ session'[t].claim = session[t].claim
    BY <1>12 DEF Moves, Changes, Fields, Idle
  <2>4. SessionEpoch(t)'
    BY <1>1, <1>2, <1>12, <2>3 DEF SessionEpoch, Current
  <2>5. subject'[t] \in {a, Nobody}
    BY <1>1, <1>2 DEF SessionRecord
  <2>6. SessionRecord(t)'
    BY <1>1, <1>3, <1>5, <1>8, <1>10, <1>12, <2>1, <2>2, <2>3, <2>5
    DEF SessionRecord, Current, Started
  <2>7. Behind'
    <3>1. session'[t].generation <= generation[a]
      BY <1>1, <1>2, <2>3 DEF SessionEpoch, Current
    <3>2. Send(t, session[t].sent, TRUE) /\ UNCHANGED generation
      BY <1>1, <1>12
    <3> QED
      BY <3>1, <3>2, BehindSend
  <2> QED
    BY <1>1, <1>9, <1>12, <2>4, <2>6, <2>7, TogetherStep DEF Moves
<1> QED
  BY <1>11, <1>12, AttemptEffect

\* The service has the batch of the record: the record is closed.
LEMMA CompleteTogether ==
  ASSUME Inv, Inv', SingleTab, Together, NEW t \in Tabs, Complete(t) PROVE Together'
<1> DEFINE a == session[t].subject
<1>1. /\ session[t].pc = "complete"
      /\ UNCHANGED <<service, owner, acked, generation, subject, prompt, requests>>
  BY DEF Complete, user
<1>2. /\ SessionEpoch(t) /\ SessionRecord(t) /\ a \in Subjects
      /\ \A s \in Subjects : AccountInv(s)
  BY <1>1, TogetherFacts DEF Together
<1>3. Behind'
  BY <1>1, BehindKept
<1>4. record \in [Subjects -> Records]
  BY DEF Inv, StoreType
<1>5. subject'[t] \in {a, Nobody}
  BY <1>1, <1>2 DEF SessionRecord
<1>6. CASE Ends(t) /\ UNCHANGED record
  <2>1. session'[t].pc = "idle"
    BY <1>6 DEF Ends, Idle
  <2>2. SessionEpoch(t)' /\ SessionRecord(t)'
    BY <1>1, <1>2, <1>6, <2>1, RestingTogether DEF SessionRecord
  <2> QED
    BY <1>1, <1>3, <1>6, <2>2, TogetherFrame DEF Ends
<1>7. CASE /\ Moves(t, {"pc", "use", "probing"})
           /\ record' = [record EXCEPT ![a] = NoRecord]
           /\ session'[t].pc = "read" /\ session'[t].use = "after"
           /\ session'[t].probing = FALSE
  <2>1. record'[a] = NoRecord /\ \A s \in Subjects \ {a} : record'[s] = record[s]
    BY <1>2, <1>4, <1>7
  <2>2. \A s \in Subjects : AccountInv(s)'
    <3>1. ASSUME NEW s \in Subjects
          PROVE  /\ record'[s].claimed \subseteq record[s].claimed
                 /\ record'[s].attempted = {} => record'[s].claimed \cap acked = {}
      BY <1>2, <2>1 DEF AccountInv, NoRecord
    <3> QED
      BY <1>1, <1>2, <3>1, RecordFrame
  <2>3. /\ session'[t].subject = a /\ session'[t].generation = session[t].generation
    BY <1>7 DEF Moves, Changes, Fields, Idle
  <2>4. SessionEpoch(t)'
    BY <1>1, <1>2, <1>7, <2>3 DEF SessionEpoch, Current
  <2>5. prompt'[t] /\ subject'[t] # Nobody => record'[subject'[t]] = NoRecord
    BY <1>5, <2>1
  <2>6. SessionRecord(t)'
    BY <1>5, <1>7, <2>1, <2>3, <2>5 DEF SessionRecord, Current, Started
  <2> QED
    BY <1>1, <1>3, <1>7, <2>2, <2>4, <2>6, TogetherStep DEF Moves
<1> QED
  BY <1>6, <1>7, CompleteEffect

\* A response that is recorded leaves the account in its generation, with what the log
\* holds; no other account notices.
LEMMA RecordedTogether ==
  ASSUME Inv, Inv', Together, NEW t \in Tabs, session[t].pc = "apply", ~Fenced(t),
         \/ Recorded(t) /\ ~Collides(t)
         \/ /\ UNCHANGED <<owner, acked>>
            /\ generation' = [generation EXCEPT ![session[t].subject] = session[t].reply],
         UNCHANGED <<service, record>>
  PROVE  /\ \A s \in Subjects : AccountInv(s)' /\ generation[s] <= generation'[s]
         /\ generation'[session[t].subject] = session[t].reply
<1> DEFINE reply == session[t].reply
           rows == session[t].rows
<1>0. PICK a \in Subjects : a = session[t].subject
  BY TogetherFacts
<1>1. /\ SessionEpoch(t) /\ SessionRecord(t)
      /\ generation[a] \in Nat /\ epoch[a] \in Nat /\ AccountInv(a)
  BY <1>0, TogetherFacts
<1>2. /\ generation[a] = session[t].generation /\ reply # Unknown
      /\ generation[a] \in {Unknown, reply} /\ reply <= epoch[a]
      /\ reply = epoch[a] => rows \subseteq log[a]
  BY <1>0, <1>1 DEF Fenced, SessionEpoch
<1>3. /\ SessionType(session[t]) /\ SessionFlow(session[t])
      /\ owner \in [All -> Domains \cup {Unborn, Gone}] /\ record \in [Subjects -> Records]
      /\ generation \in [Subjects -> Issued]
  BY DEF Inv, TabInv, StoreType, ServiceType
<1>4. rows \subseteq All /\ session[t].sent \subseteq rows /\ reply \in Nat
  BY <1>3 DEF SessionType, SessionFlow, Issued, Inv, ServiceType
<1>5. generation' = [generation EXCEPT ![a] = reply]
  BY <1>0 DEF Recorded
<1>6. generation'[a] = reply /\ \A s \in Subjects \ {a} : generation'[s] = generation[s]
  BY <1>1, <1>3, <1>5
<1>7. \/ UNCHANGED <<owner, acked>>
      \/ /\ owner' = [e \in All |-> IF e \in rows THEN a ELSE owner[e]]
         /\ acked' = acked \cup rows
         /\ \A e \in rows : owner[e] \in {Unborn, Gone, a}
  BY <1>0, <1>4 DEF Recorded, Collides
<1>8. /\ OwnedBy(a) \subseteq OwnedBy(a)'
      /\ (acked \cap OwnedBy(a))' \subseteq (acked \cap OwnedBy(a)) \cup rows
  BY <1>1, <1>3, <1>7 DEF OwnedBy
<1>9. \A s \in Subjects \ {a} :
        OwnedBy(s)' = OwnedBy(s) /\ acked' \cap OwnedBy(s) = acked \cap OwnedBy(s)
  BY <1>1, <1>3, <1>4, <1>7, Names DEF OwnedBy
<1>10. UNCHANGED <<epoch, log>>
  BY DEF service
<1>11. ASSUME NEW s \in Subjects, s # a PROVE AccountInv(s)' /\ generation[s] <= generation'[s]
  <2>1. AccountInv(s) /\ generation[s] \in Nat
    BY <1>3, <1>11 DEF Together, Inv, ServiceType, Issued
  <2>2. OwnedBy(s)' = OwnedBy(s) /\ acked' \cap OwnedBy(s) = acked \cap OwnedBy(s)
    BY <1>9, <1>11
  <2>3. (acked \cap OwnedBy(s))' = acked \cap OwnedBy(s)
    BY <2>2
  <2> QED
    BY <1>6, <1>10, <1>11, <2>1, <2>2, <2>3, AccountFrame
<1>12. AccountInv(a)'
  <2>1. /\ record[a].claimed \subseteq OwnedBy(a)
        /\ epoch[a] = Unknown => log[a] = {}
        /\ generation[a] = epoch[a] => acked \cap OwnedBy(a) \subseteq log[a]
        /\ generation[a] = Unknown => acked \cap OwnedBy(a) = {}
        /\ record[a].attempted = {} => record[a].claimed \cap acked = {}
    BY <1>1 DEF AccountInv
  <2>2. reply = epoch[a] => (acked \cap OwnedBy(a))' \subseteq log[a]
    BY <1>2, <1>8, <2>1
  <2>3. record[a].attempted = {} => record[a].claimed = {}
    <3>1. CASE session[t].use = "guarded"
      <4>1. record[a].attempted # {}
        BY <1>0, <1>1, <3>1 DEF SessionRecord, Current
      <4> QED
        BY <4>1
    <3>2. CASE session[t].use # "guarded"
      <4>1. record[a] = NoRecord
        BY <1>0, <1>1, <3>2 DEF SessionRecord, Started, Phases
      <4> QED
        BY <4>1 DEF NoRecord
    <3> QED
      BY <3>1, <3>2
  <2>4. record[a].claimed \subseteq OwnedBy(a)'
    BY <1>8, <2>1
  <2>5. record[a].attempted = {} => record[a].claimed \cap acked' = {}
    BY <2>3
  <2> QED
    BY <1>2, <1>6, <1>10, <2>1, <2>2, <2>4, <2>5 DEF AccountInv
<1>13. generation[a] <= generation'[a]
  BY <1>1, <1>2, <1>4, <1>6 DEF Unknown
<1> QED
  BY <1>0, <1>6, <1>11, <1>12, <1>13

\* A response is recorded.
LEMMA ApplyTogether ==
  ASSUME Inv, Inv', SingleTab, Together, NEW t \in Tabs, Apply(t) PROVE Together'
<1> DEFINE a == session[t].subject
<1>1. /\ session[t].pc = "apply" /\ ~Fenced(t) /\ Recorded(t)
      /\ session[t].rows \cup session[t].sent # {} => ~Collides(t)
      /\ UNCHANGED <<service, record, subject, prompt, requests>>
  BY DEF Apply, user
<1>2. ~Collides(t)
  BY <1>1 DEF Collides
<1>3. /\ \A s \in Subjects : AccountInv(s)' /\ generation[s] <= generation'[s]
      /\ generation'[a] = session[t].reply
  BY <1>1, <1>2, RecordedTogether
<1>4. Behind'
  BY <1>1, <1>3, BehindGrows
<1>5. /\ SessionEpoch(t) /\ SessionRecord(t) /\ a \in Subjects
  BY <1>1, TogetherFacts
<1>6. /\ subject'[t] \in {a, Nobody}
      /\ prompt'[t] /\ subject'[t] # Nobody => record'[subject'[t]] = NoRecord
  BY <1>1, <1>5 DEF SessionRecord
<1>7. DeletionKept(t) /\ SessionEpoch(t)' /\ SessionRecord(t)'
  <2>1. CASE Ends(t)
    <3>1. session'[t].pc = "idle"
      BY <2>1 DEF Ends, Idle
    <3> QED
      BY <1>6, <2>1, <3>1, RestingTogether DEF Ends
  <2>2. CASE /\ ~session[t].probing
             /\ Moves(t, {"pc", "generation"})
             /\ session'[t].pc = IF session[t].use = "guarded" /\ session[t].sent # {}
                                 THEN "complete" ELSE "read"
             /\ session'[t].generation = session[t].reply
    <3>1. /\ session'[t].subject = a /\ session'[t].use = session[t].use
          /\ session'[t].probing = session[t].probing /\ session'[t].first = session[t].first
          /\ session'[t].sent = session[t].sent /\ session'[t].claim = session[t].claim
      BY <2>2 DEF Moves, Changes, Fields, Idle
    <3>2. session[t].use = "guarded" => session[t].sent # {}
      BY <1>1, <1>5, <2>2 DEF SessionRecord
    <3>3. SessionEpoch(t)'
      BY <1>3, <2>2, <3>1 DEF SessionEpoch, Current
    <3>4. SessionRecord(t)'
      BY <1>1, <1>5, <1>6, <2>2, <3>1, <3>2 DEF SessionRecord, Started, Current, Phases
    <3> QED
      BY <2>2, <3>3, <3>4 DEF Moves
  <2>3. CASE /\ session[t].probing /\ Verdict(t) = "conflict"
             /\ Moves(t, {"pc", "next", "cause"})
             /\ session'[t].pc = "restore" /\ session'[t].next = Unknown
             /\ session'[t].cause = "probe"
    <3>1. /\ session'[t].subject = a /\ session'[t].use = session[t].use
          /\ session'[t].claim = session[t].claim
      BY <2>3 DEF Moves, Changes, Fields, Idle
    <3>2. SessionEpoch(t)'
      BY <2>3, <3>1 DEF SessionEpoch, Current
    <3>3. SessionRecord(t)'
      BY <1>1, <1>5, <1>6, <2>3, <3>1 DEF SessionRecord, Started, Current, Phases
    <3> QED
      BY <2>3, <3>2, <3>3 DEF Moves
  <2>4. CASE /\ session[t].probing /\ Verdict(t) = "accepted"
             /\ Moves(t, {"pc", "first"})
             /\ session'[t].pc = "complete" /\ session'[t].first = TRUE
    <3>1. /\ session'[t].subject = a /\ session'[t].use = session[t].use
          /\ session'[t].claim = session[t].claim /\ session'[t].probing
          /\ session'[t].generation = session[t].generation
      BY <2>4 DEF Moves, Changes, Fields, Idle
    <3>2. session[t].generation = session[t].reply
      BY <1>1, <1>5, <2>4 DEF SessionEpoch
    <3>3. SessionEpoch(t)'
      BY <1>3, <2>4, <3>1, <3>2 DEF SessionEpoch, Current
    <3>4. SessionRecord(t)'
      BY <1>1, <1>5, <1>6, <2>4, <3>1 DEF SessionRecord, Started, Current, Phases
    <3> QED
      BY <2>4, <3>3, <3>4 DEF Moves
  <2>5. CASE /\ session[t].probing /\ Verdict(t) = "empty"
             /\ Moves(t, {"pc", "first"})
             /\ session'[t].pc = "read" /\ session'[t].first = TRUE
    <3>1. /\ session'[t].subject = a /\ session'[t].use = session[t].use
          /\ session'[t].claim = session[t].claim
      BY <2>5 DEF Moves, Changes, Fields, Idle
    <3>2. SessionEpoch(t)'
      BY <2>5, <3>1 DEF SessionEpoch, Current
    <3>3. session[t].rows = {} /\ session[t].sent = {}
      BY <1>1, <2>5 DEF Verdict, Inv, TabInv, SessionFlow
    <3>4. acked' = acked /\ owner' = owner
      BY <1>1, <3>3 DEF Recorded, Inv, StoreType
    <3>5. acked \cap OwnedBy(a) = {}
      BY <1>1, <1>5, <2>5, <3>3 DEF SessionRecord
    <3>6. acked' \cap {e \in All : owner'[e] = a} = {}
      BY <3>4, <3>5 DEF OwnedBy
    <3>7. SessionRecord(t)'
      BY <1>1, <1>5, <1>6, <2>5, <3>1, <3>6 DEF SessionRecord, Started, Current, Phases, OwnedBy
    <3> QED
      BY <2>5, <3>2, <3>7 DEF Moves
  <2> QED
    BY <2>1, <2>2, <2>3, <2>4, <2>5, ApplyEffect
<1> QED
  BY <1>1, <1>3, <1>4, <1>7, TogetherStep

\* A response that cannot be recorded may still set the generation.
LEMMA CannotApplyTogether ==
  ASSUME Inv, Inv', SingleTab, Together, NEW t \in Tabs, CannotApply(t) PROVE Together'
<1> DEFINE a == session[t].subject
<1>1. /\ session[t].pc = "apply" /\ ~Fenced(t)
      /\ generation' = generation
           \/ generation' = [generation EXCEPT ![a] = session[t].reply]
      /\ UNCHANGED <<service, owner, acked, record, subject, prompt, requests>>
      /\ End(t, "failed")
  BY DEF CannotApply, user
<1>2. Ends(t)
  BY <1>1, TabFacts, EndEffect DEF Ends
<1>3. session'[t].pc = "idle" /\ DeletionKept(t)
  BY <1>2 DEF Ends, Idle
<1>4. SessionEpoch(t)' /\ SessionRecord(t)'
  <2>1. SessionRecord(t)
    BY TogetherFacts
  <2> QED
    BY <1>1, <1>3, <2>1, RestingTogether DEF SessionRecord
<1>5. CASE generation' = generation
  <2>1. Behind'
    BY <1>1, <1>5, BehindKept
  <2> QED
    BY <1>1, <1>3, <1>4, <1>5, <2>1, TogetherFrame
<1>6. CASE generation' = [generation EXCEPT ![a] = session[t].reply]
  <2>1. \A s \in Subjects : AccountInv(s)' /\ generation[s] <= generation'[s]
    BY <1>1, <1>6, RecordedTogether
  <2>2. Behind'
    BY <1>1, <2>1, BehindGrows
  <2> QED
    BY <1>1, <1>3, <1>4, <2>1, <2>2, TogetherStep
<1> QED
  BY <1>1, <1>5, <1>6

\* What is returned to the device leaves no record, and no other account notices.
LEMMA ReturnedTogether ==
  ASSUME Inv, Together, NEW a \in Subjects, NEW claimed, Returned(a, claimed),
         UNCHANGED <<service, generation>>
  PROVE  /\ \A s \in Subjects : AccountInv(s)'
         /\ record'[a] = NoRecord /\ \A s \in Subjects \ {a} : record'[s] = record[s]
<1>1. /\ owner \in [All -> Domains \cup {Unborn, Gone}] /\ record \in [Subjects -> Records]
      /\ \A s \in Subjects : AccountInv(s)
  BY DEF Inv, StoreType, Together
<1>2. epoch' = epoch /\ log' = log
  BY DEF service
<1>3. CASE record[a] = NoRecord
  <2>1. UNCHANGED <<owner, acked, record>>
    BY <1>3 DEF Returned
  <2>2. \A s : OwnedBy(s)' = OwnedBy(s)
    BY <2>1 DEF OwnedBy
  <2>3. \A s \in Subjects : AccountInv(s)'
    BY <1>1, <1>2, <2>1, <2>2 DEF AccountInv
  <2> QED
    BY <1>3, <2>1, <2>3
<1>4. CASE record[a] # NoRecord
  <2> DEFINE back == claimed \cap OwnedBy(a)
  <2>1. /\ owner' = [e \in All |-> IF e \in back THEN Anonymous ELSE owner[e]]
        /\ acked' = acked \ back
        /\ record' = [record EXCEPT ![a] = NoRecord]
    BY <1>4 DEF Returned
  <2>2. record'[a] = NoRecord /\ \A s \in Subjects \ {a} : record'[s] = record[s]
    BY <1>1, <2>1
  <2>3. /\ OwnedBy(a)' \subseteq OwnedBy(a)
        /\ \A s \in Subjects \ {a} : OwnedBy(s)' = OwnedBy(s)
    BY <1>1, <2>1, Names DEF OwnedBy
  <2>4. acked' \subseteq acked /\ \A s \in Subjects \ {a} : acked' \cap OwnedBy(s) = acked \cap OwnedBy(s)
    BY <1>1, <2>1 DEF OwnedBy
  <2>5. ASSUME NEW s \in Subjects, s # a PROVE AccountInv(s)'
    <3>1. (acked \cap OwnedBy(s))' = acked \cap OwnedBy(s)
      BY <2>3, <2>4, <2>5
    <3> QED
      BY <1>1, <1>2, <2>2, <2>3, <2>4, <2>5, <3>1, AccountFrame
  <2>6. AccountInv(a)'
    <3>1. (acked \cap OwnedBy(a))' \subseteq acked \cap OwnedBy(a)
      BY <2>3, <2>4
    <3>2. NoRecord.claimed = {}
      BY DEF NoRecord
    <3>3. AccountInv(a)
      BY <1>1
    <3> QED
      BY <1>2, <2>2, <3>1, <3>2, <3>3 DEF AccountInv
  <2> QED
    BY <2>2, <2>5, <2>6
<1> QED
  BY <1>3, <1>4

\* An account that is cleared has a newer generation and nothing else.
LEMMA ClearedTogether ==
  ASSUME Inv, Inv', Together, NEW a \in Subjects, NEW next, Cleared(a, next),
         generation[a] < next, next <= epoch[a], UNCHANGED service
  PROVE  /\ \A s \in Subjects : AccountInv(s)' /\ generation[s] <= generation'[s]
         /\ record'[a] = NoRecord /\ \A s \in Subjects \ {a} : record'[s] = record[s]
         /\ generation'[a] = next
<1>1. /\ owner \in [All -> Domains \cup {Unborn, Gone}] /\ record \in [Subjects -> Records]
      /\ generation \in [Subjects -> Issued] /\ generation' \in [Subjects -> Issued']
      /\ issued \in Nat /\ issued' \in Nat
      /\ \A s \in Subjects : AccountInv(s)
  BY DEF Inv, StoreType, ServiceType, Together
<1>2. epoch' = epoch /\ log' = log
  BY DEF service
<1>3. /\ owner' = [e \in All |-> IF owner[e] = a THEN Gone ELSE owner[e]]
      /\ acked' = acked \ OwnedBy(a)
      /\ record' = [record EXCEPT ![a] = NoRecord]
      /\ generation' = [generation EXCEPT ![a] = next]
  BY DEF Cleared
<1>4. /\ record'[a] = NoRecord /\ \A s \in Subjects \ {a} : record'[s] = record[s]
      /\ generation'[a] = next /\ \A s \in Subjects \ {a} : generation'[s] = generation[s]
  BY <1>1, <1>3
<1>5. OwnedBy(a)' = {} /\ \A s \in Subjects \ {a} : OwnedBy(s)' = OwnedBy(s)
  BY <1>1, <1>3, Names DEF OwnedBy
<1>6. \A s \in Subjects \ {a} : acked' \cap OwnedBy(s) = acked \cap OwnedBy(s)
  BY <1>3 DEF OwnedBy
<1>7. \A s \in Subjects : generation[s] \in Nat /\ generation'[s] \in Nat
  BY <1>1 DEF Issued
<1>8. ASSUME NEW s \in Subjects, s # a PROVE AccountInv(s)' /\ generation[s] <= generation'[s]
  <2>1. (acked \cap OwnedBy(s))' = acked \cap OwnedBy(s)
    BY <1>5, <1>6, <1>8
  <2> QED
    BY <1>1, <1>2, <1>4, <1>5, <1>6, <1>7, <1>8, <2>1, AccountFrame
<1>9. AccountInv(a)' /\ generation[a] <= generation'[a]
  <2>1. epoch[a] = Unknown => log[a] = {}
    BY <1>1 DEF AccountInv
  <2>2. (acked \cap OwnedBy(a))' = {}
    BY <1>5
  <2>3. NoRecord.claimed = {}
    BY DEF NoRecord
  <2> QED
    BY <1>2, <1>4, <1>7, <2>1, <2>2, <2>3 DEF AccountInv
<1> QED
  BY <1>4, <1>8, <1>9

\* Events that nothing has acknowledged come to an account.
LEMMA ClaimedTogether ==
  ASSUME Inv, Together, NEW a \in Subjects, NEW merged, Claimed(a, merged),
         UNCHANGED <<service, generation>>,
         \/ record' = record
         \/ record' = [record EXCEPT ![a] = [claimed |-> OwnedBy(Anonymous),
                                             attempted |-> {}]]
  PROVE  \A s \in Subjects : AccountInv(s)' /\ (s # a => record'[s] = record[s])
<1> DEFINE anonymous == OwnedBy(Anonymous)
<1>1. /\ owner \in [All -> Domains \cup {Unborn, Gone}] /\ record \in [Subjects -> Records]
      /\ acked \subseteq {e \in All : owner[e] \in Subjects}
      /\ \A s \in Subjects : AccountInv(s)
  BY DEF Inv, StoreType, Together
<1>2. epoch' = epoch /\ log' = log
  BY DEF service
<1>3. anonymous \cap acked = {}
  BY <1>1, Names DEF OwnedBy
<1>4. /\ owner' = [e \in All |-> IF e \in anonymous THEN a ELSE owner[e]]
      /\ acked' = acked
  BY <1>3 DEF Claimed
<1>5. /\ OwnedBy(a)' = OwnedBy(a) \cup anonymous
      /\ \A s \in Subjects \ {a} : OwnedBy(s)' = OwnedBy(s)
  BY <1>1, <1>4, Names DEF OwnedBy
<1>6. \A s \in Subjects : /\ OwnedBy(s) \subseteq OwnedBy(s)'
                          /\ (acked \cap OwnedBy(s))' = acked \cap OwnedBy(s)
  BY <1>3, <1>4, <1>5
<1>7. \A s \in Subjects \ {a} : record'[s] = record[s]
  BY <1>1
<1>8. ASSUME NEW s \in Subjects, record'[s] = record[s] PROVE AccountInv(s)'
  BY <1>1, <1>2, <1>4, <1>6, <1>8, AccountFrame
<1>9. CASE record' = [record EXCEPT ![a] = [claimed |-> anonymous, attempted |-> {}]]
  <2>1. record'[a].claimed = anonymous
    BY <1>1, <1>9
  <2>2. AccountInv(a) /\ (acked \cap OwnedBy(a))' = acked \cap OwnedBy(a)
    BY <1>1, <1>6
  <2>3. record'[a].claimed \subseteq OwnedBy(a)' /\ record'[a].claimed \cap acked' = {}
    BY <1>3, <1>4, <1>5, <2>1
  <2>4. AccountInv(a)'
    BY <1>2, <2>2, <2>3 DEF AccountInv
  <2> QED
    BY <1>7, <1>8, <2>4
<1>10. CASE record' = record
  BY <1>8, <1>10
<1> QED
  BY <1>9, <1>10

\* The choice is restored: nothing is claimed for the account.
LEMMA RestoreTogether ==
  ASSUME Inv, Inv', SingleTab, Together, NEW t \in Tabs, Restore(t) PROVE Together'
<1>0. PICK a \in Subjects : a = session[t].subject
  BY TogetherFacts DEF Restore
<1>1. /\ session[t].pc = "restore"
      /\ UNCHANGED <<service, generation, subject, requests>>
  BY DEF Restore, user
<1>2. /\ SessionEpoch(t) /\ SessionRecord(t)
      /\ subject'[t] \in {a, Nobody}
  BY <1>0, <1>1, TogetherFacts DEF SessionRecord
<1>3. Behind'
  BY <1>1, BehindKept
<1>4. CASE Ends(t) /\ UNCHANGED <<owner, acked, record, prompt>>
  <2>1. session'[t].pc = "idle"
    BY <1>4 DEF Ends, Idle
  <2>2. SessionEpoch(t)' /\ SessionRecord(t)'
    BY <1>1, <1>2, <1>4, <2>1, RestingTogether DEF SessionRecord
  <2> QED
    BY <1>1, <1>3, <1>4, <2>2, TogetherFrame DEF Ends
<1>5. ASSUME Returned(a, session[t].claim.claimed),
             \/ Ends(t)
             \/ /\ Moves(t, {"pc", "use", "first"})
                /\ session'[t].pc = Resumed[session[t].cause]
                /\ session'[t].use = "restored" /\ session'[t].first = TRUE
      PROVE  Together'
  <2>1. /\ \A s \in Subjects : AccountInv(s)'
        /\ record'[a] = NoRecord
    BY <1>1, <1>5, ReturnedTogether
  <2>2. prompt'[t] /\ subject'[t] # Nobody => record'[subject'[t]] = NoRecord
    BY <1>2, <2>1
  <2>3. CASE Ends(t)
    <3>1. session'[t].pc = "idle"
      BY <2>3 DEF Ends, Idle
    <3>2. SessionEpoch(t)' /\ SessionRecord(t)'
      BY <2>2, <3>1, RestingTogether
    <3> QED
      BY <1>1, <1>3, <2>1, <2>3, <3>2, TogetherStep DEF Ends
  <2>4. CASE /\ Moves(t, {"pc", "use", "first"})
             /\ session'[t].pc = Resumed[session[t].cause]
             /\ session'[t].use = "restored" /\ session'[t].first = TRUE
    <3>1. session[t].cause \in {"generation", "probe", "conflict"}
      BY <1>1 DEF Inv, TabInv, SessionType, SessionFlow, Causes
    <3>2. /\ session'[t].pc \in {"replace", "reconcile", "read"}
          /\ session'[t].pc = "replace" => session[t].cause = "generation"
      BY <2>4, <3>1 DEF Resumed
    <3>3. session'[t].subject = a /\ session'[t].next = session[t].next
      BY <1>0, <2>4 DEF Moves, Changes, Fields, Idle
    <3>4. SessionEpoch(t)'
      BY <1>0, <1>1, <1>2, <2>4, <3>2, <3>3 DEF SessionEpoch, Current, service
    <3>5. SessionRecord(t)'
      BY <1>2, <2>1, <2>2, <2>4, <3>2, <3>3 DEF SessionRecord, Started, Current
    <3> QED
      BY <1>1, <1>3, <2>1, <2>4, <3>4, <3>5, TogetherStep DEF Moves
  <2> QED
    BY <1>5, <2>3, <2>4
<1> QED
  BY <1>0, <1>4, <1>5, RestoreEffect

\* A session that replaces or clears the account's data reads its queue again.
LEMMA EmptiedTogether ==
  ASSUME Inv, Inv', SingleTab, Together, NEW t \in Tabs,
         session[t].pc \in {"replace", "clear"}, NEW next,
         \/ UNCHANGED account
         \/ /\ Cleared(session[t].subject, next)
            /\ generation[session[t].subject] < next /\ next <= epoch[session[t].subject],
         \/ Ends(t) /\ UNCHANGED account
         \/ /\ DeletionKept(t) /\ DOMAIN session'[t] = Fields /\ Changes(t, {"pc", "first"})
            /\ session'[t].pc = "read" /\ session'[t].first = TRUE,
         UNCHANGED <<service, subject, prompt, requests>>
  PROVE  Together'
<1>0. PICK a \in Subjects : a = session[t].subject
  BY TogetherFacts
<1>1. /\ SessionEpoch(t) /\ SessionRecord(t)
      /\ subject'[t] \in {a, Nobody}
  BY <1>0, TogetherFacts DEF SessionRecord
<1>2. session[t].use # "guarded"
  BY DEF Inv, TabInv, SessionFlow
<1>3. record[a] = NoRecord
  BY <1>0, <1>1, <1>2 DEF SessionRecord, Started, Phases
<1>4. /\ \A s \in Subjects : AccountInv(s)' /\ generation[s] <= generation'[s]
      /\ record'[a] = NoRecord
  <2>1. CASE UNCHANGED account
    <3>1. \A s \in Subjects : AccountInv(s)'
      BY <2>1 DEF account, Together, AccountInv, OwnedBy, service
    <3> QED
      BY <1>3, <2>1, <3>1 DEF account, Inv, ServiceType, Issued
  <2>2. CASE /\ Cleared(a, next) /\ generation[a] < next /\ next <= epoch[a]
    BY <2>2, ClearedTogether
  <2> QED
    BY <1>0, <2>1, <2>2
<1>5. Behind'
  BY <1>4, BehindGrows
<1>6. prompt'[t] /\ subject'[t] # Nobody => record'[subject'[t]] = NoRecord
  BY <1>1, <1>4
<1>7. CASE Ends(t)
  <2>1. session'[t].pc = "idle"
    BY <1>7 DEF Ends, Idle
  <2>2. SessionEpoch(t)' /\ SessionRecord(t)'
    BY <1>6, <2>1, RestingTogether
  <2> QED
    BY <1>4, <1>5, <1>7, <2>2, TogetherStep DEF Ends
<1>8. CASE /\ DeletionKept(t) /\ DOMAIN session'[t] = Fields /\ Changes(t, {"pc", "first"})
           /\ session'[t].pc = "read" /\ session'[t].first = TRUE
  <2>1. session'[t].subject = a /\ session'[t].use = session[t].use
    BY <1>0, <1>8 DEF Changes, Fields, Idle
  <2>2. SessionEpoch(t)'
    BY <1>8, <2>1 DEF SessionEpoch, Current
  <2>3. SessionRecord(t)'
    BY <1>1, <1>2, <1>4, <1>6, <1>8, <2>1 DEF SessionRecord, Started, Current
  <2> QED
    BY <1>4, <1>5, <1>8, <2>2, <2>3, TogetherStep
<1> QED
  BY <1>7, <1>8

\* The account's data gives way to a newer generation, in either session.
LEMMA ReplaceTogether ==
  ASSUME Inv, Inv', SingleTab, Together, NEW t \in Tabs, Replace(t) \/ ClearStale(t)
  PROVE  Together'
<1>1. /\ session[t].pc \in {"replace", "clear"}
      /\ UNCHANGED <<service, subject, prompt, requests>>
  BY DEF Replace, ClearStale, user
<1>2. SessionEpoch(t)
  BY TogetherFacts
<1>3. CASE Replace(t)
  <2>1. /\ session[t].pc = "replace" /\ session[t].first = TRUE
        /\ generation[session[t].subject] < session[t].next
        /\ session[t].next <= epoch[session[t].subject]
    BY <1>2, <1>3 DEF Replace, SessionEpoch, Inv, TabInv, SessionType
  <2>2. \/ Ends(t) /\ UNCHANGED account
        \/ /\ Cleared(session[t].subject, session[t].next)
           /\ DeletionKept(t) /\ DOMAIN session'[t] = Fields /\ Changes(t, {"pc"})
           /\ session'[t].pc = "read"
    BY <1>3, ReplaceEffect
  <2>3. Changes(t, {"pc"}) => Changes(t, {"pc", "first"}) /\ session'[t].first = TRUE
    BY <2>1 DEF Changes, Fields, Idle
  <2> QED
    BY <1>1, <2>1, <2>2, <2>3, EmptiedTogether
<1>4. CASE ClearStale(t)
  <2>1. /\ session[t].pc = "clear"
        /\ generation[session[t].subject] < session[t].reply
        /\ session[t].reply <= epoch[session[t].subject]
    BY <1>2, <1>4 DEF ClearStale, SessionEpoch
  <2>2. \/ Ends(t) /\ UNCHANGED account
        \/ /\ Cleared(session[t].subject, session[t].reply) \/ UNCHANGED account
           /\ DeletionKept(t) /\ DOMAIN session'[t] = Fields /\ Changes(t, {"pc", "first"})
           /\ session'[t].pc = "read" /\ session'[t].first = TRUE
    BY <1>4, ClearStaleEffect
  <2> QED
    BY <1>1, <2>1, <2>2, EmptiedTogether
<1> QED
  BY <1>3, <1>4

\* A claim is a record nobody has tried to send.
LEMMA ClaimTogether ==
  ASSUME Inv, Inv', SingleTab, Together, NEW t \in Tabs, Claim(t) PROVE Together'
<1>0. PICK a \in Subjects : a = session[t].subject
  BY TogetherFacts DEF Claim
<1>1. /\ session[t].pc = "claim"
      /\ UNCHANGED <<service, generation, subject, prompt, requests>>
  BY DEF Claim, user
<1>2. /\ SessionRecord(t) /\ ~prompt[t] /\ subject'[t] \in {a, Nobody}
  BY <1>0, <1>1, TogetherFacts DEF SessionRecord
<1>3. Behind'
  BY <1>1, BehindKept
<1>4. CASE Ends(t) /\ UNCHANGED <<owner, acked, record>>
  <2>1. session'[t].pc = "idle"
    BY <1>4 DEF Ends, Idle
  <2>2. SessionEpoch(t)' /\ SessionRecord(t)'
    BY <1>1, <1>2, <2>1, RestingTogether
  <2> QED
    BY <1>1, <1>3, <1>4, <2>2, TogetherFrame DEF Ends
<1>5. CASE /\ Claimed(a, FALSE)
           /\ record' = IF OwnedBy(Anonymous) = {} THEN record
                        ELSE [record EXCEPT ![a] = [claimed |-> OwnedBy(Anonymous),
                                                    attempted |-> {}]]
           /\ Moves(t, {"pc", "nested"})
           /\ session'[t].pc = "record"
  <2>1. \A s \in Subjects : AccountInv(s)'
    BY <1>1, <1>5, ClaimedTogether
  <2>2. session'[t].subject = a
    BY <1>0, <1>5 DEF Moves, Changes, Fields, Idle
  <2>3. SessionEpoch(t)' /\ SessionRecord(t)'
    BY <1>1, <1>2, <1>5, <2>2 DEF SessionEpoch, SessionRecord, Started, Current, Phases
  <2> QED
    BY <1>1, <1>3, <1>5, <2>1, <2>3, TogetherStep DEF Moves
<1> QED
  BY <1>0, <1>4, <1>5, ClaimEffect

\* Without a session only the accounts and the prompt matter.
LEMMA QuietTogether ==
  ASSUME Inv, SingleTab, Together, NEW t \in Tabs,
         session'[t].pc = "idle", deletion'[t].pc = "none",
         \A s \in Subjects : AccountInv(s)', Behind', ~prompt'[t]
  PROVE  Together'
<1>1. SessionEpoch(t)' /\ SessionRecord(t)'
  BY RestingTogether
<1>2. DeletionRecord(t)'
  BY DEF DeletionRecord
<1>3. \A u \in Tabs : u = t
  BY DEF SingleTab
<1> QED
  BY <1>1, <1>2, <1>3 DEF Together

\* The user merges: events nothing has acknowledged come to the account.
LEMMA MergeTogether ==
  ASSUME Inv, Inv', SingleTab, Together, NEW t \in Tabs, Merge(t) PROVE Together'
<1>1. /\ subject[t] \in Subjects /\ TabType
      /\ session[t].pc = "idle" /\ deletion[t].pc = "none"
      /\ Claimed(subject[t], TRUE)
      /\ UNCHANGED <<service, generation, record, session, deletion, requests>>
  BY TabFacts DEF Merge, TabType
<1>2. ~prompt'[t]
  BY <1>1 DEF Merge, TabType
<1>3. PICK a \in Subjects : a = subject[t]
  BY <1>1
<1>4. \A s \in Subjects : AccountInv(s)'
  BY <1>1, <1>3, ClaimedTogether
<1>5. Behind'
  BY <1>1, BehindKept
<1> QED
  BY <1>1, <1>2, <1>4, <1>5, QuietTogether

\* An edit adds an event that nothing has acknowledged.
LEMMA AddTogether ==
  ASSUME Inv, SingleTab, Together, NEW t \in Tabs, Add(t) PROVE Together'
<1>1. UNCHANGED <<service, acked, generation, record, subject, session, prompt, deletion,
                  requests>>
  BY DEF Add, user
<1>2. \/ owner' = owner
      \/ \E e \in All : owner[e] = Unborn /\ owner' = [owner EXCEPT ![e] = adding[t]]
  <2> DEFINE unborn == {e \in Events : owner[e] = Unborn}
  <2>1. CASE Blocked(t) \/ unborn = {}
    BY <2>1 DEF Add
  <2>2. CASE unborn # {} /\ ~Blocked(t)
    <3>1. unborn \in SUBSET Nat
      BY EnrollmentType
    <3>2. Min(unborn) \in unborn
      BY <2>2, <3>1, MinOfNumbers
    <3>3. owner' = [owner EXCEPT ![Min(unborn)] = adding[t]]
      BY <2>2 DEF Add
    <3> QED
      BY <3>2, <3>3 DEF All
  <2> QED
    BY <2>1, <2>2
<1>3. /\ owner \in [All -> Domains \cup {Unborn, Gone}]
      /\ acked \subseteq {e \in All : owner[e] \in Subjects}
      /\ \A s \in Subjects : AccountInv(s)
  BY DEF Inv, StoreType, Together
<1>4. ASSUME NEW s \in Subjects
      PROVE  /\ OwnedBy(s) \subseteq OwnedBy(s)'
             /\ (acked \cap OwnedBy(s))' = acked \cap OwnedBy(s)
  <2>1. CASE owner' = owner
    BY <1>1, <2>1 DEF OwnedBy
  <2>2. ASSUME NEW e \in All, owner[e] = Unborn, owner' = [owner EXCEPT ![e] = adding[t]]
        PROVE  /\ OwnedBy(s) \subseteq OwnedBy(s)'
               /\ (acked \cap OwnedBy(s))' = acked \cap OwnedBy(s)
    <3>1. e \notin acked /\ owner[e] # s
      BY <1>3, <2>2, Names
    <3>2. \A f \in All \ {e} : owner'[f] = owner[f]
      BY <1>3, <2>2
    <3> QED
      BY <1>1, <3>1, <3>2 DEF OwnedBy
  <2> QED
    BY <1>2, <2>1, <2>2
<1>5. \A s \in Subjects : AccountInv(s)'
  <2>1. UNCHANGED <<epoch, log>>
    BY <1>1 DEF service
  <2> QED
    BY <1>1, <1>3, <1>4, <2>1, AccountFrame
<1>6. SessionEpoch(t)'
  BY <1>1, TogetherFacts DEF SessionEpoch, service
<1>7. SessionRecord(t)'
  <2>1. PICK a : a = session[t].subject
    OBVIOUS
  <2>2. SessionRecord(t)
    BY TogetherFacts
  <2>3. a \in Subjects => (acked \cap OwnedBy(a))' = acked \cap OwnedBy(a)
    BY <1>4
  <2>4. session[t].pc # "idle" => a \in Subjects
    BY <2>1, TogetherFacts
  <2>5. session'[t].subject = a
    BY <1>1, <2>1
  <2>6. session[t].pc \in {"read", "apply"} =>
          acked' \cap OwnedBy(session[t].subject)' = acked \cap OwnedBy(session[t].subject)
    BY <1>1, <2>1, <2>3, <2>4, <2>5
  <2> QED
    BY <1>1, <2>2, <2>6 DEF SessionRecord
<1>8. DeletionRecord(t)'
  BY <1>1, TogetherFacts DEF DeletionRecord, service
<1>9. Behind'
  BY <1>1, BehindKept
<1>10. \A u \in Tabs : u = t
  BY DEF SingleTab
<1> QED
  BY <1>5, <1>6, <1>7, <1>8, <1>9, <1>10 DEF Together

\* What a deletion returns is the record, and it is closed.
LEMMA ReturnPendingTogether ==
  ASSUME Inv, Inv', SingleTab, Together, NEW t \in Tabs, ReturnPending(t) PROVE Together'
<1>1. /\ deletion[t].pc = "return"
      /\ UNCHANGED <<service, generation, subject, session, prompt, requests>>
  BY DEF ReturnPending, user
<1>2. /\ TabType /\ TabInv(t) /\ DeletionRecord(t) /\ SessionRecord(t)
  BY TabFacts, TogetherFacts
<1>3. PICK a \in Subjects : a = subject[t]
  BY <1>1, <1>2 DEF TabInv
<1>4. session[t].pc = "idle" /\ deletion[t].claimed = record[a].claimed
  BY <1>1, <1>2, <1>3 DEF TabInv, DeletionRecord
<1>5. \/ record[a].claimed # {} /\ Returned(a, record[a].claimed)
      \/ record[a].claimed = {} /\ UNCHANGED <<owner, acked, record>>
  BY <1>3, <1>4 DEF ReturnPending, MayReturn
<1>6. deletion' = [deletion EXCEPT ![t].pc = "clear"]
  BY <1>3, <1>4 DEF ReturnPending, MayReturn
<1>7. \A s \in Subjects : AccountInv(s)'
  <2>1. CASE Returned(a, record[a].claimed)
    BY <1>1, <2>1, ReturnedTogether
  <2>2. CASE UNCHANGED <<owner, acked, record>>
    BY <1>1, <2>2 DEF Together, AccountInv, OwnedBy, service
  <2> QED
    BY <1>5, <2>1, <2>2
<1>8. record'[a] = NoRecord
  <2>1. CASE Returned(a, record[a].claimed)
    BY <1>1, <2>1, ReturnedTogether
  <2>2. CASE record[a].claimed = {} /\ UNCHANGED record
    BY <2>2 DEF Inv, StoreType
  <2> QED
    BY <1>5, <2>1, <2>2
<1>9. Behind'
  BY <1>1, BehindKept
<1>10. SessionEpoch(t)' /\ SessionRecord(t)'
  BY <1>1, <1>3, <1>4, <1>8, RestingTogether
<1>11. DeletionRecord(t)'
  <2>1. deletion'[t].pc = "clear" /\ deletion'[t].reply = deletion[t].reply
    BY <1>2, <1>6 DEF TabType, TabInv, DeletionType, NoDeletion
  <2>2. generation[a] < deletion[t].reply /\ deletion[t].reply <= epoch[a]
    BY <1>1, <1>2, <1>3 DEF DeletionRecord
  <2> QED
    BY <1>1, <1>3, <1>8, <2>1, <2>2 DEF DeletionRecord, service
<1>12. \A u \in Tabs : u = t
  BY DEF SingleTab
<1> QED
  BY <1>7, <1>9, <1>10, <1>11, <1>12 DEF Together

\* The account that was deleted is cleared; its record is closed by then.
LEMMA ClearDeletedTogether ==
  ASSUME Inv, Inv', SingleTab, Together, NEW t \in Tabs, ClearDeleted(t) PROVE Together'
<1>1. /\ deletion[t].pc = "clear" /\ Cleared(subject[t], deletion[t].reply)
      /\ UNCHANGED <<service, subject, session, requests>>
  BY DEF ClearDeleted, user
<1>2. TabType /\ TabInv(t) /\ DeletionRecord(t)
  BY TabFacts, TogetherFacts
<1>3. PICK a \in Subjects : a = subject[t]
  BY <1>1, <1>2 DEF TabInv
<1>4. generation[a] < deletion[t].reply /\ deletion[t].reply <= epoch[a]
  BY <1>1, <1>2, <1>3 DEF DeletionRecord
<1>5. \A s \in Subjects : AccountInv(s)' /\ generation[s] <= generation'[s]
  BY <1>1, <1>3, <1>4, ClearedTogether
<1>6. Behind'
  BY <1>1, <1>5, BehindGrows
<1>7. session'[t].pc = "idle" /\ deletion'[t].pc = "none" /\ ~prompt'[t]
  BY <1>1, <1>2 DEF ClearDeleted, TabType, TabInv, NoDeletion
<1> QED
  BY <1>5, <1>6, <1>7, QuietTogether

-----------------------------------------------------------------------------
(* One tab: what the service and other devices do.                             *)

\* The service gives an account a newer generation, or adds to its log.
LogMoves(s) ==
  \/ epoch'[s] = epoch[s] /\ log'[s] = log[s]
  \/ epoch'[s] = epoch[s] /\ epoch[s] # Unknown /\ log[s] \subseteq log'[s]
  \/ epoch[s] < epoch'[s]

\* What the device knows of an account holds of a newer one as well.
LEMMA LogMovesFrame ==
  ASSUME Inv, Inv', Together, \A s \in Subjects : LogMoves(s), UNCHANGED account
  PROVE  \A s \in Subjects : AccountInv(s)' /\ epoch[s] <= epoch'[s]
<1>1. UNCHANGED <<owner, acked, generation, record>>
  BY DEF account
<1>2. ASSUME NEW s \in Subjects PROVE AccountInv(s)' /\ epoch[s] <= epoch'[s]
  <2>1. /\ AccountInv(s) /\ LogMoves(s)
        /\ epoch[s] \in Nat /\ epoch'[s] \in Nat /\ generation[s] \in Nat
    BY DEF Together, Inv, ServiceType, Issued
  <2>2. OwnedBy(s)' = OwnedBy(s)
    BY <1>1 DEF OwnedBy
  <2> QED
    BY <1>1, <2>1, <2>2 DEF AccountInv, LogMoves, Unknown
<1> QED
  BY <1>2

\* A session that waits for nothing, and a deletion, do not see it.
LEMMA SessionBehind ==
  ASSUME Inv, Inv', Together, \A s \in Subjects : LogMoves(s), NEW t \in Tabs,
         UNCHANGED <<owner, acked, generation, record, subject, prompt>>,
         session'[t] = session[t]
  PROVE  SessionEpoch(t)' /\ SessionRecord(t)'
<1>1. SessionEpoch(t) /\ SessionRecord(t) /\ SessionType(session[t])
  BY TogetherFacts DEF Inv, TabInv
<1>2. \A d : OwnedBy(d)' = OwnedBy(d)
  BY DEF OwnedBy
<1>3. SessionRecord(t)'
  BY <1>1, <1>2 DEF SessionRecord
<1>4. CASE session[t].pc = "idle"
  BY <1>3, <1>4 DEF SessionEpoch, Current
<1>5. CASE session[t].pc # "idle"
  <2>1. PICK a \in Subjects : a = session[t].subject
    BY <1>1, <1>5 DEF SessionType
  <2>2. /\ LogMoves(a) /\ epoch[a] \in Nat /\ epoch'[a] \in Nat /\ generation[a] \in Nat
        /\ session[t].reply \in Nat /\ session[t].next \in Nat
    BY <1>1, <2>1 DEF Inv, ServiceType, SessionType, Issued
  <2>3. epoch[a] <= epoch'[a]
    BY <2>2 DEF LogMoves
  <2>4. session[t].reply <= epoch[a] /\ session[t].reply = epoch'[a] =>
          epoch'[a] = epoch[a] /\ log[a] \subseteq log'[a]
    BY <2>2 DEF LogMoves
  <2>5. SessionEpoch(t)'
    BY <1>1, <2>1, <2>2, <2>3, <2>4 DEF SessionEpoch
  <2> QED
    BY <1>3, <2>5
<1> QED
  BY <1>3, <1>4, <1>5

\* A deletion whose answer came knows a generation of the account.
LEMMA DeletionBehind ==
  ASSUME Inv, Inv', Together, \A s \in Subjects : LogMoves(s), NEW t \in Tabs,
         UNCHANGED <<generation, record, subject>>, deletion'[t] = deletion[t]
  PROVE  DeletionRecord(t)'
<1>1. DeletionRecord(t) /\ TabInv(t)
  BY TogetherFacts DEF Inv
<1>2. CASE deletion[t].pc = "none"
  BY <1>2 DEF DeletionRecord
<1>3. CASE deletion[t].pc # "none"
  <2>1. PICK a \in Subjects : a = subject[t]
    BY <1>1, <1>3 DEF TabInv
  <2>2. /\ LogMoves(a) /\ epoch[a] \in Nat /\ epoch'[a] \in Nat
        /\ deletion[t].reply \in Nat
    BY <1>1, <2>1 DEF Inv, ServiceType, TabInv, DeletionType, Issued
  <2>3. deletion[t].reply <= epoch[a] => deletion[t].reply <= epoch'[a]
    BY <2>2 DEF LogMoves
  <2> QED
    BY <1>1, <2>1, <2>3 DEF DeletionRecord
<1> QED
  BY <1>2, <1>3

\* An answer the session waited for.
LEMMA ServeEpochTogether ==
  ASSUME Inv, Inv', Together, NEW r \in requests, r.kind = "sync", ServeEpoch(r),
         UNCHANGED <<account, user, prompt>>
  PROVE  /\ \A s \in Subjects : LogMoves(s)
         /\ r.tab # Nobody => SessionEpoch(r.tab)' /\ SessionRecord(r.tab)'
<1>0. PICK a \in Subjects : a = r.subject
  BY DEF Inv, RequestInv
<1>1. /\ epoch \in [Subjects -> Issued] /\ generation \in [Subjects -> Issued]
      /\ issued \in Nat /\ RequestInv(r) /\ AccountInv(a)
      /\ epoch' \in [Subjects -> Issued'] /\ issued' \in Nat
      /\ UNCHANGED <<owner, acked, generation, record, subject>>
  BY DEF Inv, ServiceType, Together, account, user
<1>2. /\ \/ epoch[a] = Unknown /\ issued' = issued + 1
            /\ epoch' = [epoch EXCEPT ![a] = issued']
         \/ epoch[a] \notin {Unknown, r.generation} /\ r.generation # Unknown
            /\ UNCHANGED <<issued, epoch>>
      /\ UNCHANGED log
  BY <1>0, ServeEpochEffect
<1>3. \A s \in Subjects : LogMoves(s)
  <2>1. CASE epoch' = epoch
    BY <1>2, <2>1 DEF LogMoves
  <2>2. CASE /\ epoch[a] = Unknown /\ issued' = issued + 1
             /\ epoch' = [epoch EXCEPT ![a] = issued']
    <3>1. epoch'[a] = issued + 1 /\ \A s \in Subjects \ {a} : epoch'[s] = epoch[s]
      BY <1>1, <2>2
    <3>2. epoch[a] < epoch'[a]
      BY <1>1, <2>2, <3>1 DEF Unknown
    <3> QED
      BY <1>2, <3>1, <3>2 DEF LogMoves
  <2> QED
    BY <1>2, <2>1, <2>2
<1>4. ASSUME r.tab # Nobody PROVE SessionEpoch(r.tab)' /\ SessionRecord(r.tab)'
  <2>1. PICK t \in Tabs : t = r.tab
    BY <1>1, <1>4 DEF RequestInv
  <2>2. /\ session[t].pc = "wait" /\ a = session[t].subject
        /\ r.generation = session[t].generation
    BY <1>0, <1>1, <1>4, <2>1 DEF RequestInv
  <2>3. /\ SessionEpoch(t) /\ SessionRecord(t) /\ SessionFlow(session[t])
        /\ generation[a] = r.generation
    BY <2>2, TogetherFacts DEF SessionEpoch, Current, Inv, TabInv
  <2>4. /\ DOMAIN session'[t] = Fields
        /\ \/ /\ r.generation = Unknown
              /\ Changes(t, {"pc", "reply", "rows"})
              /\ session'[t].pc = "apply" /\ session'[t].reply = epoch'[a]
              /\ session'[t].rows = log'[a]
           \/ /\ r.generation # Unknown
              /\ Changes(t, {"pc", "reply"})
              /\ session'[t].pc = "mismatch" /\ session'[t].reply = epoch'[a]
    BY <1>0, <1>4, <2>1, ServeEpochEffect
  <2>5. /\ session'[t].subject = a /\ session'[t].generation = session[t].generation
        /\ session'[t].use = session[t].use /\ session'[t].probing = session[t].probing
        /\ session'[t].sent = session[t].sent /\ session'[t].claim = session[t].claim
    BY <2>2, <2>4 DEF Changes, Fields, Idle
  <2>6. /\ generation[a] <= epoch[a] /\ epoch[a] \in Nat /\ generation[a] \in Nat
        /\ epoch'[a] \in Nat
    BY <1>1 DEF AccountInv, Issued
  <2>7. session[t].generation = Unknown => ~session[t].probing
    BY <2>2, <2>3 DEF SessionFlow
  <2>8. epoch'[a] # Unknown
    BY <1>1, <1>2 DEF Unknown
  <2>9. r.generation # Unknown => generation[a] < epoch'[a]
    BY <1>1, <1>2, <2>3, <2>6 DEF Unknown
  <2>10. SessionEpoch(t)'
    BY <1>1, <2>2, <2>3, <2>4, <2>5, <2>6, <2>7, <2>8, <2>9 DEF SessionEpoch, Current
  <2>11. SessionRecord(t)'
    BY <1>1, <2>2, <2>3, <2>4, <2>5, <2>7 DEF SessionRecord, Started, Current, Phases
  <2> QED
    BY <2>1, <2>10, <2>11
<1> QED
  BY <1>3, <1>4

\* The answer to a batch.
LEMMA ServeBatchTogether ==
  ASSUME Inv, Inv', Together, NEW r \in requests, r.kind = "sync", ServeBatch(r),
         UNCHANGED <<account, user, prompt>>
  PROVE  /\ \A s \in Subjects : LogMoves(s)
         /\ r.tab # Nobody => SessionEpoch(r.tab)' /\ SessionRecord(r.tab)'
<1>0. PICK a \in Subjects : a = r.subject
  BY DEF Inv, RequestInv
<1>1. /\ log \in [Subjects -> SUBSET All] /\ RequestInv(r) /\ AccountInv(a)
      /\ UNCHANGED <<owner, acked, generation, record, subject>>
  BY DEF Inv, ServiceType, Together, account, user
<1>2. /\ epoch[a] # Unknown /\ r.generation \in {Unknown, epoch[a]}
      /\ UNCHANGED <<issued, epoch>>
      /\ \/ Conflicts(r) /\ UNCHANGED log
         \/ log' = [log EXCEPT ![a] = @ \cup r.ops]
  BY <1>0, ServeBatchEffect
<1>3. log[a] \subseteq log'[a] /\ \A s \in Subjects \ {a} : log'[s] = log[s]
  BY <1>1, <1>2
<1>4. \A s \in Subjects : LogMoves(s)
  BY <1>2, <1>3 DEF LogMoves
<1>5. ASSUME r.tab # Nobody PROVE SessionEpoch(r.tab)' /\ SessionRecord(r.tab)'
  <2>1. PICK t \in Tabs : t = r.tab
    BY <1>1, <1>5 DEF RequestInv
  <2>2. /\ session[t].pc = "wait" /\ a = session[t].subject
        /\ r.generation = session[t].generation
        /\ r.guarded => /\ session[t].use = "guarded" /\ ~session[t].probing
                        /\ session[t].sent # {}
    BY <1>0, <1>1, <1>5, <2>1 DEF RequestInv
  <2>3. /\ SessionEpoch(t) /\ SessionRecord(t) /\ SessionFlow(session[t])
        /\ generation[a] = r.generation
    BY <2>2, TogetherFacts DEF SessionEpoch, Current, Inv, TabInv
  <2>4. CASE /\ r.guarded /\ Changes(t, {"pc"})
             /\ DOMAIN session'[t] = Fields /\ session'[t].pc = "conflict"
    <3>1. /\ session'[t].subject = a /\ session'[t].generation = session[t].generation
          /\ session'[t].use = session[t].use /\ session'[t].probing = session[t].probing
          /\ session'[t].sent = session[t].sent /\ session'[t].claim = session[t].claim
      BY <2>2, <2>4 DEF Changes, Fields, Idle
    <3>2. SessionEpoch(t)'
      BY <1>1, <2>2, <2>3, <2>4, <3>1 DEF SessionEpoch, Current
    <3>3. SessionRecord(t)'
      BY <1>1, <2>2, <2>3, <2>4, <3>1 DEF SessionRecord, Started, Current, Phases
    <3> QED
      BY <2>1, <3>2, <3>3
  <2>5. CASE /\ Changes(t, {"pc", "reply", "rows"})
             /\ DOMAIN session'[t] = Fields
             /\ session'[t].pc = "apply" /\ session'[t].reply = epoch[a]
             /\ session'[t].rows = log'[a]
    <3>1. /\ session'[t].subject = a /\ session'[t].generation = session[t].generation
          /\ session'[t].use = session[t].use /\ session'[t].probing = session[t].probing
          /\ session'[t].sent = session[t].sent /\ session'[t].claim = session[t].claim
      BY <2>2, <2>5 DEF Changes, Fields, Idle
    <3>2. session[t].probing => generation[a] # Unknown
      BY <2>2, <2>3 DEF SessionFlow
    <3>3. epoch[a] <= epoch[a]
      BY DEF Inv, ServiceType, Issued
    <3>4. SessionEpoch(t)'
      BY <1>1, <1>2, <2>2, <2>3, <2>5, <3>1, <3>2, <3>3 DEF SessionEpoch, Current
    <3>5. session[t].probing /\ log'[a] = {} => acked \cap OwnedBy(a) = {}
      BY <1>1, <1>2, <1>3, <2>3, <3>2 DEF AccountInv
    <3>6. acked' \cap {e \in All : owner'[e] = a} = acked \cap OwnedBy(a)
      BY <1>1 DEF OwnedBy
    <3>7. acked' \cap OwnedBy(session[t].subject)' = acked' \cap {e \in All : owner'[e] = session'[t].subject}
      BY <2>2, <3>1 DEF OwnedBy
    <3>8. SessionRecord(t)'
      BY <1>1, <2>2, <2>3, <2>5, <3>1, <3>5, <3>6, <3>7
      DEF SessionRecord, Started, Current, Phases
    <3> QED
      BY <2>1, <3>4, <3>8
  <2> QED
    BY <1>0, <1>5, <2>1, <2>4, <2>5, ServeBatchEffect DEF Conflicts
<1> QED
  BY <1>4, <1>5

\* A request is answered, to its tab or to nobody.
LEMMA ServeTogether ==
  ASSUME Inv, Inv', SingleTab, Together, NEW r \in requests, Serve(r) PROVE Together'
<1>1. /\ r.kind = "sync" /\ requests' = requests \ {r}
      /\ ServeEpoch(r) \/ ServeBatch(r)
      /\ UNCHANGED <<account, user, prompt, deletion>>
  BY DEF Serve
<1>2. /\ \A s \in Subjects : LogMoves(s)
      /\ r.tab # Nobody => SessionEpoch(r.tab)' /\ SessionRecord(r.tab)'
  BY <1>1, ServeEpochTogether, ServeBatchTogether
<1>3. \A s \in Subjects : AccountInv(s)'
  BY <1>1, <1>2, LogMovesFrame
<1>4. UNCHANGED <<owner, acked, generation, record, subject>>
  BY <1>1 DEF account, user
<1>5. Behind'
  BY <1>1, <1>4, BehindKept
<1>6. ASSUME NEW t \in Tabs PROVE SessionEpoch(t)' /\ SessionRecord(t)' /\ DeletionRecord(t)'
  <2>1. DeletionRecord(t)'
    BY <1>1, <1>2, <1>4, DeletionBehind
  <2>2. r.tab \in Tabs \cup {Nobody}
    BY DEF Inv, RequestInv
  <2>3. CASE r.tab = Nobody
    <3>1. session' = session
      BY <1>1, <2>3, ServeEpochEffect, ServeBatchEffect
    <3> QED
      BY <1>1, <1>2, <1>4, <2>1, <3>1, SessionBehind
  <2>4. CASE r.tab = t
    BY <1>2, <2>1, <2>4, Names
  <2> QED
    BY <2>2, <2>3, <2>4 DEF SingleTab
<1> QED
  BY <1>3, <1>5, <1>6 DEF Together

\* Other devices write or delete, and a request nobody waits for is lost.
LEMMA OtherTogether ==
  ASSUME Inv, Inv', SingleTab, Together, requests' \subseteq requests,
         \A s \in Subjects : LogMoves(s),
         UNCHANGED <<account, user, session, prompt, deletion>>
  PROVE  Together'
<1>1. UNCHANGED <<owner, acked, generation, record, subject>>
  BY DEF account, user
<1>2. \A s \in Subjects : AccountInv(s)'
  BY LogMovesFrame
<1>3. Behind'
  BY <1>1, BehindKept
<1>4. \A t \in Tabs : SessionEpoch(t)' /\ SessionRecord(t)' /\ DeletionRecord(t)'
  BY <1>1, SessionBehind, DeletionBehind
<1> QED
  BY <1>2, <1>3, <1>4 DEF Together

\* A new generation of an account.
LEMMA NewEpoch ==
  ASSUME Inv, NEW a \in Subjects, issued' \in Nat, issued < issued',
         epoch' = [epoch EXCEPT ![a] = issued'], \A s \in Subjects \ {a} : log'[s] = log[s]
  PROVE  \A s \in Subjects : LogMoves(s)
<1>1. epoch \in [Subjects -> Issued] /\ issued \in Nat
  BY DEF Inv, ServiceType
<1>2. epoch'[a] = issued' /\ \A s \in Subjects \ {a} : epoch'[s] = epoch[s]
  BY <1>1
<1>3. epoch[a] < epoch'[a]
  BY <1>1, <1>2 DEF Issued
<1> QED
  BY <1>2, <1>3 DEF LogMoves

\* Other devices and lost requests leave what the device knows behind.
LEMMA OthersTogether ==
  ASSUME Inv, Inv', SingleTab, Together,
         \/ \E r \in requests : Lose(r)
         \/ \E s \in Subjects : OtherDeletes(s) \/ \E e \in Others : OtherWrites(s, e)
  PROVE  Together'
<1>0. log \in [Subjects -> SUBSET All] /\ epoch \in [Subjects -> Issued] /\ issued \in Nat
  BY DEF Inv, ServiceType
<1>1. ASSUME NEW r \in requests, Lose(r) PROVE Together'
  <2>1. \A s \in Subjects : LogMoves(s)
    BY <1>1 DEF Lose, service, LogMoves
  <2> QED
    BY <1>1, <2>1, OtherTogether DEF Lose
<1>2. ASSUME NEW s \in Subjects, OtherDeletes(s) PROVE Together'
  <2>1. /\ issued' = issued + 1 /\ epoch' = [epoch EXCEPT ![s] = issued']
        /\ log' = [log EXCEPT ![s] = {}]
    BY <1>2 DEF OtherDeletes
  <2>2. /\ issued' \in Nat /\ issued < issued'
        /\ \A u \in Subjects \ {s} : log'[u] = log[u]
    BY <1>0, <2>1
  <2>3. \A u \in Subjects : LogMoves(u)
    BY <2>1, <2>2, NewEpoch
  <2> QED
    BY <1>2, <2>3, OtherTogether DEF OtherDeletes
<1>3. ASSUME NEW s \in Subjects, NEW e \in Others, OtherWrites(s, e) PROVE Together'
  <2>1. /\ issued' = IF epoch[s] = Unknown THEN issued + 1 ELSE issued
        /\ epoch' = [epoch EXCEPT ![s] = IF @ = Unknown THEN issued' ELSE @]
        /\ log' = [log EXCEPT ![s] = @ \cup {e}]
    BY <1>3 DEF OtherWrites
  <2>2. \A u \in Subjects : LogMoves(u)
    <3>1. CASE epoch[s] = Unknown
      <4>1. epoch' = [epoch EXCEPT ![s] = issued'] /\ issued' = issued + 1
        BY <2>1, <3>1
      <4>2. /\ issued' \in Nat /\ issued < issued'
            /\ \A u \in Subjects \ {s} : log'[u] = log[u]
        BY <1>0, <2>1, <4>1
      <4> QED
        BY <4>1, <4>2, NewEpoch
    <3>2. CASE epoch[s] # Unknown
      <4>1. epoch' = epoch
        BY <1>0, <2>1, <3>2
      <4>2. log[s] \subseteq log'[s] /\ \A u \in Subjects \ {s} : log'[u] = log[u]
        BY <1>0, <2>1
      <4> QED
        BY <3>2, <4>1, <4>2 DEF LogMoves
    <3> QED
      BY <3>1, <3>2
  <2> QED
    BY <1>3, <2>2, OtherTogether DEF OtherWrites
<1> QED
  BY <1>1, <1>2, <1>3

\* A DELETE is served: its answer is a generation the tab does not know.
LEMMA ServeDeleteTogether ==
  ASSUME Inv, Inv', SingleTab, Together, NEW r \in requests, ServeDelete(r) PROVE Together'
<1>0. PICK a \in Subjects : a = r.subject
  BY DEF Inv, RequestInv
<1>1. /\ r.kind = "delete" /\ requests' = requests \ {r}
      /\ issued' = IF issued = 0 THEN 2 ELSE issued + 1
      /\ epoch' = [epoch EXCEPT ![a] = issued'] /\ log' = [log EXCEPT ![a] = {}]
      /\ deletion' = IF r.tab = Nobody THEN deletion
                     ELSE [deletion EXCEPT ![r.tab].pc = "return",
                                           ![r.tab].reply = issued']
      /\ UNCHANGED <<account, user, session, prompt>>
  BY <1>0 DEF ServeDelete
<1>2. /\ log \in [Subjects -> SUBSET All] /\ epoch \in [Subjects -> Issued] /\ issued \in Nat
      /\ generation \in [Subjects -> Issued]
  BY DEF Inv, ServiceType
<1>3. issued' \in Nat /\ issued < issued'
  BY <1>1, <1>2
<1>4. \A s \in Subjects : LogMoves(s)
  BY <1>1, <1>2, <1>3, NewEpoch
<1>5. CASE r.tab = Nobody
  BY <1>1, <1>4, <1>5, OtherTogether
<1>6. CASE r.tab # Nobody
  <2>1. PICK t \in Tabs : t = r.tab
    BY <1>6 DEF Inv, RequestInv
  <2>2. RequestInv(r) /\ TabInv(t) /\ TabType /\ DeletionRecord(t)
    BY TabFacts, TogetherFacts DEF Inv
  <2>3. deletion[t].pc = "wait" /\ a = subject[t]
    BY <1>0, <1>1, <1>6, <2>1, <2>2 DEF RequestInv
  <2>4. /\ deletion'[t].pc = "return" /\ deletion'[t].reply = issued'
        /\ deletion'[t].claimed = deletion[t].claimed
    BY <1>1, <1>6, <2>1, <2>2 DEF TabType, TabInv, DeletionType, NoDeletion
  <2>5. UNCHANGED <<owner, acked, generation, record, subject>>
    BY <1>1 DEF account, user
  <2>6. epoch'[a] = issued' /\ generation[a] < issued'
    BY <1>1, <1>2, <1>3 DEF Issued
  <2>7. DeletionRecord(t)'
    BY <1>3, <2>2, <2>3, <2>4, <2>5, <2>6 DEF DeletionRecord
  <2>8. \A s \in Subjects : AccountInv(s)'
    BY <1>1, <1>4, LogMovesFrame
  <2>9. SessionEpoch(t)' /\ SessionRecord(t)'
    BY <1>1, <1>4, <2>5, SessionBehind
  <2>10. Behind'
    BY <1>1, <2>5, BehindKept
  <2>11. \A u \in Tabs : u = t
    BY DEF SingleTab
  <2> QED
    BY <2>7, <2>8, <2>9, <2>10, <2>11 DEF Together
<1> QED
  BY <1>5, <1>6

\* Nothing happens.
LEMMA StutterTogether == ASSUME Inv, Together, UNCHANGED vars PROVE Together'
<1>1. /\ UNCHANGED <<service, owner, acked, generation, record, subject, session, prompt,
                     deletion, requests>>
  BY DEF vars, account, user
<1>2. \A d : OwnedBy(d)' = OwnedBy(d)
  BY <1>1 DEF OwnedBy
<1>3. (\A s \in Subjects : AccountInv(s)') /\ Behind'
  BY <1>1, <1>2 DEF Together, AccountInv, Behind, service
<1>4. \A t \in Tabs : SessionEpoch(t)' /\ SessionRecord(t)' /\ DeletionRecord(t)'
  BY <1>1, <1>2 DEF Together, SessionEpoch, SessionRecord, DeletionRecord, service
<1> QED
  BY <1>3, <1>4 DEF Together

\* Nothing is known at first.
LEMMA InitTogether == ASSUME Init PROVE Together
<1>1. \A s \in Subjects : AccountInv(s)
  BY DEF Init, AccountInv, NoRecord, Unknown
<1>2. Behind
  BY DEF Init, Behind
<1>3. \A t \in Tabs : SessionEpoch(t) /\ SessionRecord(t) /\ DeletionRecord(t)
  BY DEF Init, SessionEpoch, SessionRecord, DeletionRecord, Idle, NoDeletion, Current, Started
<1> QED
  BY <1>1, <1>2, <1>3 DEF Together

\* What the tab does.
LEMMA TabTogether ==
  ASSUME Inv, SingleTab, Together, NEW t \in Tabs,
         \/ StartSync(t) \/ SyncStep(t)
         \/ Merge(t) \/ KeepSeparate(t) \/ BeginAdd(t) \/ Add(t)
         \/ BeginDelete(t) \/ DeleteStep(t)
         \/ SignOut(t) \/ Reload(t) \/ Timeout(t)
         \/ \E s \in Subjects : SignIn(t, s)
  PROVE  Together'
<1>0. Inv'
  BY TabTypes
<1>1. CASE SyncStep(t)
  BY <1>0, <1>1, ReadRecordTogether, ProbeTogether, ReadQueueTogether, AttemptTogether,
     ApplyTogether, CannotApplyTogether, CompleteTogether, ChangedTogether,
     ConflictTogether, RestoreTogether, ReplaceTogether, ReconcileTogether, ClaimTogether
  DEF SyncStep
<1>2. CASE DeleteStep(t)
  BY <1>0, <1>2, SendDeleteTogether, ReturnPendingTogether, ClearDeletedTogether
  DEF DeleteStep
<1>3. CASE \/ BeginDelete(t) \/ SignOut(t) \/ Reload(t) \/ Timeout(t)
           \/ \E s \in Subjects : SignIn(t, s)
  BY <1>3, LeftTogether
<1>4. CASE StartSync(t) \/ Merge(t) \/ KeepSeparate(t) \/ BeginAdd(t) \/ Add(t)
  BY <1>0, <1>4, StartSyncTogether, MergeTogether, ChoiceTogether, AddTogether
<1> QED
  BY <1>1, <1>2, <1>3, <1>4

\* Every step of one tab, the service and other devices.
LEMMA NextTogether == ASSUME Inv, SingleTab, Together, [Next]_vars PROVE Together'
<1>0. Inv'
  BY NextTypes
<1>1. CASE \E t \in Tabs :
             \/ StartSync(t) \/ SyncStep(t)
             \/ Merge(t) \/ KeepSeparate(t) \/ BeginAdd(t) \/ Add(t)
             \/ BeginDelete(t) \/ DeleteStep(t)
             \/ SignOut(t) \/ Reload(t) \/ Timeout(t)
             \/ \E s \in Subjects : SignIn(t, s)
  BY <1>1, TabTogether
<1>2. CASE \E r \in requests : Serve(r) \/ ServeDelete(r) \/ Lose(r)
  BY <1>0, <1>2, ServeTogether, ServeDeleteTogether, OthersTogether
<1>3. CASE \E s \in Subjects : OtherDeletes(s) \/ \E e \in Others : OtherWrites(s, e)
  BY <1>0, <1>3, OthersTogether
<1>4. CASE UNCHANGED vars
  BY <1>4, StutterTogether
<1> QED
  BY <1>1, <1>2, <1>3, <1>4 DEF Next

-----------------------------------------------------------------------------
(* One tab: nothing is discarded.                                              *)

\* What a step may do with the events of the device and those of an account.
Kept ==
  /\ \A e \in OwnedBy(Anonymous) : owner'[e] \in Domains
  /\ \A s \in Subjects : \A e \in OwnedBy(s) :
       \/ owner'[e] \in {s, Anonymous}
       \/ generation[s] < epoch[s] /\ e \notin record[s].claimed

\* An event that keeps its domain, or comes to be owned by the device or an account.
LEMMA OwnerKept ==
  ASSUME Inv, \A e \in All : \/ owner'[e] = owner[e]
                             \/ owner[e] \in {Unborn, Gone}
                             \/ owner[e] = Anonymous /\ owner'[e] \in Subjects
                             \/ owner[e] \in Subjects /\ owner'[e] = Anonymous
  PROVE  Kept
<1>1. /\ \A s \in Subjects : Unborn # s /\ Gone # s /\ Anonymous # s
      /\ Anonymous \notin {Unborn, Gone}
  BY Names
<1>2. ASSUME NEW e \in OwnedBy(Anonymous) PROVE owner'[e] \in Domains
  BY <1>1 DEF OwnedBy, Domains
<1>3. ASSUME NEW s \in Subjects, NEW e \in OwnedBy(s)
      PROVE  owner'[e] \in {s, Anonymous}
  BY <1>1 DEF OwnedBy
<1> QED
  BY <1>2, <1>3 DEF Kept

\* An account with no record, in a generation that is over, can be cleared.
LEMMA ClearedKept ==
  ASSUME Inv, NEW a \in Subjects, NEW next, Cleared(a, next), record[a] = NoRecord,
         generation[a] < epoch[a]
  PROVE  Kept
<1>1. owner' = [e \in All |-> IF owner[e] = a THEN Gone ELSE owner[e]]
  BY DEF Cleared
<1>2. record[a].claimed = {}
  BY DEF NoRecord
<1>3. ASSUME NEW e \in OwnedBy(Anonymous) PROVE owner'[e] \in Domains
  BY <1>1, Names DEF OwnedBy, Domains
<1>4. ASSUME NEW s \in Subjects, NEW e \in OwnedBy(s)
      PROVE  \/ owner'[e] \in {s, Anonymous}
             \/ generation[s] < epoch[s] /\ e \notin record[s].claimed
  BY <1>1, <1>2 DEF OwnedBy
<1> QED
  BY <1>3, <1>4 DEF Kept

\* The steps of a session.
LEMMA SyncKept == ASSUME Inv, Together, NEW t \in Tabs, SyncStep(t) PROVE Kept
<1> DEFINE a == session[t].subject
<1>1. owner \in [All -> Domains \cup {Unborn, Gone}] /\ SessionType(session[t])
  BY DEF Inv, StoreType, TabInv
<1>2. CASE UNCHANGED owner
  BY <1>2, OwnerKept
<1>3. CASE Apply(t)
  <2>1. a \in Subjects /\ Recorded(t) /\ ~Collides(t)
    BY <1>3, TogetherFacts DEF Apply, Collides
  <2>2. \A e \in All : \/ owner'[e] = owner[e]
                       \/ owner[e] \in {Unborn, Gone, a} /\ owner'[e] = a
    BY <2>1 DEF Recorded, Collides
  <2>3. \A e \in All : owner'[e] = owner[e] \/ owner[e] \in {Unborn, Gone}
    BY <2>2
  <2> QED
    BY <2>3, OwnerKept
<1>4. CASE Restore(t)
  <2>1. a \in Subjects
    BY <1>4, TogetherFacts DEF Restore
  <2>2. UNCHANGED owner \/ Returned(a, session[t].claim.claimed)
    BY <1>4, RestoreEffect
  <2>3. \A e \in All : owner'[e] = owner[e] \/ (owner[e] = a /\ owner'[e] = Anonymous)
    BY <2>2 DEF Returned, OwnedBy
  <2> QED
    BY <2>1, <2>3, OwnerKept
<1>5. CASE Replace(t) \/ ClearStale(t)
  <2>1. session[t].pc \in {"replace", "clear"} /\ SessionRecord(t) /\ a \in Subjects
    BY <1>5, TogetherFacts DEF Replace, ClearStale
  <2>2. session[t].use # "guarded"
    BY <2>1 DEF Inv, TabInv, SessionFlow
  <2>3. record[a] = NoRecord
    BY <2>1, <2>2 DEF SessionRecord, Started, Phases
  <2>4. \/ UNCHANGED owner
        \/ Cleared(a, session[t].next) \/ Cleared(a, session[t].reply)
    BY <1>5, ReplaceEffect, ClearStaleEffect DEF account
  <2>5. generation[a] < epoch[a]
    <3>1. \E n \in Nat : generation[a] < n /\ n <= epoch[a]
      BY <2>1, TogetherFacts DEF SessionEpoch, Inv, TabInv, SessionType, ServiceType, Issued
    <3>2. generation[a] \in Nat /\ epoch[a] \in Nat
      BY <2>1 DEF Inv, ServiceType, Issued
    <3> QED
      BY <3>1, <3>2
  <2> QED
    BY <1>2, <2>1, <2>3, <2>4, <2>5, ClearedKept
<1>6. CASE Claim(t)
  <2>1. a \in Subjects
    BY <1>6, TogetherFacts DEF Claim
  <2>2. UNCHANGED owner \/ Claimed(a, FALSE)
    BY <1>6, ClaimEffect
  <2>3. \A e \in All : owner'[e] = owner[e] \/ (owner[e] = Anonymous /\ owner'[e] = a)
    BY <2>2 DEF Claimed, OwnedBy
  <2> QED
    BY <2>1, <2>3, OwnerKept
<1>7. CASE \/ ReadRecord(t) \/ Probe(t) \/ ReadQueue(t) \/ Attempt(t)
           \/ CannotApply(t) \/ Complete(t) \/ Changed(t) \/ Conflict(t) \/ Reconcile(t)
  BY <1>2, <1>7
  DEF ReadRecord, Probe, ReadQueue, Attempt, CannotApply, Complete, Changed, Conflict,
      Reconcile, account
<1> QED
  BY <1>3, <1>4, <1>5, <1>6, <1>7 DEF SyncStep

\* The steps of the user and of a deletion.
LEMMA TabKept ==
  ASSUME Inv, Together, NEW t \in Tabs,
         \/ StartSync(t) \/ Merge(t) \/ KeepSeparate(t) \/ BeginAdd(t) \/ Add(t)
         \/ BeginDelete(t) \/ DeleteStep(t)
         \/ SignOut(t) \/ Reload(t) \/ Timeout(t)
         \/ \E s \in Subjects : SignIn(t, s)
  PROVE  Kept
<1>1. /\ owner \in [All -> Domains \cup {Unborn, Gone}] /\ record \in [Subjects -> Records]
      /\ TabType /\ TabInv(t) /\ DeletionRecord(t)
  BY TabFacts, TogetherFacts DEF Inv, StoreType
<1>2. CASE UNCHANGED owner
  BY <1>2, OwnerKept
<1>3. CASE Merge(t)
  <2>1. subject[t] \in Subjects /\ Claimed(subject[t], TRUE)
    BY <1>1, <1>3 DEF Merge, TabType
  <2>2. \A e \in All : \/ owner'[e] = owner[e]
                       \/ owner[e] = Anonymous /\ owner'[e] = subject[t]
    BY <2>1 DEF Claimed, OwnedBy
  <2> QED
    BY <2>1, <2>2, OwnerKept
<1>4. CASE Add(t)
  <2> DEFINE unborn == {e \in Events : owner[e] = Unborn}
  <2>1. CASE Blocked(t) \/ unborn = {}
    BY <1>2, <1>4, <2>1 DEF Add
  <2>2. CASE unborn # {} /\ ~Blocked(t)
    <3>1. unborn \in SUBSET Nat
      BY EnrollmentType
    <3>2. Min(unborn) \in unborn
      BY <2>2, <3>1, MinOfNumbers
    <3>3. owner' = [owner EXCEPT ![Min(unborn)] = adding[t]]
      BY <1>4, <2>2 DEF Add
    <3>4. \A e \in All : owner'[e] = owner[e] \/ owner[e] = Unborn
      BY <1>1, <3>2, <3>3
    <3> QED
      BY <3>4, OwnerKept
  <2> QED
    BY <2>1, <2>2
<1>5. CASE ReturnPending(t)
  <2>1. subject[t] \in Subjects
    BY <1>1, <1>5 DEF ReturnPending, TabInv
  <2>2. UNCHANGED owner \/ Returned(subject[t], deletion[t].claimed)
    BY <1>5 DEF ReturnPending
  <2>3. \A e \in All : \/ owner'[e] = owner[e]
                       \/ owner[e] = subject[t] /\ owner'[e] = Anonymous
    BY <2>2 DEF Returned, OwnedBy
  <2> QED
    BY <2>1, <2>3, OwnerKept
<1>6. CASE ClearDeleted(t)
  <2>1. subject[t] \in Subjects /\ record[subject[t]] = NoRecord
    BY <1>1, <1>6 DEF ClearDeleted, TabInv, DeletionRecord
  <2>2. Cleared(subject[t], deletion[t].reply)
    BY <1>6 DEF ClearDeleted
  <2>3. generation[subject[t]] < epoch[subject[t]]
    <3>1. generation[subject[t]] < deletion[t].reply /\ deletion[t].reply <= epoch[subject[t]]
      BY <1>1, <1>6 DEF ClearDeleted, DeletionRecord
    <3>2. /\ generation[subject[t]] \in Nat /\ epoch[subject[t]] \in Nat
          /\ deletion[t].reply \in Nat
      BY <1>1, <2>1 DEF Inv, ServiceType, TabInv, DeletionType, Issued
    <3> QED
      BY <3>1, <3>2
  <2> QED
    BY <2>1, <2>2, <2>3, ClearedKept
<1>7. CASE \/ StartSync(t) \/ KeepSeparate(t) \/ BeginAdd(t)
           \/ BeginDelete(t) \/ SendDelete(t)
           \/ SignOut(t) \/ Reload(t) \/ Timeout(t)
           \/ \E s \in Subjects : SignIn(t, s)
  BY <1>2, <1>7
  DEF StartSync, KeepSeparate, BeginAdd, BeginDelete, SendDelete, SignOut, Reload, Timeout,
      SignIn, account
<1> QED
  BY <1>3, <1>4, <1>5, <1>6, <1>7 DEF DeleteStep

\* Every step.
LEMMA NextKept == ASSUME Inv, Together, [Next]_vars PROVE Kept
<1>1. CASE \E t \in Tabs :
             \/ StartSync(t) \/ SyncStep(t)
             \/ Merge(t) \/ KeepSeparate(t) \/ BeginAdd(t) \/ Add(t)
             \/ BeginDelete(t) \/ DeleteStep(t)
             \/ SignOut(t) \/ Reload(t) \/ Timeout(t)
             \/ \E s \in Subjects : SignIn(t, s)
  BY <1>1, SyncKept, TabKept
<1>2. CASE UNCHANGED owner
  BY <1>2, OwnerKept
<1>3. CASE \E r \in requests : Serve(r) \/ ServeDelete(r) \/ Lose(r)
  BY <1>2, <1>3 DEF Serve, ServeDelete, Lose, account
<1>4. CASE \E s \in Subjects : OtherDeletes(s) \/ \E e \in Others : OtherWrites(s, e)
  BY <1>2, <1>4 DEF OtherDeletes, OtherWrites, account
<1>5. CASE UNCHANGED vars
  BY <1>2, <1>5 DEF vars, account
<1> QED
  BY <1>1, <1>3, <1>4, <1>5 DEF Next

\* In a browser with one tab, the record of an account is that of the session or of the
\* deletion in progress, and no generation it knows is ahead of the account's.
THEOREM RecordsFit == ASSUME SingleTab PROVE Spec => [](Inv /\ Together)
<1>1. Init => Inv /\ Together
  BY InitTypes, InitTogether
<1>2. (Inv /\ Together) /\ [Next]_vars => (Inv /\ Together)'
  BY NextTypes, NextTogether
<1> QED
  BY <1>1, <1>2, PTL DEF Spec

\* In a browser with one tab no collection is discarded silently: what is anonymous stays
\* on the device, a claim stays until its first batch was accepted, and nothing else an
\* account has here is erased while its generation is the service's.
THEOREM NothingIsDiscarded == ASSUME SingleTab PROVE Spec => NothingDiscarded
<1>1. Inv /\ Together /\ [Next]_vars =>
        [/\ \A e \in OwnedBy(Anonymous) : owner'[e] \in Domains
         /\ \A s \in Subjects : \A e \in OwnedBy(s) :
              \/ owner'[e] \in {s, Anonymous}
              \/ generation[s] < epoch[s] /\ e \notin record[s].claimed]_vars
  BY NextKept DEF Kept
<1>2. Spec => [](Inv /\ Together)
  BY RecordsFit
<1> QED
  BY <1>1, <1>2, PTL DEF Spec, NothingDiscarded

-----------------------------------------------------------------------------
(* One tab: whose events are in the log.                                       *)

\* A session that ends is idle.
LEMMA EndsIdle == ASSUME NEW t, Ends(t) PROVE session'[t].pc = "idle"
  BY DEF Ends, Idle

\* An event is one account's.
LEMMA MineOnce ==
  ASSUME NEW e, NEW s \in Subjects, NEW u \in Subjects, Mine(e, s), Mine(e, u)
  PROVE  s = u
  BY Names DEF Mine

\* The parts of the invariant, for the tab.
LEMMA HeldFacts ==
  ASSUME Inv, Isolation, NEW t \in Tabs
  PROVE  /\ SessionHeld(t) /\ EventsHeld /\ LogsOK /\ RequestsHeld
         /\ session[t].pc # "idle" => session[t].subject \in Subjects
         /\ owner \in [All -> Domains \cup {Unborn, Gone}]
         /\ record \in [Subjects -> Records]
  BY DEF Isolation, Inv, StoreType, TabInv, SessionType

\* Only these phases depend on whose the events are.
LEMMA QuietHeld ==
  ASSUME NEW t,
         session'[t].pc \notin {"attempt", "apply", "conflict", "restore", "complete"}
  PROVE  SessionHeld(t)'
  BY DEF SessionHeld

\* Nor does a session that is aborted.
LEMMA AbortedHeld ==
  ASSUME NEW t, SessionHeld(t), UNCHANGED <<service, owner, generation, record, home, adopted>>,
         UNCHANGED session \/ (DOMAIN session'[t] = Fields /\ Changes(t, {"aborted"}))
  PROVE  SessionHeld(t)'
<1>1. /\ session'[t].pc = session[t].pc /\ session'[t].subject = session[t].subject
      /\ session'[t].probing = session[t].probing /\ session'[t].rows = session[t].rows
      /\ session'[t].sent = session[t].sent /\ session'[t].reply = session[t].reply
      /\ session'[t].cause = session[t].cause
  BY DEF Changes, Fields, Idle
<1>2. epoch' = epoch /\ log' = log
  BY DEF service
<1>3. \A e, s : HeldBy(e, s)' <=> HeldBy(e, s)
  BY DEF HeldBy, Mine
<1>4. \A s : Untouched(s)' <=> Untouched(s)
  BY <1>2 DEF Untouched
<1> QED
  BY <1>1, <1>2, <1>3, <1>4 DEF SessionHeld

\* A step of the tab on which neither the store nor the log depends.
LEMMA HeldFrame ==
  ASSUME Inv, SingleTab, Isolation, NEW t \in Tabs,
         UNCHANGED <<service, owner, generation, record, home, adopted>>,
         RequestsHeld', SessionHeld(t)'
  PROVE  Isolation'
<1>1. epoch' = epoch /\ log' = log
  BY DEF service
<1>2. \A e, s : Mine(e, s)' <=> Mine(e, s)
  BY DEF Mine
<1>3. \A e, s : HeldBy(e, s)' <=> HeldBy(e, s)
  BY <1>2 DEF HeldBy
<1>4. EventsHeld'
  BY <1>1, <1>2, <1>3 DEF Isolation, EventsHeld
<1>5. LogsOK'
  BY <1>1 DEF Isolation, LogsOK, Untouched
<1>6. \A u \in Tabs : u = t
  BY DEF SingleTab
<1> QED
  BY <1>4, <1>5, <1>6 DEF Isolation

\* What the service may still add is seen in the request, not in who waits for it.
RequestHeld(r) ==
  Pending(r) =>
    LET s == r.subject
    IN  /\ \A e \in r.ops : HeldBy(e, s)
        /\ r.guarded => record[s] # NoRecord /\ r.ops = record[s].attempted
        /\ ~r.guarded => r.ops \cap record[s].claimed = {}

\* A request is held as it was when store and log are.
LEMMA RequestHeldFrame ==
  ASSUME NEW r, UNCHANGED <<service, owner, record, home, adopted>>
  PROVE  RequestHeld(r)' <=> RequestHeld(r)
<1>1. epoch' = epoch /\ log' = log
  BY DEF service
<1>2. \A e, s : HeldBy(e, s)' <=> HeldBy(e, s)
  BY DEF HeldBy, Mine
<1>3. Pending(r)' <=> Pending(r)
  BY <1>1 DEF Pending
<1> QED
  BY <1>2, <1>3 DEF RequestHeld

\* Requests that go on, with or without their tab.
LEMMA RequestsHeldOn ==
  ASSUME Inv, Isolation, UNCHANGED <<service, owner, record, home, adopted>>,
         requests' \subseteq requests \/ \E t \in Tabs : requests' = Abandoned(t)
  PROVE  RequestsHeld'
<1>1. \A r \in requests : RequestHeld(r)
  BY DEF Isolation, RequestsHeld, RequestHeld
<1>2. CASE requests' \subseteq requests
  BY <1>1, <1>2, RequestHeldFrame DEF RequestsHeld, RequestHeld
<1>3. ASSUME NEW t \in Tabs, requests' = Abandoned(t) PROVE RequestsHeld'
  <2>1. ASSUME NEW r \in requests' PROVE RequestHeld(r)
    <3>1. PICK q \in requests : LeftBy(r, t, q)
      BY <1>3, AbandonedRequests
    <3>2. /\ r.kind = q.kind /\ r.subject = q.subject
          /\ q.kind = "sync" => /\ r.ops = q.ops /\ r.generation = q.generation
                                /\ r.guarded = q.guarded
      BY <3>1 DEF LeftBy, Inv, RequestInv, SyncFields
    <3> QED
      BY <1>1, <3>2 DEF RequestHeld, Pending
  <2> QED
    BY <2>1, RequestHeldFrame DEF RequestsHeld, RequestHeld
<1> QED
  BY <1>2, <1>3

\* A request the tab sends.
LEMMA RequestsHeldSend ==
  ASSUME Inv, Isolation, UNCHANGED <<service, owner, record, home, adopted>>,
         NEW t \in Tabs, NEW ops, NEW guarded \in BOOLEAN, Send(t, ops, guarded),
         \A e \in ops : HeldBy(e, session[t].subject),
         guarded => /\ record[session[t].subject] # NoRecord
                    /\ ops = record[session[t].subject].attempted,
         ~guarded => ops \cap record[session[t].subject].claimed = {}
  PROVE  RequestsHeld'
<1>1. PICK new : new = [kind |-> "sync", tab |-> t, subject |-> session[t].subject,
                         ops |-> ops, generation |-> session'[t].generation,
                         guarded |-> guarded]
  OBVIOUS
<1>2. /\ requests' = requests \cup {new} /\ new.subject = session[t].subject
      /\ new.ops = ops /\ new.guarded = guarded
  BY <1>1 DEF Send
<1>3. RequestHeld(new)
  BY <1>2 DEF RequestHeld
<1>4. \A r \in requests : RequestHeld(r)
  BY DEF Isolation, RequestsHeld, RequestHeld
<1> QED
  BY <1>2, <1>3, <1>4, RequestHeldFrame DEF RequestsHeld, RequestHeld

\* The record is read, the probe is sent, and what else changes no account.
LEMMA CalmHeld ==
  ASSUME Inv, SingleTab, Together, Isolation, NEW t \in Tabs,
         \/ ReadRecord(t) \/ Probe(t) \/ Changed(t) \/ Conflict(t) \/ Reconcile(t)
         \/ StartSync(t)
  PROVE  Isolation'
<1>1. UNCHANGED <<service, owner, generation, record, home, adopted>>
  BY DEF ReadRecord, Probe, Changed, Conflict, Reconcile, StartSync, account, history
<1>2. SessionHeld(t)
  BY HeldFacts
<1>3. SessionHeld(t)'
  <2>1. CASE Conflict(t)
    <3>1. /\ session[t].pc = "conflict" /\ Moves(t, {"pc", "next", "cause"})
          /\ session'[t].pc = "restore" /\ session'[t].cause = "conflict"
      BY <2>1, ConflictEffect DEF Conflict
    <3>2. session'[t].subject = session[t].subject
      BY <3>1 DEF Moves, Changes, Fields, Idle
    <3> QED
      BY <1>1, <1>2, <3>1, <3>2 DEF SessionHeld, Untouched, service
  <2>2. CASE Changed(t)
    <3>1. \/ session'[t].pc \in {"idle", "clear"}
          \/ session'[t].pc = "restore" /\ session'[t].cause = "generation"
      BY <2>2, ChangedEffect DEF Ends, Idle
    <3> QED
      BY <3>1 DEF SessionHeld
  <2>3. CASE ReadRecord(t) \/ Probe(t) \/ Reconcile(t) \/ StartSync(t)
    <3>1. Ends(t) => session'[t].pc = "idle"
      BY DEF Ends, Idle
    <3>2. ReadRecord(t) => session'[t].pc \in {"idle", "read", "probe"}
      BY <3>1, ReadRecordEffect
    <3>3. Probe(t) => session'[t].pc \in {"idle", "wait"}
      BY <3>1, ProbeEffect
    <3>4. Reconcile(t) => session'[t].pc \in {"idle", "claim"}
      BY <3>1, ReconcileEffect
    <3>5. StartSync(t) => session'[t].pc = "record"
      BY StartSyncEffect
    <3> QED
      BY <2>3, <3>2, <3>3, <3>4, <3>5, QuietHeld
  <2> QED
    BY <2>1, <2>2, <2>3
<1>4. RequestsHeld'
  <2>1. CASE UNCHANGED requests
    BY <1>1, <2>1, RequestsHeldOn
  <2>2. CASE Probe(t) /\ Send(t, {}, FALSE)
    <3>1. /\ \A e \in {} : HeldBy(e, session[t].subject)
          /\ {} \cap record[session[t].subject].claimed = {}
      OBVIOUS
    <3> QED
      BY <1>1, <2>2, <3>1, RequestsHeldSend
  <2> QED
    BY <2>1, <2>2, ProbeEffect
    DEF ReadRecord, Changed, Conflict, Reconcile, StartSync
<1> QED
  BY <1>1, <1>3, <1>4, HeldFrame

\* What is read from the queue is the account's, and none of it is claimed unless it is
\* going to be guarded.
LEMMA ReadQueueHeld ==
  ASSUME Inv, SingleTab, Together, Isolation, NEW t \in Tabs, ReadQueue(t)
  PROVE  Isolation'
<1> DEFINE a == session[t].subject
<1>1. /\ UNCHANGED <<service, owner, generation, record, home, adopted>>
      /\ session[t].pc = "read"
  BY DEF ReadQueue, account, history
<1>2. /\ SessionRecord(t) /\ EventsHeld /\ a \in Subjects
  BY <1>1, HeldFacts, TogetherFacts
<1>3. /\ QueueOf(t) \subseteq Events
      /\ \A e \in QueueOf(t) : owner[e] = a
  BY <1>1, QueueType DEF Unsynced, OwnedBy
<1>4. \A e \in QueueOf(t) : HeldBy(e, a)
  BY <1>2, <1>3 DEF EventsHeld, HeldBy
<1>5. CASE session'[t].pc \in {"idle", "reconcile"} /\ UNCHANGED requests
  <2>1. RequestsHeld'
    BY <1>1, <1>5, RequestsHeldOn
  <2>2. SessionHeld(t)'
    BY <1>5, QuietHeld
  <2> QED
    BY <1>1, <2>1, <2>2, HeldFrame
<1>6. ASSUME /\ Moves(t, {"pc", "probing", "sent", "generation", "first"})
             /\ session'[t].sent = QueueOf(t),
             \/ session'[t].pc = "attempt" /\ UNCHANGED requests
             \/ /\ session[t].use # "guarded" \/ QueueOf(t) = {}
                /\ session'[t].pc = "wait" /\ Send(t, QueueOf(t), FALSE)
      PROVE  Isolation'
  <2>1. CASE session'[t].pc = "attempt" /\ UNCHANGED requests
    <3>1. RequestsHeld'
      BY <1>1, <2>1, RequestsHeldOn
    <3>2. session'[t].subject = a
      BY <1>6 DEF Moves, Changes, Fields, Idle
    <3>3. SessionHeld(t)'
      BY <1>1, <1>3, <1>6, <2>1, <3>2 DEF SessionHeld
    <3> QED
      BY <1>1, <3>1, <3>3, HeldFrame
  <2>2. CASE /\ session[t].use # "guarded" \/ QueueOf(t) = {}
             /\ session'[t].pc = "wait" /\ Send(t, QueueOf(t), FALSE)
    <3>1. QueueOf(t) \cap record[a].claimed = {}
      <4>1. session[t].use # "guarded" => record[a] = NoRecord
        BY <1>1, <1>2 DEF SessionRecord, Started, Phases
      <4> QED
        BY <2>2, <4>1 DEF NoRecord
    <3>2. RequestsHeld'
      BY <1>1, <1>4, <2>2, <3>1, RequestsHeldSend
    <3>3. SessionHeld(t)'
      BY <2>2, QuietHeld
    <3> QED
      BY <1>1, <3>2, <3>3, HeldFrame
  <2> QED
    BY <1>6, <2>1, <2>2
<1>7. Finish(t) => session'[t].pc \in {"idle", "reconcile"}
  BY FinishEffect DEF Ends, Idle
<1>8. Ends(t) => session'[t].pc = "idle"
  BY DEF Ends, Idle
<1> QED
  BY <1>5, <1>6, <1>7, <1>8, ReadQueueEffect

\* The choice to keep them separate, the beginning of an edit or of a deletion, and a
\* tab that leaves its session.
LEMMA LeavingHeld ==
  ASSUME Inv, SingleTab, Isolation, NEW t \in Tabs,
         \/ KeepSeparate(t) \/ BeginAdd(t) \/ BeginDelete(t) \/ SendDelete(t)
         \/ SignOut(t) \/ Reload(t) \/ Timeout(t)
         \/ \E s \in Subjects : SignIn(t, s)
  PROVE  Isolation'
<1>1. UNCHANGED <<service, owner, generation, record, home, adopted>>
  BY DEF KeepSeparate, BeginAdd, BeginDelete, SendDelete, SignOut, Reload, Timeout, SignIn,
         account, history
<1>2. SessionHeld(t) /\ TabType /\ LockType
  BY HeldFacts, TabFacts
<1>3. \/ session'[t] = Idle \/ UNCHANGED session
      \/ DOMAIN session'[t] = Fields /\ Changes(t, {"aborted"})
  <2>1. CASE SignOut(t) \/ BeginDelete(t)
    <3>1. session' = [session EXCEPT ![t] =
             IF @.pc \in {"idle", "wait"} THEN Idle ELSE [@ EXCEPT !.aborted = TRUE]]
      BY <2>1 DEF SignOut, BeginDelete
    <3> QED
      BY <3>1, AbortEffect
  <2>2. CASE Reload(t) \/ \E s \in Subjects : SignIn(t, s)
    BY <1>2, <2>2 DEF Reload, SignIn, TabType
  <2>3. CASE Timeout(t)
    BY <1>2, <2>3, EndEffect DEF Timeout
  <2>4. CASE KeepSeparate(t) \/ BeginAdd(t) \/ SendDelete(t)
    BY <2>4 DEF KeepSeparate, BeginAdd, SendDelete
  <2> QED
    BY <2>1, <2>2, <2>3, <2>4
<1>4. SessionHeld(t)'
  <2>1. Idle.pc = "idle"
    BY DEF Idle
  <2> QED
    BY <1>1, <1>2, <1>3, <2>1, AbortedHeld, QuietHeld
<1>5. RequestsHeld'
  <2>1. CASE requests' = requests \/ requests' = Abandoned(t)
    BY <1>1, <2>1, RequestsHeldOn
  <2>2. CASE SendDelete(t)
    <3>1. PICK new : /\ new = [kind |-> "delete", tab |-> t, subject |-> subject[t]]
                     /\ requests' = requests \cup {new}
      BY <2>2 DEF SendDelete
    <3>2. ~Pending(new)
      BY <3>1 DEF Pending
    <3>3. \A r \in requests' : RequestHeld(r)
      BY <3>1, <3>2 DEF RequestHeld, Isolation, RequestsHeld
    <3> QED
      BY <1>1, <3>3, RequestHeldFrame DEF RequestsHeld, RequestHeld
  <2> QED
    BY <2>1, <2>2
    DEF KeepSeparate, BeginAdd, BeginDelete, SignOut, Reload, Timeout, SignIn, Forgotten
<1> QED
  BY <1>1, <1>4, <1>5, HeldFrame

\* The parts make the invariant.
LEMMA HeldStep ==
  ASSUME SingleTab, NEW t \in Tabs, EventsHeld', LogsOK',
         \A r \in requests' : RequestHeld(r)', SessionHeld(t)'
  PROVE  Isolation'
<1>1. RequestsHeld'
  BY DEF RequestsHeld, RequestHeld
<1>2. \A u \in Tabs : u = t
  BY DEF SingleTab
<1> QED
  BY <1>1, <1>2 DEF Isolation

\* The parts of the invariant, for a request.
LEMMA RequestFacts ==
  ASSUME Inv, Isolation, NEW r \in requests
  PROVE  /\ RequestHeld(r) /\ RequestInv(r)
         /\ r.subject \in Subjects /\ epoch[r.subject] \in Nat
         /\ generation[r.subject] \in Nat /\ log[r.subject] \in SUBSET All
  BY DEF Inv, RequestInv, ServiceType, Issued, Isolation, RequestsHeld, RequestHeld

\* A guarded batch that may still arrive is in the account's generation.
LEMMA PendingIsNow ==
  ASSUME Inv, Together, Isolation, NEW r \in requests, Pending(r)
  PROVE  generation[r.subject] = epoch[r.subject]
<1>1. r.kind = "sync" /\ r.generation = epoch[r.subject]
  BY DEF Pending
<1>2. r.generation <= generation[r.subject]
  BY <1>1 DEF Together, Behind
<1>3. r.subject \in Subjects /\ epoch[r.subject] \in Nat /\ generation[r.subject] \in Nat
  BY RequestFacts
<1>4. generation[r.subject] <= epoch[r.subject]
  BY <1>3 DEF Together, AccountInv
<1> QED
  BY <1>1, <1>2, <1>3, <1>4

\* Only what the records say changes.
LEMMA RecordHeld ==
  ASSUME Inv, Isolation, UNCHANGED <<service, owner, home, adopted, generation>>,
         \A s \in Subjects :
           /\ record'[s].claimed \subseteq record[s].claimed
           /\ \/ record'[s].claimed = {} \/ Untouched(s)
              \/ record'[s].attempted = record[s].attempted,
         \A r \in requests : Pending(r) /\ r.guarded =>
           /\ record'[r.subject] # NoRecord
           /\ record'[r.subject].attempted = record[r.subject].attempted
  PROVE  EventsHeld' /\ LogsOK' /\ \A r \in requests : RequestHeld(r)'
<1>1. epoch' = epoch /\ log' = log
  BY DEF service
<1>2. \A e, s : (Mine(e, s)' <=> Mine(e, s)) /\ (HeldBy(e, s)' <=> HeldBy(e, s))
  BY DEF HeldBy, Mine
<1>3. EventsHeld'
  BY <1>1, <1>2 DEF Isolation, EventsHeld
<1>4. LogsOK'
  <2>1. ASSUME NEW s \in Subjects
        PROVE  \/ Untouched(s)'
               \/ record'[s].attempted # {} /\ record'[s].attempted \subseteq log'[s]
    BY <1>1 DEF Isolation, LogsOK, Untouched
  <2> QED
    BY <1>1, <2>1 DEF Isolation, LogsOK
<1>5. ASSUME NEW r \in requests PROVE RequestHeld(r)'
  <2>1. RequestHeld(r) /\ r.subject \in Subjects
    BY RequestFacts
  <2>2. Pending(r)' <=> Pending(r)
    BY <1>1 DEF Pending
  <2> QED
    BY <1>2, <2>1, <2>2 DEF RequestHeld
<1> QED
  BY <1>3, <1>4, <1>5

\* The batch that was tried is noted before it is sent.
LEMMA AttemptHeld ==
  ASSUME Inv, SingleTab, Together, Isolation, NEW t \in Tabs, Attempt(t)
  PROVE  Isolation'
<1>0. PICK a \in Subjects : a = session[t].subject
  BY TogetherFacts DEF Attempt
<1> DEFINE noted == [record EXCEPT ![a].attempted = session[t].sent]
<1>1. /\ session[t].pc = "attempt"
      /\ UNCHANGED <<service, owner, generation, home, adopted>>
  BY DEF Attempt, history
<1>2. /\ SessionHeld(t) /\ EventsHeld /\ LogsOK /\ record \in [Subjects -> Records]
      /\ session[t].sent # {} /\ session[t].sent \subseteq Events
  BY <1>1, HeldFacts DEF Inv, TabInv, SessionFlow, SessionType
<1>3. \/ Ends(t) /\ UNCHANGED requests
         /\ (record' = record \/ (record[a] # NoRecord /\ Unchanged(t) /\ record' = noted))
      \/ /\ session'[t].pc = "wait"
         /\ record[a] # NoRecord /\ Unchanged(t) /\ record' = noted
         /\ Send(t, session[t].sent, TRUE)
  BY <1>0, AttemptEffect
<1>4. record' = noted => /\ record'[a].claimed = record[a].claimed
                         /\ record'[a].attempted = session[t].sent
                         /\ \A s \in Subjects \ {a} : record'[s] = record[s]
  BY <1>2 DEF Records
<1>5. record' # record => record[a].attempted \in {{}, session[t].sent}
  BY <1>0, <1>3 DEF Unchanged
<1>6. EventsHeld' /\ LogsOK' /\ \A r \in requests : RequestHeld(r)'
  <2>1. ASSUME NEW s \in Subjects
        PROVE  /\ record'[s].claimed \subseteq record[s].claimed
               /\ Untouched(s) \/ record'[s].attempted = record[s].attempted
    <3>1. Untouched(s) \/ record[s].attempted # {}
      BY <1>2 DEF LogsOK
    <3> QED
      BY <1>3, <1>4, <1>5, <3>1
  <2>2. ASSUME NEW r \in requests, Pending(r), r.guarded
        PROVE  /\ record'[r.subject] # NoRecord
               /\ record'[r.subject].attempted = record[r.subject].attempted
    <3>1. /\ r.subject \in Subjects /\ r.ops # {}
          /\ record[r.subject] # NoRecord /\ r.ops = record[r.subject].attempted
      BY <2>2, RequestFacts DEF RequestHeld, RequestInv, Pending
    <3>2. record'[r.subject].attempted = record[r.subject].attempted
      BY <1>3, <1>4, <1>5, <3>1
    <3> QED
      BY <3>1, <3>2 DEF NoRecord
  <2> QED
    BY <1>1, <2>1, <2>2, RecordHeld
<1>7. session'[t].pc \in {"idle", "wait"}
  BY <1>3, EndsIdle
<1>8. ASSUME NEW r \in requests' PROVE RequestHeld(r)'
  <2>1. CASE r \in requests
    BY <1>6, <2>1
  <2>2. CASE r \notin requests
    <3>1. PICK new : new = [kind |-> "sync", tab |-> t, subject |-> a,
                            ops |-> session[t].sent, generation |-> session'[t].generation,
                            guarded |-> TRUE]
      OBVIOUS
    <3>2. /\ r = new /\ record' = noted
      BY <1>0, <1>3, <1>8, <2>2, <3>1 DEF Send
    <3>3. r.subject = a /\ r.ops = session[t].sent /\ r.guarded = TRUE
      BY <3>1, <3>2
    <3>4. record'[a].attempted = session[t].sent /\ record'[a] # NoRecord
      BY <1>2, <1>4, <3>2 DEF NoRecord
    <3>5. \A e \in session[t].sent : owner[e] = a /\ Mine(e, a)
      BY <1>0, <1>1, <1>2 DEF SessionHeld, EventsHeld
    <3>6. \A e \in session[t].sent : HeldBy(e, a)'
      BY <1>1, <3>5 DEF HeldBy, Mine
    <3> QED
      BY <3>3, <3>4, <3>6 DEF RequestHeld
  <2> QED
    BY <2>1, <2>2
<1> QED
  BY <1>6, <1>7, <1>8, QuietHeld, HeldStep

\* A record that is complete has its batch in the log: no guarded request may arrive.
LEMMA CompleteHeld ==
  ASSUME Inv, SingleTab, Together, Isolation, NEW t \in Tabs, Complete(t)
  PROVE  Isolation'
<1>0. PICK a \in Subjects : a = session[t].subject
  BY TogetherFacts DEF Complete
<1>1. /\ session[t].pc = "complete"
      /\ UNCHANGED <<service, owner, generation, home, adopted, requests>>
  BY DEF Complete, history
<1>2. SessionHeld(t) /\ record \in [Subjects -> Records]
  BY HeldFacts
<1>3. \/ session'[t].pc = "idle" /\ UNCHANGED record
      \/ session'[t].pc = "read" /\ record' = [record EXCEPT ![a] = NoRecord]
  BY <1>0, CompleteEffect, EndsIdle
<1>4. \/ UNCHANGED record
      \/ record'[a] = NoRecord /\ \A s \in Subjects \ {a} : record'[s] = record[s]
  BY <1>2, <1>3
<1>5. EventsHeld' /\ LogsOK' /\ \A r \in requests : RequestHeld(r)'
  <2>1. \A s \in Subjects : record'[s].claimed = {} \/ record'[s] = record[s]
    BY <1>4 DEF NoRecord
  <2>2. ASSUME NEW r \in requests, Pending(r), r.guarded
        PROVE  record'[r.subject] = record[r.subject] /\ record[r.subject] # NoRecord
    <3>1. /\ r.subject \in Subjects /\ record[r.subject] # NoRecord
          /\ log[r.subject] = {} /\ generation[r.subject] = epoch[r.subject]
      BY <2>2, RequestFacts, PendingIsNow DEF RequestHeld, Pending
    <3>2. r.subject # a
      BY <1>0, <1>1, <1>2, <3>1 DEF SessionHeld
    <3> QED
      BY <1>4, <3>1, <3>2
  <2>3. \A s \in Subjects :
          /\ record'[s].claimed \subseteq record[s].claimed
          /\ record'[s].claimed = {} \/ record'[s].attempted = record[s].attempted
    BY <2>1
  <2> QED
    BY <1>1, <2>2, <2>3, RecordHeld
<1> QED
  BY <1>1, <1>3, <1>5, QuietHeld, HeldStep

\* A response gives the account what its log holds.
LEMMA RecordedHeld ==
  ASSUME Inv, Together, Isolation, NEW t \in Tabs, session[t].pc = "apply", ~Fenced(t),
         \/ Recorded(t) /\ ~Collides(t)
         \/ /\ UNCHANGED owner
            /\ generation' \in {generation,
                 [generation EXCEPT ![session[t].subject] = session[t].reply]},
         UNCHANGED <<service, record, home, adopted, requests>>
  PROVE  EventsHeld' /\ LogsOK' /\ \A r \in requests' : RequestHeld(r)'
<1>0. PICK a \in Subjects : a = session[t].subject
  BY TogetherFacts
<1>1. /\ SessionEpoch(t) /\ SessionHeld(t) /\ EventsHeld /\ LogsOK /\ RequestsHeld
      /\ owner \in [All -> Domains \cup {Unborn, Gone}]
      /\ generation[a] \in Nat /\ epoch[a] \in Nat
      /\ generation \in [Subjects -> Issued]
  BY <1>0, HeldFacts, TogetherFacts DEF Inv, ServiceType
<1>2. /\ session[t].reply \in Nat /\ session[t].rows \subseteq All
      /\ log \in [Subjects -> SUBSET All]
  BY DEF Inv, TabInv, SessionType, Issued, ServiceType
<1>3. epoch' = epoch /\ log' = log
  BY DEF service
<1>4. generation[a] <= session[t].reply
  BY <1>0, <1>1, <1>2 DEF SessionEpoch, Fenced, Unknown
<1>5. \A s \in Subjects : generation'[s] \in Nat /\ generation[s] <= generation'[s]
  <2>1. generation' \in {generation, [generation EXCEPT ![a] = session[t].reply]}
    BY <1>0 DEF Recorded
  <2>2. \A s \in Subjects : generation[s] \in Nat
    BY <1>1 DEF Issued, Inv, ServiceType
  <2> QED
    BY <1>1, <1>2, <1>4, <2>1, <2>2
<1>6. \A e \in All : \/ owner'[e] = owner[e]
                     \/ /\ e \in session[t].rows /\ owner'[e] = a
                        /\ owner[e] \in {Unborn, Gone, a}
  BY <1>0 DEF Recorded, Collides
<1>7. \A e \in session[t].rows \cap Events : Mine(e, a)
  BY <1>0, <1>1 DEF SessionHeld, HeldBy
<1>8. \A e, s : Mine(e, s)' <=> Mine(e, s)
  BY DEF Mine
<1>9. Events \subseteq All
  BY DEF All
<1>10. ASSUME NEW e \in Events, NEW s \in Subjects, HeldBy(e, s) PROVE HeldBy(e, s)'
  <2>1. Mine(e, s) /\ owner[e] \in {s, Gone}
    BY <1>10 DEF HeldBy
  <2>2. owner'[e] \in {s, Gone}
    BY <1>6, <1>7, <1>9, <2>1, MineOnce
  <2> QED
    BY <1>8, <2>1, <2>2 DEF HeldBy
<1>11. EventsHeld'
  <2>1. ASSUME NEW e \in Events
        PROVE  /\ owner'[e] \in Subjects => Mine(e, owner'[e])
               /\ owner'[e] = Anonymous => home[e] = Anonymous
    BY <1>1, <1>6, <1>7, <1>9, Names DEF EventsHeld
  <2>2. ASSUME NEW s \in Subjects, NEW e \in log[s] \cap Events PROVE HeldBy(e, s)'
    BY <1>1, <1>10 DEF EventsHeld
  <2>3. ASSUME NEW e \in Events, owner'[e] \in Subjects PROVE Mine(e, owner[e])'
    BY <2>1, <2>3 DEF Mine
  <2> QED
    BY <1>1, <1>3, <2>1, <2>2, <2>3 DEF EventsHeld
<1>12. LogsOK'
  <2>1. ASSUME NEW s \in Subjects, generation'[s] < epoch[s] PROVE log[s] \cap Events = {}
    <3>1. generation[s] \in Nat /\ generation'[s] \in Nat /\ epoch[s] \in Nat
      BY <1>5 DEF Inv, ServiceType, Issued
    <3>2. generation[s] < epoch[s]
      BY <1>5, <2>1, <3>1
    <3> QED
      BY <1>1, <3>2 DEF LogsOK
  <2> QED
    BY <1>1, <1>3, <2>1 DEF LogsOK, Untouched
<1>13. ASSUME NEW r \in requests PROVE RequestHeld(r)'
  <2>1. RequestHeld(r) /\ RequestInv(r) /\ r.subject \in Subjects
    BY <1>13, RequestFacts
  <2>2. Pending(r)' <=> Pending(r)
    BY <1>3 DEF Pending
  <2>3. r.kind = "sync" => r.ops \subseteq Events
    BY <2>1 DEF RequestInv
  <2>4. Pending(r) => \A e \in r.ops : HeldBy(e, r.subject)'
    BY <1>10, <2>1, <2>3 DEF RequestHeld, Pending
  <2> QED
    BY <2>1, <2>2, <2>4 DEF RequestHeld
<1> QED
  BY <1>11, <1>12, <1>13

\* What a response says of the batch decides what the log holds of it.
LEMMA ApplyHeld ==
  ASSUME Inv, SingleTab, Together, Isolation, NEW t \in Tabs,
         Apply(t) \/ CannotApply(t)
  PROVE  Isolation'
<1>0. PICK a \in Subjects : a = session[t].subject
  BY TogetherFacts DEF Apply, CannotApply
<1>1. /\ session[t].pc = "apply" /\ ~Fenced(t)
      /\ \/ Recorded(t) /\ ~Collides(t)
         \/ /\ UNCHANGED owner
            /\ generation' \in {generation, [generation EXCEPT ![a] = session[t].reply]}
      /\ UNCHANGED <<service, record, home, adopted, requests>>
  BY <1>0 DEF Apply, CannotApply, Collides, history
<1>2. EventsHeld' /\ LogsOK' /\ \A r \in requests' : RequestHeld(r)'
  BY <1>0, <1>1, RecordedHeld
<1>3. /\ SessionEpoch(t) /\ SessionRecord(t) /\ SessionHeld(t) /\ SessionFlow(session[t])
      /\ generation \in [Subjects -> Issued]
  BY TogetherFacts, HeldFacts DEF Inv, TabInv, ServiceType
<1>4. epoch' = epoch /\ log' = log
  BY <1>1 DEF service
<1>5. /\ session[t].sent \subseteq session[t].rows
      /\ session[t].reply = epoch[a] => session[t].rows \subseteq log[a]
      /\ session[t].probing =>
           record[a] = session[t].claim /\ session[t].claim.attempted # {}
  BY <1>0, <1>1, <1>3 DEF SessionEpoch, SessionRecord, SessionFlow, Current
<1>6. CASE CannotApply(t)
  <2>1. session'[t].pc = "idle"
    BY <1>6, TabFacts, EndEffect DEF CannotApply, Idle
  <2> QED
    BY <1>2, <2>1, QuietHeld, HeldStep
<1>7. CASE Apply(t)
  <2>1. generation'[a] = session[t].reply
    BY <1>0, <1>3, <1>7 DEF Apply, Recorded
  <2>2. CASE session'[t].pc \in {"idle", "read"}
    BY <1>2, <2>2, QuietHeld, HeldStep
  <2>3. CASE /\ ~session[t].probing /\ session[t].sent # {}
             /\ session'[t].pc = "complete" /\ session'[t].subject = a
    <3>1. epoch[a] = generation'[a] => log[a] # {}
      BY <1>5, <2>1, <2>3
    <3>2. SessionHeld(t)'
      BY <1>4, <2>3, <3>1 DEF SessionHeld
    <3> QED
      BY <1>2, <3>2, HeldStep
  <2>4. CASE /\ session[t].probing /\ Verdict(t) = "accepted"
             /\ session'[t].pc = "complete" /\ session'[t].subject = a
    <3>1. session[t].claim.attempted \subseteq session[t].rows
      BY <2>4 DEF Verdict
    <3>2. epoch[a] = generation'[a] => log[a] # {}
      BY <1>5, <2>1, <2>4, <3>1
    <3>3. SessionHeld(t)'
      BY <1>4, <2>4, <3>2 DEF SessionHeld
    <3> QED
      BY <1>2, <3>3, HeldStep
  <2>5. CASE /\ session[t].probing /\ Verdict(t) = "conflict"
             /\ session'[t].pc = "restore" /\ session'[t].subject = a
    <3>1. /\ session[t].claim.attempted \cap session[t].rows = {}
          /\ session[t].rows # {}
      BY <2>5 DEF Verdict
    <3>2. epoch[a] = generation'[a] => log[a] # {} /\ Untouched(a)
      BY <1>0, <1>1, <1>3, <1>5, <2>1, <2>5, <3>1 DEF SessionHeld
    <3>3. SessionHeld(t)'
      BY <1>1, <1>4, <2>5, <3>2 DEF SessionHeld, Untouched
    <3> QED
      BY <1>2, <3>3, HeldStep
  <2>6. /\ Moves(t, {"pc", "generation"}) => session'[t].subject = a
        /\ Moves(t, {"pc", "next", "cause"}) => session'[t].subject = a
        /\ Moves(t, {"pc", "first"}) => session'[t].subject = a
    BY <1>0 DEF Moves, Changes, Fields, Idle
  <2> QED
    BY <1>7, <2>2, <2>3, <2>4, <2>5, <2>6, ApplyEffect, EndsIdle
<1> QED
  BY <1>6, <1>7

\* What is returned to the device was not in the log, and cannot arrive there.
LEMMA ReturnedHeld ==
  ASSUME Inv, Together, Isolation, NEW a \in Subjects, NEW claimed, Returned(a, claimed),
         record[a] # NoRecord => claimed = record[a].claimed,
         generation[a] = epoch[a] => log[a] # {} /\ Untouched(a),
         UNCHANGED <<service, generation, home, requests>>
  PROVE  EventsHeld' /\ LogsOK' /\ \A r \in requests' : RequestHeld(r)'
<1>1. /\ EventsHeld /\ LogsOK /\ owner \in [All -> Domains \cup {Unborn, Gone}]
      /\ record \in [Subjects -> Records] /\ AccountInv(a)
      /\ generation[a] \in Nat /\ epoch[a] \in Nat /\ DOMAIN adopted = All
  BY DEF Isolation, Inv, StoreType, ServiceType, Issued, Together
<1>2. epoch' = epoch /\ log' = log
  BY DEF service
<1>3. CASE record[a] = NoRecord
  <2>1. UNCHANGED <<owner, record, adopted>>
    BY <1>3 DEF Returned
  <2>2. \A s \in Subjects : record'[s] = record[s]
    BY <2>1
  <2>3. ASSUME NEW r \in requests, Pending(r), r.guarded
        PROVE  record'[r.subject] # NoRecord
    BY <2>1, <2>3, RequestFacts DEF RequestHeld
  <2> QED
    BY <2>1, <2>2, <2>3, RecordHeld
<1>4. CASE record[a] # NoRecord
  <2> DEFINE back == record[a].claimed \cap OwnedBy(a)
  <2>1. /\ owner' = [e \in All |-> IF e \in back THEN Anonymous ELSE owner[e]]
        /\ record' = [record EXCEPT ![a] = NoRecord]
        /\ adopted' = [e \in All |-> IF e \in back THEN NotAdopted ELSE adopted[e]]
    BY <1>4 DEF Returned
  <2>2. /\ \A e \in back : owner'[e] = Anonymous /\ owner[e] = a /\ e \in All
        /\ \A e \in All \ back : owner'[e] = owner[e] /\ adopted'[e] = adopted[e]
        /\ record'[a] = NoRecord /\ \A s \in Subjects \ {a} : record'[s] = record[s]
    BY <1>1, <2>1 DEF OwnedBy
  <2>3. record[a].claimed \subseteq Events /\ Events \subseteq All
    BY <1>1 DEF Records, All
  <2>4. log[a] \cap back = {}
    <3>1. CASE generation[a] = epoch[a]
      BY <3>1 DEF Untouched
    <3>2. CASE generation[a] # epoch[a]
      <4>1. generation[a] < epoch[a]
        BY <1>1, <3>2 DEF AccountInv
      <4> QED
        BY <1>1, <2>3, <4>1 DEF LogsOK
    <3> QED
      BY <3>1, <3>2
  <2>5. \A e \in All \ back : \A s : Mine(e, s)' <=> Mine(e, s)
    BY <2>2 DEF Mine
  <2>6. ASSUME NEW e \in Events, NEW s \in Subjects, HeldBy(e, s), e \notin back \/ s # a
        PROVE  HeldBy(e, s)'
    <3>1. e \notin back
      BY <1>1, <2>2, <2>6, Names DEF HeldBy
    <3> QED
      BY <2>2, <2>3, <2>5, <2>6, <3>1 DEF HeldBy
  <2>7. EventsHeld'
    <3>1. ASSUME NEW e \in Events
          PROVE  /\ owner'[e] \in Subjects => Mine(e, owner[e])'
                 /\ owner'[e] = Anonymous => home'[e] = Anonymous
      <4>1. CASE e \in back
        BY <1>1, <2>2, <4>1, Names DEF EventsHeld
      <4>2. CASE e \notin back
        <5>1. owner'[e] = owner[e] /\ adopted'[e] = adopted[e]
          BY <2>2, <2>3, <4>2
        <5> QED
          BY <1>1, <5>1 DEF EventsHeld, Mine
      <4> QED
        BY <4>1, <4>2
    <3>2. ASSUME NEW s \in Subjects, NEW e \in log[s] \cap Events PROVE HeldBy(e, s)'
      <4>1. HeldBy(e, s)
        BY <1>1 DEF EventsHeld
      <4> QED
        BY <2>4, <2>6, <4>1
    <3>3. ASSUME NEW s \in Subjects, NEW e \in record'[s].claimed PROVE home[e] = Anonymous
      BY <1>1, <2>2 DEF EventsHeld, NoRecord
    <3> QED
      BY <1>2, <3>1, <3>2, <3>3 DEF EventsHeld
  <2>8. LogsOK'
    <3>1. ASSUME NEW s \in Subjects
          PROVE  \/ Untouched(s)'
                 \/ record'[s].attempted # {} /\ record'[s].attempted \subseteq log'[s]
      BY <1>1, <1>2, <2>2 DEF LogsOK, Untouched, NoRecord
    <3> QED
      BY <1>1, <1>2, <3>1 DEF LogsOK
  <2>9. ASSUME NEW r \in requests PROVE RequestHeld(r)'
    <3>1. /\ RequestHeld(r) /\ RequestInv(r) /\ r.subject \in Subjects
          /\ Pending(r)' <=> Pending(r)
      BY <1>2, RequestFacts DEF Pending
    <3>2. CASE Pending(r) /\ r.subject = a
      <4>1. generation[a] = epoch[a]
        BY <3>2, PendingIsNow
      <4>2. log[a] # {} /\ r.kind = "sync"
        BY <3>2, <4>1 DEF Pending
      <4>3. ~r.guarded
        BY <3>2, <4>2 DEF Pending
      <4>4. r.ops \subseteq Events /\ r.ops \cap back = {}
        BY <3>1, <3>2, <4>2, <4>3 DEF RequestHeld, RequestInv
      <4>5. \A e \in r.ops : HeldBy(e, a)'
        BY <2>6, <3>1, <3>2, <4>4 DEF RequestHeld
      <4> QED
        BY <2>2, <3>2, <4>3, <4>5 DEF RequestHeld, NoRecord
    <3>3. CASE Pending(r) /\ r.subject # a
      <4>1. r.ops \subseteq Events
        BY <3>1, <3>3 DEF RequestInv, Pending
      <4>2. \A e \in r.ops : HeldBy(e, r.subject)'
        BY <2>6, <3>1, <3>3, <4>1 DEF RequestHeld
      <4> QED
        BY <2>2, <3>1, <3>3, <4>2 DEF RequestHeld
    <3>4. CASE ~Pending(r)
      BY <3>1, <3>4 DEF RequestHeld
    <3> QED
      BY <3>2, <3>3, <3>4
  <2> QED
    BY <2>7, <2>8, <2>9
<1> QED
  BY <1>3, <1>4

\* An account without a record is cleared: what it had made is gone.
LEMMA ClearedHeld ==
  ASSUME Inv, Together, Isolation, NEW a \in Subjects, NEW next \in Nat, Cleared(a, next),
         generation[a] < next, record[a] = NoRecord,
         UNCHANGED <<service, home, adopted, requests>>
  PROVE  EventsHeld' /\ LogsOK' /\ \A r \in requests' : RequestHeld(r)'
<1>1. /\ EventsHeld /\ LogsOK /\ owner \in [All -> Domains \cup {Unborn, Gone}]
      /\ record \in [Subjects -> Records] /\ generation \in [Subjects -> Issued]
      /\ \A s \in Subjects : generation[s] \in Nat /\ epoch[s] \in Nat
  BY DEF Isolation, Inv, StoreType, ServiceType, Issued
<1>2. epoch' = epoch /\ log' = log
  BY DEF service
<1>3. /\ \A e \in All : owner'[e] = IF owner[e] = a THEN Gone ELSE owner[e]
      /\ \A s \in Subjects : record'[s] = record[s]
      /\ generation'[a] = next /\ \A s \in Subjects \ {a} : generation'[s] = generation[s]
  BY <1>1 DEF Cleared
<1>4. Events \subseteq All
  BY DEF All
<1>5. \A e, s : Mine(e, s)' <=> Mine(e, s)
  BY DEF Mine
<1>6. ASSUME NEW e \in Events, NEW s \in Subjects, HeldBy(e, s) PROVE HeldBy(e, s)'
  BY <1>3, <1>4, <1>5, <1>6 DEF HeldBy
<1>7. EventsHeld'
  <2>1. ASSUME NEW e \in Events
        PROVE  /\ owner'[e] \in Subjects => Mine(e, owner[e])'
               /\ owner'[e] = Anonymous => home'[e] = Anonymous
    <3>1. owner'[e] = owner[e] \/ owner'[e] = Gone
      BY <1>3, <1>4
    <3> QED
      BY <1>1, <3>1, Names DEF EventsHeld, Mine
  <2> QED
    BY <1>1, <1>2, <1>3, <1>6, <2>1 DEF EventsHeld
<1>8. LogsOK'
  <2>1. ASSUME NEW s \in Subjects, generation'[s] < epoch[s] PROVE log[s] \cap Events = {}
    <3>1. generation[s] < epoch[s]
      BY <1>1, <1>3, <2>1
    <3> QED
      BY <1>1, <3>1 DEF LogsOK
  <2>2. ASSUME NEW s \in Subjects
        PROVE  \/ Untouched(s)'
               \/ record'[s].attempted # {} /\ record'[s].attempted \subseteq log'[s]
    BY <1>1, <1>2, <1>3 DEF LogsOK, Untouched
  <2> QED
    BY <1>2, <2>1, <2>2 DEF LogsOK
<1>9. ASSUME NEW r \in requests PROVE RequestHeld(r)'
  <2>1. /\ RequestHeld(r) /\ RequestInv(r) /\ r.subject \in Subjects
        /\ Pending(r)' <=> Pending(r)
    BY <1>2, RequestFacts DEF Pending
  <2>2. r.kind = "sync" => r.ops \subseteq Events
    BY <2>1 DEF RequestInv
  <2>3. Pending(r) => \A e \in r.ops : HeldBy(e, r.subject)'
    BY <1>6, <2>1, <2>2 DEF RequestHeld, Pending
  <2> QED
    BY <1>3, <2>1, <2>3 DEF RequestHeld
<1> QED
  BY <1>7, <1>8, <1>9

\* What is claimed was made on the device.
LEMMA ClaimedHeld ==
  ASSUME Inv, Together, Isolation, NEW a \in Subjects, NEW merged, Claimed(a, merged),
         UNCHANGED <<service, generation, home, requests>>,
         record[a] = NoRecord,
         \/ record' = record
         \/ record' = [record EXCEPT ![a] = [claimed |-> OwnedBy(Anonymous),
                                             attempted |-> {}]]
  PROVE  EventsHeld' /\ LogsOK' /\ \A r \in requests' : RequestHeld(r)'
<1> DEFINE anonymous == OwnedBy(Anonymous)
<1>1. /\ EventsHeld /\ LogsOK /\ owner \in [All -> Domains \cup {Unborn, Gone}]
      /\ record \in [Subjects -> Records] /\ DOMAIN adopted = All
      /\ \A e \in Others : owner[e] # Anonymous
  BY DEF Isolation, Inv, StoreType
<1>2. epoch' = epoch /\ log' = log
  BY DEF service
<1>3. /\ anonymous \subseteq Events /\ Events \subseteq All
      /\ \A e \in All : e \in anonymous <=> owner[e] = Anonymous
  BY <1>1 DEF OwnedBy, All
<1>4. /\ \A e \in anonymous : owner'[e] = a /\ adopted'[e].by = a
      /\ \A e \in All \ anonymous : owner'[e] = owner[e] /\ adopted'[e] = adopted[e]
  BY <1>3 DEF Claimed
<1>5. ASSUME NEW e \in Events, NEW s \in Subjects, HeldBy(e, s)
      PROVE  HeldBy(e, s)' /\ e \notin anonymous
  <2>1. owner[e] \in {s, Gone}
    BY <1>5 DEF HeldBy
  <2>2. e \notin anonymous
    BY <1>3, <2>1, Names
  <2> QED
    BY <1>3, <1>4, <1>5, <2>2 DEF HeldBy, Mine
<1>6. /\ \A s \in Subjects \ {a} : record'[s] = record[s]
      /\ record'[a].attempted = {} /\ record'[a].claimed \subseteq anonymous
  BY <1>1 DEF NoRecord
<1>7. EventsHeld'
  <2>1. ASSUME NEW e \in Events
        PROVE  /\ owner'[e] \in Subjects => Mine(e, owner[e])'
               /\ owner'[e] = Anonymous => home'[e] = Anonymous
    <3>1. CASE e \in anonymous
      BY <1>1, <1>3, <1>4, <3>1, Names DEF EventsHeld, Mine
    <3>2. CASE e \notin anonymous
      <4>1. owner'[e] = owner[e] /\ adopted'[e] = adopted[e]
        BY <1>3, <1>4, <3>2
      <4> QED
        BY <1>1, <4>1 DEF EventsHeld, Mine
    <3> QED
      BY <3>1, <3>2
  <2>2. ASSUME NEW s \in Subjects, NEW e \in record'[s].claimed PROVE home[e] = Anonymous
    BY <1>1, <1>3, <1>6 DEF EventsHeld
  <2> QED
    BY <1>1, <1>2, <1>5, <2>1, <2>2 DEF EventsHeld
<1>8. log[a] \cap anonymous = {}
  BY <1>1, <1>3, <1>5 DEF EventsHeld
<1>9. LogsOK'
  <2>1. ASSUME NEW s \in Subjects
        PROVE  \/ Untouched(s)'
               \/ record'[s].attempted # {} /\ record'[s].attempted \subseteq log'[s]
    BY <1>1, <1>2, <1>6, <1>8 DEF LogsOK, Untouched
  <2> QED
    BY <1>1, <1>2, <2>1 DEF LogsOK
<1>10. ASSUME NEW r \in requests PROVE RequestHeld(r)'
  <2>1. /\ RequestHeld(r) /\ RequestInv(r) /\ r.subject \in Subjects
        /\ Pending(r)' <=> Pending(r)
    BY <1>2, RequestFacts DEF Pending
  <2>2. r.kind = "sync" => r.ops \subseteq Events
    BY <2>1 DEF RequestInv
  <2>3. Pending(r) => \A e \in r.ops : HeldBy(e, r.subject)' /\ e \notin anonymous
    BY <1>5, <2>1, <2>2 DEF RequestHeld, Pending
  <2> QED
    BY <1>6, <2>1, <2>3 DEF RequestHeld
<1> QED
  BY <1>7, <1>9, <1>10

\* The choice is restored.
LEMMA RestoreHeld ==
  ASSUME Inv, SingleTab, Together, Isolation, NEW t \in Tabs, Restore(t)
  PROVE  Isolation'
<1>0. PICK a \in Subjects : a = session[t].subject
  BY TogetherFacts DEF Restore
<1>1. /\ session[t].pc = "restore"
      /\ UNCHANGED <<service, generation, requests, home>>
  BY DEF Restore
<1>2. /\ SessionHeld(t) /\ SessionEpoch(t)
      /\ session[t].cause \in {"probe", "conflict", "generation"}
      /\ generation[a] \in Nat /\ epoch[a] \in Nat /\ session[t].next \in Nat
  BY <1>0, <1>1, HeldFacts, TogetherFacts
  DEF Inv, TabInv, SessionType, SessionFlow, Causes, Issued, ServiceType
<1>3. generation[a] = epoch[a] => log[a] # {} /\ Untouched(a)
  BY <1>0, <1>1, <1>2 DEF SessionHeld, SessionEpoch
<1>4. session'[t].pc \in {"idle", "replace", "reconcile", "read"}
  <2>1. Resumed[session[t].cause] \in {"replace", "reconcile", "read"}
    BY <1>2 DEF Resumed
  <2>2. session'[t].pc = "idle" \/ session'[t].pc = Resumed[session[t].cause]
    BY RestoreEffect, EndsIdle
  <2> QED
    BY <2>1, <2>2
<1>5. SessionHeld(t)'
  BY <1>4, QuietHeld
<1>6. \/ UNCHANGED <<owner, record, adopted>>
      \/ MayReturn(a, session[t].claim.claimed) /\ Returned(a, session[t].claim.claimed)
  BY <1>0, RestoreEffect
<1>7. CASE UNCHANGED <<owner, record, adopted>>
  <2>1. RequestsHeld'
    BY <1>1, <1>7, RequestsHeldOn
  <2> QED
    BY <1>1, <1>5, <1>7, <2>1, HeldFrame
<1>8. CASE MayReturn(a, session[t].claim.claimed) /\ Returned(a, session[t].claim.claimed)
  <2>1. record[a] # NoRecord => session[t].claim.claimed = record[a].claimed
    BY <1>8 DEF MayReturn
  <2> QED
    BY <1>1, <1>3, <1>5, <1>8, <2>1, ReturnedHeld, HeldStep
<1> QED
  BY <1>6, <1>7, <1>8

\* The account's data gives way.
LEMMA EmptiedHeld ==
  ASSUME Inv, SingleTab, Together, Isolation, NEW t \in Tabs, Replace(t) \/ ClearStale(t)
  PROVE  Isolation'
<1>0. PICK a \in Subjects : a = session[t].subject
  BY TogetherFacts DEF Replace, ClearStale
<1>1. UNCHANGED <<service, requests, home, adopted>>
  BY DEF Replace, ClearStale, history
<1>2. /\ SessionEpoch(t) /\ SessionRecord(t)
      /\ session[t].reply \in Nat /\ session[t].next \in Nat
  BY TogetherFacts DEF Inv, TabInv, SessionType, Issued, ServiceType
<1>3. record[a] = NoRecord
  <2>1. session[t].pc \in {"replace", "clear"} /\ session[t].use # "guarded"
    BY DEF Replace, ClearStale, Inv, TabInv, SessionFlow
  <2> QED
    BY <1>0, <1>2, <2>1 DEF SessionRecord, Started, Phases
<1>4. session'[t].pc \in {"idle", "read"}
  BY ReplaceEffect, ClearStaleEffect, EndsIdle
<1>5. SessionHeld(t)'
  BY <1>4, QuietHeld
<1>6. \/ UNCHANGED account
      \/ Cleared(a, session[t].next) /\ generation[a] < session[t].next
      \/ Cleared(a, session[t].reply) /\ generation[a] < session[t].reply
  <2>1. CASE Replace(t)
    BY <1>0, <1>2, <2>1, ReplaceEffect DEF SessionEpoch, Replace
  <2>2. CASE ClearStale(t)
    BY <1>0, <1>2, <2>2, ClearStaleEffect DEF SessionEpoch, ClearStale
  <2> QED
    BY <2>1, <2>2
<1>7. CASE UNCHANGED account
  <2>1. UNCHANGED <<owner, generation, record>>
    BY <1>7 DEF account
  <2>2. RequestsHeld'
    BY <1>1, <2>1, RequestsHeldOn
  <2> QED
    BY <1>1, <1>5, <2>1, <2>2, HeldFrame
<1>8. ASSUME NEW next \in Nat, Cleared(a, next), generation[a] < next PROVE Isolation'
  <2>1. EventsHeld' /\ LogsOK' /\ \A r \in requests' : RequestHeld(r)'
    BY <1>1, <1>3, <1>8, ClearedHeld
  <2> QED
    BY <1>5, <2>1, HeldStep
<1> QED
  BY <1>2, <1>6, <1>7, <1>8

\* Adoption, in the session or by the user.
LEMMA AdoptHeld ==
  ASSUME Inv, SingleTab, Together, Isolation, NEW t \in Tabs, Claim(t) \/ Merge(t)
  PROVE  Isolation'
<1>1. UNCHANGED <<service, generation, requests, home>>
  BY DEF Claim, Merge
<1>2. CASE Claim(t)
  <2>0. PICK a \in Subjects : a = session[t].subject
    BY <1>2, TogetherFacts DEF Claim
  <2>1. SessionRecord(t) /\ session[t].pc = "claim"
    BY <1>2, TogetherFacts DEF Claim
  <2>2. record[a] = NoRecord
    BY <2>0, <2>1 DEF SessionRecord, Started, Phases
  <2>3. session'[t].pc \in {"idle", "record"}
    BY <1>2, ClaimEffect, EndsIdle
  <2>4. SessionHeld(t)'
    BY <2>3, QuietHeld
  <2>5. CASE UNCHANGED <<owner, record, adopted>>
    <3>1. RequestsHeld'
      BY <1>1, <2>5, RequestsHeldOn
    <3> QED
      BY <1>1, <2>4, <2>5, <3>1, HeldFrame
  <2>6. CASE /\ Claimed(a, FALSE)
             /\ record' = IF OwnedBy(Anonymous) = {} THEN record
                          ELSE [record EXCEPT ![a] = [claimed |-> OwnedBy(Anonymous),
                                                      attempted |-> {}]]
    <3>1. EventsHeld' /\ LogsOK' /\ \A r \in requests' : RequestHeld(r)'
      BY <1>1, <2>2, <2>6, ClaimedHeld
    <3> QED
      BY <2>4, <3>1, HeldStep
  <2> QED
    BY <1>2, <2>0, <2>5, <2>6, ClaimEffect
<1>3. CASE Merge(t)
  <2>1. /\ prompt[t] /\ subject[t] \in Subjects /\ Claimed(subject[t], TRUE)
        /\ session[t].pc = "idle" /\ UNCHANGED <<session, record>>
    BY <1>3, TabFacts DEF Merge, TabType
  <2>2. PICK a \in Subjects : a = subject[t]
    BY <2>1
  <2>3. record[a] = NoRecord
    BY <2>1, <2>2, TogetherFacts, Names DEF SessionRecord
  <2>4. EventsHeld' /\ LogsOK' /\ \A r \in requests' : RequestHeld(r)'
    BY <1>1, <2>1, <2>2, <2>3, ClaimedHeld
  <2>5. SessionHeld(t)'
    BY <2>1, QuietHeld
  <2> QED
    BY <2>4, <2>5, HeldStep
<1> QED
  BY <1>2, <1>3

\* A deletion returns what was claimed, and clears the account.
LEMMA DeletedHeld ==
  ASSUME Inv, SingleTab, Together, Isolation, NEW t \in Tabs,
         ReturnPending(t) \/ ClearDeleted(t)
  PROVE  Isolation'
<1>1. /\ deletion[t].pc \in {"return", "clear"}
      /\ UNCHANGED <<service, requests, home, session>>
  BY DEF ReturnPending, ClearDeleted, history
<1>2. TabInv(t) /\ DeletionRecord(t)
  BY TabFacts, TogetherFacts
<1>3. PICK a \in Subjects : a = subject[t]
  BY <1>1, <1>2 DEF TabInv
<1>4. /\ generation[a] < deletion[t].reply /\ deletion[t].reply <= epoch[a]
      /\ generation[a] \in Nat /\ epoch[a] \in Nat /\ deletion[t].reply \in Nat
  BY <1>1, <1>2, <1>3 DEF DeletionRecord, TabInv, DeletionType, Issued, Inv, ServiceType
<1>5. session'[t].pc = "idle"
  BY <1>1, <1>2 DEF TabInv
<1>6. SessionHeld(t)'
  BY <1>5, QuietHeld
<1>7. CASE ReturnPending(t)
  <2>1. generation[a] # epoch[a] /\ UNCHANGED generation
    BY <1>4, <1>7 DEF ReturnPending
  <2>2. deletion[t].claimed = record[a].claimed
    BY <1>2, <1>3, <1>7 DEF ReturnPending, DeletionRecord
  <2>3. \/ UNCHANGED <<owner, record, adopted>>
        \/ Returned(a, record[a].claimed)
    BY <1>3, <1>7, <2>2 DEF ReturnPending
  <2>4. CASE UNCHANGED <<owner, record, adopted>>
    <3>1. RequestsHeld'
      BY <1>1, <2>4, RequestsHeldOn
    <3> QED
      BY <1>1, <1>6, <2>1, <2>4, <3>1, HeldFrame
  <2>5. CASE Returned(a, record[a].claimed)
    <3>1. EventsHeld' /\ LogsOK' /\ \A r \in requests' : RequestHeld(r)'
      BY <1>1, <2>1, <2>5, ReturnedHeld
    <3> QED
      BY <1>6, <3>1, HeldStep
  <2> QED
    BY <2>3, <2>4, <2>5
<1>8. CASE ClearDeleted(t)
  <2>1. Cleared(a, deletion[t].reply) /\ record[a] = NoRecord /\ UNCHANGED adopted
    BY <1>2, <1>3, <1>8 DEF ClearDeleted, DeletionRecord, history
  <2>2. EventsHeld' /\ LogsOK' /\ \A r \in requests' : RequestHeld(r)'
    BY <1>1, <1>4, <2>1, ClearedHeld
  <2> QED
    BY <1>6, <2>2, HeldStep
<1> QED
  BY <1>7, <1>8

\* An event is made in the domain it belongs to.
LEMMA AddHeld ==
  ASSUME Inv, SingleTab, Together, Isolation, NEW t \in Tabs, Add(t)
  PROVE  Isolation'
<1>1. UNCHANGED <<service, generation, record, adopted, session, requests>>
  BY DEF Add
<1>2. /\ EventsHeld /\ LogsOK /\ SessionHeld(t)
      /\ owner \in [All -> Domains \cup {Unborn, Gone}] /\ record \in [Subjects -> Records]
      /\ home \in [All -> Domains \cup {Unborn}]
      /\ \A s \in Subjects : AccountInv(s)
      /\ session[t].pc # "idle" => session[t].subject \in Subjects
      /\ log \in [Subjects -> SUBSET All]
  BY HeldFacts DEF Inv, StoreType, ServiceType, Together
<1>3. epoch' = epoch /\ log' = log
  BY <1>1 DEF service
<1>4. \A s \in Subjects : s \notin {Unborn, Gone, Anonymous}
  BY Names
<1>5. /\ \A e \in All : \/ owner'[e] = owner[e] /\ home'[e] = home[e]
                        \/ owner[e] = Unborn /\ owner'[e] = home'[e]
      /\ \A e \in All : owner'[e] # owner[e] => owner[e] = Unborn
  <2> DEFINE unborn == {e \in Events : owner[e] = Unborn}
  <2>1. CASE Blocked(t) \/ unborn = {}
    BY <2>1 DEF Add
  <2>2. CASE unborn # {} /\ ~Blocked(t)
    <3>1. unborn \in SUBSET Nat
      BY EnrollmentType
    <3>2. Min(unborn) \in unborn
      BY <2>2, <3>1, MinOfNumbers
    <3>3. /\ owner' = [owner EXCEPT ![Min(unborn)] = adding[t]]
          /\ home' = [home EXCEPT ![Min(unborn)] = adding[t]]
      BY <2>2 DEF Add
    <3> QED
      BY <1>2, <3>2, <3>3
  <2> QED
    BY <2>1, <2>2
<1>6. Events \subseteq All
  BY DEF All
<1>7. ASSUME NEW e \in Events, NEW s \in Subjects, HeldBy(e, s) PROVE HeldBy(e, s)'
  <2>1. owner[e] \in {s, Gone} /\ owner[e] # Unborn
    BY <1>4, <1>7, Names DEF HeldBy
  <2>2. owner'[e] = owner[e] /\ home'[e] = home[e]
    BY <1>5, <1>6, <2>1
  <2> QED
    BY <1>1, <1>7, <2>2 DEF HeldBy, Mine
<1>8. EventsHeld'
  <2>1. ASSUME NEW e \in Events
        PROVE  /\ owner'[e] \in Subjects => Mine(e, owner[e])'
               /\ owner'[e] = Anonymous => home'[e] = Anonymous
    BY <1>1, <1>2, <1>5, <1>6 DEF EventsHeld, Mine
  <2>2. ASSUME NEW s \in Subjects, NEW e \in record[s].claimed PROVE home'[e] = Anonymous
    <3>1. e \in All /\ owner[e] = s
      BY <1>2 DEF AccountInv, OwnedBy
    <3>2. home'[e] = home[e]
      BY <1>4, <1>5, <3>1
    <3> QED
      BY <1>2, <3>2 DEF EventsHeld
  <2> QED
    BY <1>1, <1>2, <1>3, <1>7, <2>1, <2>2 DEF EventsHeld
<1>9. LogsOK'
  BY <1>1, <1>2, <1>3 DEF LogsOK, Untouched
<1>10. ASSUME NEW r \in requests PROVE RequestHeld(r)'
  <2>1. /\ RequestHeld(r) /\ RequestInv(r) /\ r.subject \in Subjects
        /\ Pending(r)' <=> Pending(r)
    BY <1>3, RequestFacts DEF Pending
  <2>2. r.kind = "sync" => r.ops \subseteq Events
    BY <2>1 DEF RequestInv
  <2>3. Pending(r) => \A e \in r.ops : HeldBy(e, r.subject)'
    BY <1>7, <2>1, <2>2 DEF RequestHeld, Pending
  <2> QED
    BY <1>1, <2>1, <2>3 DEF RequestHeld
<1>11. SessionHeld(t)'
  <2>1. CASE session[t].pc = "idle"
    BY <1>1, <2>1, QuietHeld
  <2>2. CASE session[t].pc # "idle"
    <3>0. PICK a \in Subjects : a = session[t].subject
      BY <1>2, <2>2
    <3>1. session[t].pc = "attempt" => \A e \in session[t].sent : owner'[e] = a
      <4>1. session[t].sent \subseteq Events
        BY DEF Inv, TabInv, SessionType
      <4> QED
        BY <1>2, <1>4, <1>5, <1>6, <3>0, <4>1 DEF SessionHeld
    <3>2. session[t].pc = "apply" => \A e \in session[t].rows \cap Events : HeldBy(e, a)'
      BY <1>2, <1>7, <3>0 DEF SessionHeld
    <3>3. Untouched(a)' <=> Untouched(a)
      BY <1>1, <1>3 DEF Untouched
    <3> QED
      BY <1>1, <1>2, <1>3, <3>0, <3>1, <3>2, <3>3 DEF SessionHeld
  <2> QED
    BY <2>1, <2>2
<1> QED
  BY <1>1, <1>8, <1>9, <1>10, <1>11, HeldStep

\* The account is in a generation nobody knows yet and holds nothing of this device, or
\* its log grows by what others made.
Quiet(s) ==
  \/ /\ epoch'[s] = epoch[s] /\ log[s] \subseteq log'[s]
     /\ log'[s] \cap Events = log[s] \cap Events
  \/ issued < epoch'[s] /\ log'[s] \cap Events = {}

\* What others do brings nothing of this device to a log.
LEMMA QuietLogs ==
  ASSUME Inv, Together, Isolation, \A s \in Subjects : Quiet(s),
         UNCHANGED <<owner, generation, record, home, adopted>>, requests' \subseteq requests
  PROVE  EventsHeld' /\ LogsOK' /\ \A r \in requests' : RequestHeld(r)'
<1>1. /\ EventsHeld /\ LogsOK /\ record \in [Subjects -> Records]
      /\ \A s \in Subjects : record[s].claimed \subseteq Events
  BY DEF Isolation, Inv, StoreType, Records
<1>2. \A e, s : HeldBy(e, s)' <=> HeldBy(e, s)
  BY DEF HeldBy, Mine
<1>3. \A s \in Subjects : log'[s] \cap Events \subseteq log[s]
  BY DEF Quiet
<1>4. EventsHeld'
  BY <1>1, <1>2, <1>3 DEF EventsHeld, Mine
<1>5. ASSUME NEW s \in Subjects
      PROVE  /\ generation[s] < epoch'[s] => log'[s] \cap Events = {}
             /\ \/ Untouched(s)'
                \/ record[s].attempted # {} /\ record[s].attempted \subseteq log'[s]
  BY <1>1 DEF LogsOK, Untouched, Quiet
<1>6. LogsOK'
  BY <1>5 DEF LogsOK
<1>7. ASSUME NEW r \in requests PROVE RequestHeld(r)'
  <2>1. RequestHeld(r) /\ RequestInv(r) /\ r.subject \in Subjects /\ issued \in Nat
    BY RequestFacts DEF Inv, ServiceType
  <2>2. r.kind = "sync" => r.generation \in 0..issued
    BY <2>1 DEF RequestInv, Issued
  <2>3. Pending(r)' => Pending(r)
    <3>1. r.kind = "sync" => r.generation # epoch'[r.subject] \/ epoch'[r.subject] = epoch[r.subject]
      BY <2>1, <2>2 DEF Quiet
    <3>2. ASSUME Pending(r)' PROVE Pending(r)
      <4>1. r.kind = "sync" /\ r.generation = epoch'[r.subject]
        BY <3>2 DEF Pending
      <4>2. ~(issued < epoch'[r.subject])
        BY <2>1, <2>2, <4>1
      <4> QED
        BY <2>1, <3>2, <4>1, <4>2 DEF Quiet, Pending
    <3> QED
      BY <3>2
  <2> QED
    BY <1>2, <2>1, <2>3 DEF RequestHeld
<1> QED
  BY <1>4, <1>6, <1>7

\* Nor does it change what a session knows of the log.
LEMMA QuietSession ==
  ASSUME Inv, Isolation, \A s \in Subjects : Quiet(s), NEW t \in Tabs,
         UNCHANGED <<owner, generation, record, home, adopted>>, session'[t] = session[t]
  PROVE  SessionHeld(t)'
<1>1. CASE session[t].pc = "idle"
  BY <1>1, QuietHeld
<1>2. CASE session[t].pc # "idle"
  <2>1. PICK a \in Subjects : a = session[t].subject
    BY <1>2, HeldFacts
  <2>2. /\ SessionHeld(t) /\ Quiet(a) /\ issued \in Nat
        /\ session[t].reply \in 0..issued /\ generation[a] \in 0..issued
        /\ record[a].claimed \subseteq Events
    BY HeldFacts DEF Inv, ServiceType, StoreType, TabInv, SessionType, Issued, Records
  <2>3. \A e, s : HeldBy(e, s)' <=> HeldBy(e, s)
    BY DEF HeldBy, Mine
  <2>4. CASE /\ epoch'[a] = epoch[a] /\ log[a] \subseteq log'[a]
             /\ log'[a] \cap Events = log[a] \cap Events
    <3>1. Untouched(a) => Untouched(a)'
      BY <2>2, <2>4 DEF Untouched
    <3>2. log[a] # {} => log'[a] # {}
      BY <2>4
    <3> QED
      BY <2>1, <2>2, <2>3, <2>4, <3>1, <3>2 DEF SessionHeld
  <2>5. CASE issued < epoch'[a]
    <3>1. session[t].reply # epoch'[a] /\ generation[a] # epoch'[a]
      BY <2>2, <2>5
    <3> QED
      BY <2>1, <2>2, <2>3, <3>1 DEF SessionHeld
  <2> QED
    BY <2>2, <2>4, <2>5 DEF Quiet
<1> QED
  BY <1>1, <1>2

\* What others do.
LEMMA QuietIsHeld ==
  ASSUME Inv, SingleTab, Together, Isolation, \A s \in Subjects : Quiet(s),
         UNCHANGED <<account, home, adopted, session>>, requests' \subseteq requests
  PROVE  Isolation'
<1>1. UNCHANGED <<owner, generation, record, home, adopted>>
  BY DEF account
<1>2. EventsHeld' /\ LogsOK' /\ \A r \in requests' : RequestHeld(r)'
  BY <1>1, QuietLogs
<1>3. \A t \in Tabs : SessionHeld(t)'
  BY <1>1, QuietSession
<1>4. RequestsHeld'
  BY <1>2 DEF RequestsHeld, RequestHeld
<1> QED
  BY <1>2, <1>3, <1>4 DEF Isolation

\* Deletions, here and elsewhere, and what other devices write.
LEMMA OthersHeld ==
  ASSUME Inv, SingleTab, Together, Isolation,
         \/ \E r \in requests : ServeDelete(r) \/ Lose(r)
         \/ \E s \in Subjects : OtherDeletes(s) \/ \E e \in Others : OtherWrites(s, e)
  PROVE  Isolation'
<1>0. /\ log \in [Subjects -> SUBSET All] /\ epoch \in [Subjects -> Issued] /\ issued \in Nat
      /\ \A s \in Subjects : epoch[s] = Unknown => log[s] = {}
      /\ Events \cap Others = {}
  BY EnrollmentType DEF Inv, ServiceType, Together, AccountInv
<1>1. UNCHANGED <<account, home, adopted, session>> /\ requests' \subseteq requests
  BY DEF ServeDelete, Lose, OtherDeletes, OtherWrites, history
<1>2. ASSUME NEW a \in Subjects, issued < issued', epoch' = [epoch EXCEPT ![a] = issued'],
             log' = [log EXCEPT ![a] = {}]
      PROVE  \A s \in Subjects : Quiet(s)
  <2>1. /\ epoch'[a] = issued' /\ log'[a] = {}
        /\ \A s \in Subjects \ {a} : epoch'[s] = epoch[s] /\ log'[s] = log[s]
    BY <1>0, <1>2
  <2> QED
    BY <1>2, <2>1 DEF Quiet
<1>3. ASSUME NEW r \in requests, ServeDelete(r) PROVE \A s \in Subjects : Quiet(s)
  <2>1. r.subject \in Subjects
    BY RequestFacts
  <2>2. issued < issued'
    BY <1>0, <1>3 DEF ServeDelete
  <2> QED
    BY <1>2, <1>3, <2>1, <2>2 DEF ServeDelete
<1>4. ASSUME NEW s \in Subjects, OtherDeletes(s) PROVE \A u \in Subjects : Quiet(u)
  <2>1. issued < issued'
    BY <1>0, <1>4 DEF OtherDeletes
  <2> QED
    BY <1>2, <1>4, <2>1 DEF OtherDeletes
<1>5. ASSUME NEW r \in requests, Lose(r) PROVE \A s \in Subjects : Quiet(s)
  BY <1>5 DEF Lose, service, Quiet
<1>6. ASSUME NEW a \in Subjects, NEW e \in Others, OtherWrites(a, e)
      PROVE  \A s \in Subjects : Quiet(s)
  <2>1. /\ issued' = IF epoch[a] = Unknown THEN issued + 1 ELSE issued
        /\ epoch' = [epoch EXCEPT ![a] = IF @ = Unknown THEN issued' ELSE @]
        /\ log' = [log EXCEPT ![a] = @ \cup {e}]
    BY <1>6 DEF OtherWrites
  <2>2. /\ \A s \in Subjects \ {a} : epoch'[s] = epoch[s] /\ log'[s] = log[s]
        /\ log'[a] = log[a] \cup {e} /\ e \notin Events
        /\ epoch'[a] = IF epoch[a] = Unknown THEN issued' ELSE epoch[a]
    BY <1>0, <2>1
  <2>3. CASE epoch[a] = Unknown
    <3>1. issued < epoch'[a] /\ log'[a] \cap Events = {}
      BY <1>0, <2>1, <2>2, <2>3
    <3> QED
      BY <2>2, <3>1 DEF Quiet
  <2>4. CASE epoch[a] # Unknown
    BY <2>2, <2>4 DEF Quiet
  <2> QED
    BY <2>3, <2>4
<1> QED
  BY <1>1, <1>3, <1>4, <1>5, <1>6, QuietIsHeld

\* A batch that the service adds was held by its account.
LEMMA BatchHeld ==
  ASSUME Inv, Together, Isolation, NEW r \in requests, Pending(r),
         UNCHANGED <<epoch, owner, generation, record, home, adopted>>,
         log' = [log EXCEPT ![r.subject] = @ \cup r.ops], requests' \subseteq requests
  PROVE  /\ EventsHeld' /\ LogsOK' /\ \A q \in requests' : RequestHeld(q)'
         /\ \A t \in Tabs : session'[t] = session[t] => SessionHeld(t)'
<1>0. PICK a \in Subjects : a = r.subject
  BY RequestFacts
<1>1. /\ EventsHeld /\ LogsOK /\ RequestHeld(r) /\ RequestInv(r) /\ r.kind = "sync"
      /\ generation[a] = epoch[a] /\ generation[a] \in Nat
  BY <1>0, RequestFacts, PendingIsNow DEF Isolation, Pending
<1>2. /\ log'[a] = log[a] \cup r.ops /\ \A s \in Subjects \ {a} : log'[s] = log[s]
  BY <1>0 DEF Inv, ServiceType
<1>3. \A e, s : (Mine(e, s)' <=> Mine(e, s)) /\ (HeldBy(e, s)' <=> HeldBy(e, s))
  BY DEF HeldBy, Mine
<1>4. /\ \A e \in r.ops : HeldBy(e, a)
      /\ r.guarded => log[a] = {} /\ r.ops # {} /\ r.ops = record[a].attempted
      /\ ~r.guarded => r.ops \cap record[a].claimed = {}
  BY <1>0, <1>1 DEF RequestHeld, RequestInv, Pending
<1>5. EventsHeld'
  <2>1. \A s \in Subjects : \A e \in log'[s] \cap Events : HeldBy(e, s)
    BY <1>1, <1>2, <1>4 DEF EventsHeld
  <2> QED
    BY <1>1, <1>3, <2>1 DEF EventsHeld
<1>6. LogsOK'
  <2>1. ASSUME NEW s \in Subjects
        PROVE  \/ Untouched(s)'
               \/ record[s].attempted # {} /\ record[s].attempted \subseteq log'[s]
    BY <1>1, <1>2, <1>4 DEF LogsOK, Untouched
  <2>2. ASSUME NEW s \in Subjects, generation[s] < epoch[s] PROVE log'[s] \cap Events = {}
    <3>1. s # a
      BY <1>1, <2>2
    <3> QED
      BY <1>1, <1>2, <2>2, <3>1 DEF LogsOK
  <2> QED
    BY <2>1, <2>2 DEF LogsOK
<1>7. ASSUME NEW q \in requests PROVE RequestHeld(q)'
  <2>1. RequestHeld(q) /\ q.subject \in Subjects
    BY RequestFacts
  <2>2. Pending(q)' => Pending(q)
    BY <1>2, <2>1 DEF Pending
  <2> QED
    BY <1>3, <2>1, <2>2 DEF RequestHeld
<1>8. ASSUME NEW t \in Tabs, session'[t] = session[t] PROVE SessionHeld(t)'
  <2>1. CASE session[t].pc = "idle"
    BY <1>8, <2>1, QuietHeld
  <2>2. CASE session[t].pc # "idle"
    <3>1. PICK b \in Subjects : b = session[t].subject
      BY <2>2, HeldFacts
    <3>2. SessionHeld(t) /\ SessionEpoch(t)
      BY HeldFacts, TogetherFacts
    <3>3. log[b] # {} => log'[b] # {} /\ (Untouched(b) => Untouched(b)')
      BY <1>2, <1>4 DEF Untouched
    <3>4. session[t].pc = "apply" /\ session[t].reply = epoch[b] /\ session[t].rows # {} =>
            log[b] # {}
      BY <3>1, <3>2 DEF SessionEpoch
    <3>5. \/ session[t].pc \notin {"apply", "conflict", "restore", "complete"}
          \/ session[t].pc = "apply" \/ session[t].pc \in {"conflict", "restore"}
          \/ session[t].pc = "complete"
      OBVIOUS
    <3> QED
      BY <1>3, <1>8, <3>1, <3>2, <3>3, <3>4 DEF SessionHeld
  <2> QED
    BY <2>1, <2>2
<1> QED
  BY <1>5, <1>6, <1>7, <1>8

\* An answer gives the tab the log as it is then.
LEMMA AnswerHeld ==
  ASSUME NEW t \in Tabs, EventsHeld', LogsOK', NEW a \in Subjects,
         session'[t].pc = "apply", session'[t].subject = a, session'[t].rows = log'[a]
  PROVE  SessionHeld(t)'
<1>1. \A e \in session'[t].rows \cap Events : HeldBy(e, a)'
  BY DEF EventsHeld
<1>2. \/ Untouched(a)'
      \/ record'[a].attempted # {} /\ record'[a].attempted \subseteq log'[a]
  BY DEF LogsOK
<1> QED
  BY <1>1, <1>2 DEF SessionHeld

\* A request is answered, to its tab or to nobody.
LEMMA ServeHeld ==
  ASSUME Inv, SingleTab, Together, Isolation, NEW r \in requests, Serve(r)
  PROVE  Isolation'
<1>0. PICK a \in Subjects : a = r.subject
  BY RequestFacts
<1>1. /\ r.kind = "sync" /\ requests' \subseteq requests /\ RequestInv(r)
      /\ UNCHANGED <<owner, generation, record, home, adopted>>
      /\ epoch \in [Subjects -> Issued] /\ log \in [Subjects -> SUBSET All] /\ issued \in Nat
      /\ AccountInv(a)
  BY RequestFacts DEF Serve, account, history, Inv, ServiceType, Together
<1>2. ASSUME EventsHeld', LogsOK', \A q \in requests' : RequestHeld(q)',
             r.tab # Nobody => SessionHeld(r.tab)',
             \A t \in Tabs : session'[t] = session[t] => SessionHeld(t)'
      PROVE  Isolation'
  <2>1. RequestsHeld'
    BY <1>2 DEF RequestsHeld, RequestHeld
  <2>2. ASSUME NEW t \in Tabs PROVE SessionHeld(t)'
    <3>1. r.tab \in Tabs \cup {Nobody} /\ (r.tab = Nobody => session' = session)
      BY <1>1, ServeEpochEffect, ServeBatchEffect DEF RequestInv, Serve
    <3> QED
      BY <1>2, <3>1 DEF SingleTab
  <2> QED
    BY <1>2, <2>1, <2>2 DEF Isolation
<1>3. r.tab # Nobody => /\ r.tab \in Tabs
                        /\ session[r.tab].subject = a /\ session[r.tab].pc = "wait"
                        /\ session[r.tab].sent = r.ops
                        /\ r.guarded => /\ session[r.tab].use = "guarded"
                                        /\ ~session[r.tab].probing
                                        /\ session[r.tab].sent # {}
  BY <1>0, <1>1 DEF RequestInv
<1>4. CASE ServeEpoch(r)
  <2>1. /\ \/ epoch[a] = Unknown /\ issued' = issued + 1
              /\ epoch' = [epoch EXCEPT ![a] = issued']
           \/ UNCHANGED <<issued, epoch>>
        /\ UNCHANGED log
    BY <1>0, <1>1, <1>4, ServeEpochEffect
  <2>2. \A s \in Subjects : Quiet(s)
    <3>1. CASE UNCHANGED <<issued, epoch>>
      BY <2>1, <3>1 DEF Quiet
    <3>2. CASE /\ epoch[a] = Unknown /\ issued' = issued + 1
               /\ epoch' = [epoch EXCEPT ![a] = issued']
      <4>1. epoch'[a] = issued + 1 /\ \A s \in Subjects \ {a} : epoch'[s] = epoch[s]
        BY <1>1, <3>2
      <4>2. issued < epoch'[a] /\ log'[a] = {}
        BY <1>1, <2>1, <3>2, <4>1 DEF AccountInv
      <4> QED
        BY <2>1, <4>1, <4>2 DEF Quiet
    <3> QED
      BY <2>1, <3>1, <3>2
  <2>3. EventsHeld' /\ LogsOK' /\ \A q \in requests' : RequestHeld(q)'
    BY <1>1, <2>2, QuietLogs
  <2>4. \A t \in Tabs : session'[t] = session[t] => SessionHeld(t)'
    BY <1>1, <2>2, QuietSession
  <2>5. ASSUME r.tab # Nobody PROVE SessionHeld(r.tab)'
    <3>1. PICK t \in Tabs : t = r.tab
      BY <1>3, <2>5
    <3>2. \/ /\ Changes(t, {"pc", "reply", "rows"})
             /\ session'[t].pc = "apply" /\ session'[t].rows = log'[a]
          \/ session'[t].pc = "mismatch"
      BY <1>0, <1>1, <1>4, <2>5, <3>1, ServeEpochEffect
    <3>3. CASE session'[t].pc = "mismatch"
      BY <3>1, <3>3, QuietHeld
    <3>4. CASE /\ Changes(t, {"pc", "reply", "rows"})
               /\ session'[t].pc = "apply" /\ session'[t].rows = log'[a]
      <4>1. session'[t].subject = a
        BY <1>3, <2>5, <3>1, <3>4 DEF Changes, Fields, Idle
      <4> QED
        BY <2>3, <3>1, <3>4, <4>1, AnswerHeld
    <3> QED
      BY <3>2, <3>3, <3>4
  <2> QED
    BY <1>2, <2>3, <2>4, <2>5
<1>5. CASE ServeBatch(r)
  <2>1. /\ epoch[a] # Unknown /\ r.generation \in {Unknown, epoch[a]}
        /\ UNCHANGED <<issued, epoch>>
        /\ \/ Conflicts(r) /\ UNCHANGED log
           \/ ~Conflicts(r) /\ log' = [log EXCEPT ![a] = @ \cup r.ops]
    BY <1>0, <1>1, <1>5, ServeBatchEffect
  <2>2. UNCHANGED log \/ Pending(r)
    <3>1. ASSUME ~Conflicts(r), ~(r.ops \subseteq log[a]) PROVE Pending(r)
      <4>1. r.generation = epoch[a]
        BY <1>1, <2>1, <3>1 DEF RequestInv
      <4>2. r.guarded => log[a] = {}
        BY <1>0, <3>1 DEF Conflicts
      <4> QED
        BY <1>0, <1>1, <4>1, <4>2 DEF Pending
    <3>2. ~Conflicts(r) /\ r.ops \subseteq log[a] => UNCHANGED log
      BY <1>1, <2>1
    <3> QED
      BY <2>1, <3>1, <3>2
  <2>3. /\ EventsHeld' /\ LogsOK' /\ \A q \in requests' : RequestHeld(q)'
        /\ \A t \in Tabs : session'[t] = session[t] => SessionHeld(t)'
    <3>1. CASE UNCHANGED log
      <4>1. \A s \in Subjects : Quiet(s)
        BY <2>1, <3>1 DEF Quiet
      <4> QED
        BY <1>1, <4>1, QuietLogs, QuietSession
    <3>2. CASE Pending(r) /\ log' = [log EXCEPT ![r.subject] = @ \cup r.ops]
      BY <1>1, <2>1, <3>2, BatchHeld
    <3> QED
      BY <1>0, <2>1, <2>2, <3>1, <3>2
  <2>4. ASSUME r.tab # Nobody PROVE SessionHeld(r.tab)'
    <3>1. PICK t \in Tabs : t = r.tab
      BY <1>3, <2>4
    <3>2. \/ /\ Changes(t, {"pc", "reply", "rows"})
             /\ session'[t].pc = "apply" /\ session'[t].rows = log'[a]
          \/ /\ Conflicts(r) /\ UNCHANGED log /\ Changes(t, {"pc"})
             /\ session'[t].pc = "conflict"
      BY <1>0, <1>1, <1>5, <2>4, <3>1, ServeBatchEffect
    <3>3. /\ Changes(t, {"pc", "reply", "rows"}) => session'[t].subject = a
          /\ Changes(t, {"pc"}) => session'[t].subject = a
      BY <1>3, <2>4, <3>1 DEF Changes, Fields, Idle
    <3>4. CASE session'[t].pc = "apply" /\ session'[t].rows = log'[a] /\ session'[t].subject = a
      BY <2>3, <3>1, <3>4, AnswerHeld
    <3>5. CASE /\ Conflicts(r) /\ UNCHANGED log
               /\ session'[t].pc = "conflict" /\ session'[t].subject = a
      <4>1. record[a].attempted = r.ops
        BY <1>3, <2>4, <3>1, <3>5, TogetherFacts DEF SessionRecord, Conflicts
      <4>2. log[a] # {} /\ Untouched(a)
        BY <1>0, <3>5, <4>1, HeldFacts DEF Conflicts, LogsOK
      <4>3. log'[a] # {} /\ Untouched(a)'
        BY <1>1, <3>5, <4>2 DEF Untouched
      <4> QED
        BY <3>1, <3>5, <4>3 DEF SessionHeld
    <3> QED
      BY <3>2, <3>3, <3>4, <3>5
  <2> QED
    BY <1>2, <2>3, <2>4
<1> QED
  BY <1>4, <1>5 DEF Serve

\* Nothing is made yet.
LEMMA InitHeld == ASSUME Init PROVE Isolation
<1>1. EventsHeld
  BY Names DEF Init, EventsHeld, All, NoRecord
<1>2. LogsOK
  BY DEF Init, LogsOK, Untouched, NoRecord
<1>3. RequestsHeld
  BY DEF Init, RequestsHeld
<1>4. \A t \in Tabs : SessionHeld(t)
  BY DEF Init, SessionHeld, Idle
<1> QED
  BY <1>1, <1>2, <1>3, <1>4 DEF Isolation

\* Every step of one tab, the service and other devices.
LEMMA NextHeld ==
  ASSUME Inv, SingleTab, Together, Isolation, [Next]_vars PROVE Isolation'
<1>1. ASSUME NEW t \in Tabs,
             \/ StartSync(t) \/ SyncStep(t)
             \/ Merge(t) \/ KeepSeparate(t) \/ BeginAdd(t) \/ Add(t)
             \/ BeginDelete(t) \/ DeleteStep(t)
             \/ SignOut(t) \/ Reload(t) \/ Timeout(t)
             \/ \E s \in Subjects : SignIn(t, s)
      PROVE  Isolation'
  <2>1. CASE SyncStep(t)
    BY <2>1, CalmHeld, ReadQueueHeld, AttemptHeld, ApplyHeld, CompleteHeld, RestoreHeld,
       EmptiedHeld, AdoptHeld DEF SyncStep
  <2>2. CASE DeleteStep(t)
    BY <2>2, LeavingHeld, DeletedHeld DEF DeleteStep
  <2>3. CASE \/ StartSync(t) \/ Merge(t) \/ KeepSeparate(t) \/ BeginAdd(t) \/ Add(t)
             \/ BeginDelete(t) \/ SignOut(t) \/ Reload(t) \/ Timeout(t)
             \/ \E s \in Subjects : SignIn(t, s)
    BY <2>3, CalmHeld, AdoptHeld, LeavingHeld, AddHeld
  <2> QED
    BY <1>1, <2>1, <2>2, <2>3
<1>2. CASE \E t \in Tabs :
             \/ StartSync(t) \/ SyncStep(t)
             \/ Merge(t) \/ KeepSeparate(t) \/ BeginAdd(t) \/ Add(t)
             \/ BeginDelete(t) \/ DeleteStep(t)
             \/ SignOut(t) \/ Reload(t) \/ Timeout(t)
             \/ \E s \in Subjects : SignIn(t, s)
  BY <1>1, <1>2
<1>3. CASE \E r \in requests : Serve(r) \/ ServeDelete(r) \/ Lose(r)
  BY <1>3, ServeHeld, OthersHeld
<1>4. CASE \E s \in Subjects : OtherDeletes(s) \/ \E e \in Others : OtherWrites(s, e)
  BY <1>4, OthersHeld
<1>5. CASE UNCHANGED vars
  <2>1. /\ UNCHANGED <<account, home, adopted, session, requests>>
        /\ \A s \in Subjects : Quiet(s)
    BY <1>5 DEF vars, service, history, Quiet
  <2> QED
    BY <2>1, QuietIsHeld
<1> QED
  BY <1>2, <1>3, <1>4, <1>5 DEF Next

\* In a browser with one tab "account switches never expose or upload another account's
\* outbox": what an account holds was made in it, or was anonymous and claimed by it.
THEOREM OutboxesAreIsolated == ASSUME SingleTab PROVE Spec => []OutboxIsolated
<1>1. Init => Inv /\ Together /\ Isolation
  BY InitTypes, InitTogether, InitHeld
<1>2. (Inv /\ Together /\ Isolation) /\ [Next]_vars => (Inv /\ Together /\ Isolation)'
  BY NextTypes, NextTogether, NextHeld
<1>3. Isolation => OutboxIsolated
  BY DEF Isolation, EventsHeld, HeldBy, Mine, OutboxIsolated
<1> QED
  BY <1>1, <1>2, <1>3, PTL DEF Spec

-----------------------------------------------------------------------------
(* One tab: the batch that is retried.                                         *)

\* The batch of an account depends on what it has and has not acknowledged.
LEMMA BatchFrame ==
  ASSUME NEW s, OwnedBy(s)' = OwnedBy(s), acked' \cap OwnedBy(s) = acked \cap OwnedBy(s)
  PROVE  Batch(s)' = Batch(s)
<1>1. Unsynced(s)' = Unsynced(s)
  BY DEF Unsynced
<1> QED
  BY <1>1 DEF Batch

\* An event made later comes behind the batch or joins it.
LEMMA BatchGrows ==
  ASSUME NEW s, NEW e \in Nat, Unsynced(s) \subseteq Nat, \A o \in Unsynced(s) : o < e,
         Unsynced(s)' = Unsynced(s) \cup {e}
  PROVE  Batch(s)' \in {Batch(s), Batch(s) \cup {e}}
<1> DEFINE U == Unsynced(s)
<1>1. ASSUME NEW x \in U PROVE {o \in U \cup {e} : o < x} = {o \in U : o < x}
  <2>1. x < e /\ x \in Nat
    OBVIOUS
  <2>2. ~(e < x)
    BY <2>1
  <2> QED
    BY <2>2
<1>2. Batch(s)' = {x \in U \cup {e} : Cardinality({o \in U \cup {e} : o < x}) < BatchSize}
  BY DEF Batch
<1>3. Batch(s) = {x \in U : Cardinality({o \in U : o < x}) < BatchSize}
  BY DEF Batch
<1>4. \A x \in U : x \in Batch(s)' <=> x \in Batch(s)
  BY <1>1, <1>2, <1>3
<1>5. Batch(s) \subseteq U /\ Batch(s)' \subseteq U \cup {e}
  BY <1>2, <1>3
<1>6. CASE e \in Batch(s)'
  BY <1>4, <1>5, <1>6
<1>7. CASE e \notin Batch(s)'
  BY <1>4, <1>5, <1>7
<1> QED
  BY <1>6, <1>7

\* Steps that leave events, acknowledgements and records alone, and begin no attempt.
LEMMA SteadyFrame ==
  ASSUME Steady, UNCHANGED <<owner, acked, record, slipped>>,
         \A t \in Tabs : session'[t].pc = "attempt" =>
           /\ session[t].pc = "attempt" /\ session'[t].sent = session[t].sent
           /\ session'[t].subject = session[t].subject
  PROVE  Steady'
<1>1. InOrder'
  BY DEF Steady, InOrder
<1>2. \A s : OwnedBy(s)' = OwnedBy(s)
  BY DEF OwnedBy
<1>3. \A s : Batch(s)' = Batch(s)
  BY <1>2, BatchFrame
<1>4. ASSUME NEW s \in Subjects PROVE Tried(s)'
  BY <1>2, <1>3 DEF Steady, Tried, Same
<1>5. ASSUME NEW t \in Tabs, session'[t].pc = "attempt" PROVE Attempting(t)'
  <2>1. /\ session[t].pc = "attempt" /\ session'[t].sent = session[t].sent
        /\ session'[t].subject = session[t].subject
    BY <1>5
  <2>2. PICK a : a = session[t].subject
    OBVIOUS
  <2>3. Batch(session[t].subject)' = Batch(a)'
    BY <2>1, <2>2 DEF Batch, Unsynced, OwnedBy
  <2> QED
    BY <1>3, <2>1, <2>2, <2>3 DEF Steady, Attempting, Same
<1>6. \A t \in Tabs : Attempting(t)'
  BY <1>5 DEF Attempting
<1> QED
  BY <1>1, <1>4, <1>6 DEF Steady

\* What a step has to leave of an account whose batch was tried.
TriedKept(s) ==
  \/ record'[s].attempted = {}
  \/ acked' \cap {e \in All : owner'[e] = s} # {}
  \/ /\ record'[s] = record[s] /\ OwnedBy(s)' = OwnedBy(s)
     /\ acked' \cap OwnedBy(s) = acked \cap OwnedBy(s)

\* Steps of a tab that attempts nothing.
LEMMA SteadyKept ==
  ASSUME SingleTab, Steady, NEW t \in Tabs, session'[t].pc # "attempt", UNCHANGED slipped,
         \A e \in Events : owner'[e] = Unborn <=> owner[e] = Unborn,
         \A s \in Subjects : TriedKept(s)
  PROVE  Steady'
<1>1. InOrder'
  BY DEF Steady, InOrder
<1>2. ASSUME NEW s \in Subjects PROVE Tried(s)'
  <2>1. CASE record'[s].attempted = {}
    BY <2>1 DEF Tried
  <2>2. CASE acked' \cap {e \in All : owner'[e] = s} # {}
    <3>1. OwnedBy(s)' = {e \in All : owner'[e] = s}
      BY DEF OwnedBy
    <3> QED
      BY <2>2, <3>1 DEF Tried
  <2>3. CASE /\ record'[s] = record[s] /\ OwnedBy(s)' = OwnedBy(s)
             /\ acked' \cap OwnedBy(s) = acked \cap OwnedBy(s)
    <3>1. Batch(s)' = Batch(s)
      BY <2>3, BatchFrame
    <3> QED
      BY <2>3, <3>1 DEF Steady, Tried, Same
  <2> QED
    BY <2>1, <2>2, <2>3 DEF TriedKept
<1>3. \A u \in Tabs : Attempting(u)'
  BY DEF SingleTab, Attempting
<1> QED
  BY <1>1, <1>2, <1>3 DEF Steady

\* The queue is the batch, and after an attempt what was tried.
LEMMA ReadQueueSteady ==
  ASSUME Inv, SingleTab, Together, Steady, NEW t \in Tabs, ReadQueue(t) PROVE Steady'
<1>0. PICK a \in Subjects : a = session[t].subject
  BY TogetherFacts DEF ReadQueue
<1>1. UNCHANGED <<owner, acked, record, slipped>> /\ session[t].pc = "read"
  BY DEF ReadQueue, account, history
<1>2. \A u \in Tabs : u = t
  BY DEF SingleTab
<1>3. CASE session'[t].pc # "attempt"
  BY <1>1, <1>2, <1>3, SteadyFrame
<1>4. CASE session'[t].pc = "attempt"
  <2>1. Finish(t) => session'[t].pc # "attempt"
    BY FinishEffect, EndsIdle
  <2>2. /\ Moves(t, {"pc", "probing", "sent", "generation", "first"})
        /\ session'[t].sent = QueueOf(t) /\ session[t].use = "guarded" /\ QueueOf(t) # {}
    BY <1>4, <2>1, ReadQueueEffect, EndsIdle
  <2>3. session'[t].subject = a
    BY <1>0, <2>2 DEF Moves, Changes, Fields, Idle
  <2>4. session'[t].sent = Batch(a)
    BY <1>0, <2>2 DEF QueueOf
  <2>5. /\ \A s : OwnedBy(s)' = OwnedBy(s)
        /\ InOrder'
    BY <1>1 DEF OwnedBy, Steady, InOrder
  <2>6. \A s : Batch(s)' = Batch(s)
    BY <1>1, <2>5, BatchFrame
  <2>7. \A s \in Subjects : Tried(s)'
    BY <1>1, <2>5, <2>6 DEF Steady, Tried, Same
  <2>8. record[a].attempted = {} \/ Same(Batch(a), record[a].attempted)
    BY <1>0, <1>1, <2>2, TogetherFacts DEF SessionRecord, Steady, Tried
  <2>9. Batch(session[t].subject)' = Batch(a)'
    BY <2>3 DEF Batch, Unsynced, OwnedBy
  <2>10. Attempting(t)'
    BY <1>0, <1>1, <2>3, <2>4, <2>6, <2>8, <2>9 DEF Attempting, Same
  <2> QED
    BY <1>2, <2>5, <2>7, <2>10 DEF Steady
<1> QED
  BY <1>3, <1>4

\* The batch that is noted is the one that was read.
LEMMA AttemptSteady ==
  ASSUME Inv, SingleTab, Together, Steady, NEW t \in Tabs, Attempt(t) PROVE Steady'
<1>0. PICK a \in Subjects : a = session[t].subject
  BY TogetherFacts DEF Attempt
<1> DEFINE noted == [record EXCEPT ![a].attempted = session[t].sent]
<1>1. /\ session[t].pc = "attempt" /\ UNCHANGED <<owner, acked, slipped>>
      /\ record \in [Subjects -> Records]
  BY DEF Attempt, history, Inv, StoreType
<1>2. session'[t].pc # "attempt" /\ record' \in {record, noted}
  BY <1>0, AttemptEffect, EndsIdle
<1>3. Same(Batch(a), session[t].sent)
  BY <1>0, <1>1 DEF Steady, Attempting
<1>4. record' = noted => /\ record'[a].attempted = session[t].sent
                         /\ \A s \in Subjects \ {a} : record'[s] = record[s]
  BY <1>1 DEF Records
<1>5. InOrder' /\ \A s : OwnedBy(s)' = OwnedBy(s)
  BY <1>1 DEF OwnedBy, Steady, InOrder
<1>6. \A s : Batch(s)' = Batch(s)
  BY <1>1, <1>5, BatchFrame
<1>7. ASSUME NEW s \in Subjects PROVE Tried(s)'
  BY <1>1, <1>2, <1>3, <1>4, <1>5, <1>6 DEF Steady, Tried, Same
<1>8. \A u \in Tabs : Attempting(u)'
  BY <1>2 DEF SingleTab, Attempting
<1> QED
  BY <1>5, <1>7, <1>8 DEF Steady

\* A response that holds something acknowledges something; one that does not changes nothing.
LEMMA ApplySteady ==
  ASSUME Inv, SingleTab, Together, Isolation, Steady, NEW t \in Tabs, Apply(t)
  PROVE  Steady'
<1>0. PICK a \in Subjects : a = session[t].subject
  BY TogetherFacts DEF Apply
<1> DEFINE rows == session[t].rows
<1>1. /\ session[t].pc = "apply" /\ UNCHANGED <<record, slipped>>
      /\ Recorded(t) /\ ~Collides(t)
  BY DEF Apply, Collides, history
<1>2. session[t].sent \subseteq rows /\ rows \subseteq All
  BY <1>1 DEF Inv, TabInv, SessionType, SessionFlow
<1>3. /\ owner' = [e \in All |-> IF e \in rows THEN a ELSE owner[e]]
      /\ acked' = acked \cup rows
  BY <1>0, <1>1, <1>2 DEF Recorded
<1>4. /\ \A e \in All \ rows : owner'[e] = owner[e]
      /\ \A e \in rows : e \in All /\ owner'[e] = a /\ owner[e] \in {Unborn, Gone, a}
  BY <1>0, <1>1, <1>2, <1>3 DEF Collides
<1>5. session'[t].pc # "attempt"
  BY ApplyEffect, EndsIdle
<1>6. ASSUME NEW e \in Events PROVE owner'[e] = Unborn <=> owner[e] = Unborn
  <2>1. e \in All
    BY DEF All
  <2>2. e \in rows => owner[e] \in {a, Gone}
    BY <1>0, <1>1, HeldFacts DEF SessionHeld, HeldBy
  <2> QED
    BY <1>4, <2>1, <2>2, Names
<1>7. ASSUME NEW s \in Subjects PROVE TriedKept(s)
  <2>1. CASE s = a /\ rows # {}
    BY <1>3, <1>4, <2>1 DEF TriedKept
  <2>2. CASE s # a \/ rows = {}
    <3>1. \A e \in rows : owner'[e] # s /\ owner[e] # s
      BY <1>4, <2>2, Names
    <3>2. OwnedBy(s)' = OwnedBy(s)
      BY <1>4, <3>1 DEF OwnedBy
    <3>3. acked' \cap OwnedBy(s) = acked \cap OwnedBy(s)
      BY <1>3, <3>1 DEF OwnedBy
    <3> QED
      BY <1>1, <3>2, <3>3 DEF TriedKept
  <2> QED
    BY <2>1, <2>2
<1> QED
  BY <1>1, <1>5, <1>6, <1>7, SteadyKept

\* Events that leave an account, or come to one that has no record.
LEMMA MovedSteady ==
  ASSUME Inv, SingleTab, Steady, NEW t \in Tabs, session'[t].pc # "attempt",
         UNCHANGED slipped, NEW a \in Subjects, record'[a].attempted = {},
         \A s \in Subjects \ {a} : record'[s] = record[s],
         \A e \in All : \/ owner'[e] = owner[e] /\ (e \in acked' <=> e \in acked)
                        \/ owner[e] \in {a, Anonymous} /\ owner'[e] \in {a, Anonymous, Gone}
  PROVE  Steady'
<1>1. \A e \in Events : owner'[e] = Unborn <=> owner[e] = Unborn
  BY Names DEF All
<1>2. ASSUME NEW s \in Subjects, s # a PROVE TriedKept(s)
  <2>1. OwnedBy(s)' = OwnedBy(s)
    BY <1>2, Names DEF OwnedBy
  <2>2. acked' \cap OwnedBy(s) = acked \cap OwnedBy(s)
    BY <1>2, Names DEF OwnedBy
  <2> QED
    BY <1>2, <2>1, <2>2 DEF TriedKept
<1>3. \A s \in Subjects : TriedKept(s)
  BY <1>2 DEF TriedKept
<1> QED
  BY <1>1, <1>3, SteadyKept

\* What is returned leaves an account without a record.
LEMMA ReturnedSteady ==
  ASSUME Inv, SingleTab, Steady, NEW t \in Tabs, session'[t].pc # "attempt",
         UNCHANGED slipped, NEW a \in Subjects, NEW claimed, Returned(a, claimed)
  PROVE  Steady'
<1>1. /\ owner \in [All -> Domains \cup {Unborn, Gone}] /\ record \in [Subjects -> Records]
      /\ acked \subseteq All
  BY DEF Inv, StoreType
<1>2. CASE record[a] = NoRecord
  <2>1. UNCHANGED <<owner, acked, record>> /\ record'[a].attempted = {}
    BY <1>2 DEF Returned, NoRecord
  <2> QED
    BY <2>1, MovedSteady
<1>3. CASE record[a] # NoRecord
  <2> DEFINE back == claimed \cap OwnedBy(a)
  <2>1. /\ owner' = [e \in All |-> IF e \in back THEN Anonymous ELSE owner[e]]
        /\ acked' = acked \ back /\ record' = [record EXCEPT ![a] = NoRecord]
    BY <1>3 DEF Returned
  <2>2. record'[a].attempted = {} /\ \A s \in Subjects \ {a} : record'[s] = record[s]
    BY <1>1, <2>1 DEF NoRecord
  <2>3. \A e \in All : \/ owner'[e] = owner[e] /\ (e \in acked' <=> e \in acked)
                       \/ owner[e] \in {a, Anonymous} /\ owner'[e] \in {a, Anonymous, Gone}
    BY <2>1 DEF OwnedBy
  <2> QED
    BY <2>2, <2>3, MovedSteady
<1> QED
  BY <1>2, <1>3

\* An account that is cleared has no batch that was tried.
LEMMA ClearedSteady ==
  ASSUME Inv, SingleTab, Steady, NEW t \in Tabs, session'[t].pc # "attempt",
         UNCHANGED slipped, NEW a \in Subjects, NEW next, Cleared(a, next)
  PROVE  Steady'
<1>1. record \in [Subjects -> Records]
  BY DEF Inv, StoreType
<1>2. record'[a].attempted = {} /\ \A s \in Subjects \ {a} : record'[s] = record[s]
  BY <1>1 DEF Cleared, NoRecord
<1>3. \A e \in All : \/ owner'[e] = owner[e] /\ (e \in acked' <=> e \in acked)
                     \/ owner[e] \in {a, Anonymous} /\ owner'[e] \in {a, Anonymous, Gone}
  BY DEF Cleared, OwnedBy
<1> QED
  BY <1>2, <1>3, MovedSteady

\* Nor has one that claims.
LEMMA ClaimedSteady ==
  ASSUME Inv, SingleTab, Steady, NEW t \in Tabs, session'[t].pc # "attempt",
         UNCHANGED slipped, NEW a \in Subjects, NEW merged, Claimed(a, merged),
         record'[a].attempted = {}, \A s \in Subjects \ {a} : record'[s] = record[s]
  PROVE  Steady'
<1>1. \A e \in All : \/ owner'[e] = owner[e] /\ (e \in acked' <=> e \in acked)
                     \/ owner[e] \in {a, Anonymous} /\ owner'[e] \in {a, Anonymous, Gone}
  BY DEF Claimed, OwnedBy
<1> QED
  BY <1>1, MovedSteady

\* What a session does to events and records when it attempts nothing.
LEMMA SessionSteady ==
  ASSUME Inv, SingleTab, Together, Steady, NEW t \in Tabs,
         \/ Complete(t) \/ Restore(t) \/ Replace(t) \/ ClearStale(t) \/ Claim(t)
  PROVE  Steady'
<1>0. PICK a \in Subjects : a = session[t].subject
  BY TogetherFacts DEF Complete, Restore, Replace, ClearStale, Claim
<1>1. /\ UNCHANGED slipped /\ record \in [Subjects -> Records]
      /\ \A u \in Tabs : u = t
  BY DEF Complete, Restore, Replace, ClearStale, Claim, history, Inv, StoreType, SingleTab
<1>2. session'[t].pc # "attempt"
  <2>1. CASE Restore(t)
    <3>1. session[t].cause \in {"probe", "conflict", "generation"}
      BY <2>1 DEF Restore, Inv, TabInv, SessionType, SessionFlow, Causes
    <3>2. Resumed[session[t].cause] # "attempt"
      BY <3>1 DEF Resumed
    <3>3. session'[t].pc = "idle" \/ session'[t].pc = Resumed[session[t].cause]
      BY <2>1, RestoreEffect, EndsIdle
    <3> QED
      BY <3>2, <3>3
  <2>2. CASE Complete(t)
    BY <2>2, CompleteEffect, EndsIdle
  <2>3. CASE Replace(t) \/ ClearStale(t)
    BY <2>3, ReplaceEffect, ClearStaleEffect, EndsIdle
  <2>4. CASE Claim(t)
    BY <2>4, ClaimEffect, EndsIdle
  <2> QED
    BY <2>1, <2>2, <2>3, <2>4
<1>3. CASE UNCHANGED <<owner, acked, record>>
  BY <1>1, <1>2, <1>3, SteadyFrame
<1>4. CASE Complete(t)
  <2>1. UNCHANGED <<owner, acked>>
    BY <1>4 DEF Complete
  <2>2. record' = record \/ record' = [record EXCEPT ![a] = NoRecord]
    BY <1>0, <1>4, CompleteEffect
  <2>3. CASE record' = [record EXCEPT ![a] = NoRecord]
    <3>1. record'[a].attempted = {} /\ \A s \in Subjects \ {a} : record'[s] = record[s]
      BY <1>1, <2>3 DEF NoRecord
    <3> QED
      BY <1>1, <1>2, <2>1, <3>1, MovedSteady
  <2> QED
    BY <1>3, <2>1, <2>2, <2>3
<1>5. CASE Restore(t)
  BY <1>0, <1>1, <1>2, <1>3, <1>5, RestoreEffect, ReturnedSteady
<1>6. CASE Replace(t) \/ ClearStale(t)
  <2>1. \/ UNCHANGED account
        \/ Cleared(a, session[t].next) \/ Cleared(a, session[t].reply)
    BY <1>0, <1>6, ReplaceEffect, ClearStaleEffect
  <2> QED
    BY <1>1, <1>2, <1>3, <2>1, ClearedSteady DEF account
<1>7. CASE Claim(t)
  <2>1. record[a] = NoRecord
    BY <1>0, <1>7, TogetherFacts DEF Claim, SessionRecord, Started, Phases
  <2>2. CASE /\ Claimed(a, FALSE)
             /\ record' = IF OwnedBy(Anonymous) = {} THEN record
                          ELSE [record EXCEPT ![a] = [claimed |-> OwnedBy(Anonymous),
                                                      attempted |-> {}]]
    <3>1. record'[a].attempted = {} /\ \A s \in Subjects \ {a} : record'[s] = record[s]
      BY <1>1, <2>1, <2>2 DEF NoRecord
    <3> QED
      BY <1>1, <1>2, <2>2, <3>1, ClaimedSteady
  <2> QED
    BY <1>0, <1>3, <1>7, <2>2, ClaimEffect
<1> QED
  BY <1>4, <1>5, <1>6, <1>7

\* A merge and a deletion, between sessions.
LEMMA BetweenSteady ==
  ASSUME Inv, SingleTab, Together, Steady, NEW t \in Tabs,
         Merge(t) \/ ReturnPending(t) \/ ClearDeleted(t)
  PROVE  Steady'
<1>1. /\ TabInv(t) /\ TabType /\ DeletionRecord(t) /\ SessionRecord(t)
      /\ record \in [Subjects -> Records]
  BY TabFacts, TogetherFacts DEF Inv, StoreType
<1>2. /\ UNCHANGED <<slipped, session>> /\ session'[t].pc # "attempt"
      /\ subject[t] \in Subjects
  BY <1>1 DEF Merge, ReturnPending, ClearDeleted, history, TabInv, TabType
<1>3. PICK a \in Subjects : a = subject[t]
  BY <1>2
<1>4. CASE Merge(t)
  <2>1. /\ prompt[t] /\ Claimed(a, TRUE) /\ UNCHANGED record
    BY <1>3, <1>4 DEF Merge
  <2>2. record[a] = NoRecord
    BY <1>1, <1>3, <2>1, Names DEF SessionRecord
  <2>3. record'[a].attempted = {}
    BY <2>1, <2>2 DEF NoRecord
  <2> QED
    BY <1>2, <2>1, <2>3, ClaimedSteady
<1>5. CASE ReturnPending(t)
  <2>1. UNCHANGED <<owner, acked, record>> \/ Returned(a, deletion[t].claimed)
    BY <1>3, <1>5 DEF ReturnPending
  <2>2. CASE UNCHANGED <<owner, acked, record>>
    BY <1>2, <2>2, SteadyFrame
  <2> QED
    BY <1>2, <2>1, <2>2, ReturnedSteady
<1>6. CASE ClearDeleted(t)
  BY <1>2, <1>3, <1>6, ClearedSteady DEF ClearDeleted
<1> QED
  BY <1>4, <1>5, <1>6

\* An edit is blocked by the record, or has slipped past it.
LEMMA AddSteady ==
  ASSUME Inv, SingleTab, Together, Steady, NEW t \in Tabs, Add(t) PROVE Steady'
<1> DEFINE unborn == {e \in Events : owner[e] = Unborn}
<1>1. /\ UNCHANGED <<acked, record, session>> /\ adding[t] # Nobody
  BY DEF Add
<1>2. /\ owner \in [All -> Domains \cup {Unborn, Gone}] /\ TabType /\ TabInv(t)
      /\ SessionRecord(t) /\ \A e \in Others : owner[e] \in Subjects => e \in acked
      /\ acked \subseteq {e \in All : owner[e] \in Subjects}
      /\ \A u \in Tabs : u = t
  BY TabFacts, TogetherFacts DEF Inv, StoreType, SingleTab
<1>3. CASE UNCHANGED <<owner, home, slipped>>
  BY <1>1, <1>3, SteadyFrame
<1>4. CASE unborn # {} /\ ~Blocked(t)
  <2>1. unborn \in SUBSET Nat
    BY EnrollmentType
  <2>2. PICK e \in unborn : e = Min(unborn) /\ \A f \in unborn : e <= f
    BY <1>4, <2>1, MinOfNumbers
  <2>3. e \in Events /\ e \in All /\ owner[e] = Unborn /\ Events \subseteq Nat /\ e \in Nat
    BY <2>2, EnrollmentType DEF All
  <2>4. /\ slipped' = IF adding[t] \in {Anonymous, subject[t]} THEN slipped
                      ELSE slipped \cup {e}
        /\ owner' = [owner EXCEPT ![e] = adding[t]]
        /\ adding[t] \in Domains
    BY <1>1, <1>2, <1>4, <2>2 DEF Add, TabType
  <2>5. /\ owner'[e] = adding[t] /\ \A f \in All \ {e} : owner'[f] = owner[f]
        /\ adding[t] # Unborn
    BY <1>2, <2>3, <2>4, Names DEF Domains
  <2>6. InOrder'
    <3>1. ASSUME NEW x \in Events, NEW f \in Events, owner'[x] = Unborn, owner'[f] # Unborn
          PROVE  f < x
      <4>1. x \in All /\ f \in All /\ x # e /\ owner[x] = Unborn
        BY <2>5, <3>1 DEF All
      <4>2. CASE f = e
        <5>1. e <= x /\ x \in Nat
          BY <2>2, <2>3, <4>1
        <5> QED
          BY <2>3, <4>1, <4>2, <5>1
      <4>3. CASE f # e
        <5>1. owner[f] # Unborn
          BY <2>5, <3>1, <4>1, <4>3
        <5> QED
          BY <4>1, <5>1 DEF Steady, InOrder
      <4> QED
        BY <4>2, <4>3
    <3> QED
      BY <3>1 DEF InOrder
  <2>7. ASSUME NEW s \in Subjects
        PROVE  /\ acked' \cap OwnedBy(s)' = acked \cap OwnedBy(s)
               /\ Batch(s)' = Batch(s) \/ (adding[t] = s /\ Batch(s)' = Batch(s) \cup {e})
    <3>1. e \notin acked /\ owner[e] # s
      BY <1>2, <2>3, Names
    <3>2. OwnedBy(s)' = IF adding[t] = s THEN OwnedBy(s) \cup {e} ELSE OwnedBy(s)
      BY <2>3, <2>5, <3>1 DEF OwnedBy
    <3>3. acked' \cap OwnedBy(s)' = acked \cap OwnedBy(s)
      BY <1>1, <3>1, <3>2
    <3>4. CASE adding[t] # s
      BY <1>1, <3>2, <3>3, <3>4, BatchFrame
    <3>5. CASE adding[t] = s
      <4>1. Unsynced(s)' = Unsynced(s) \cup {e}
        BY <1>1, <3>1, <3>2, <3>5 DEF Unsynced
      <4>2. Unsynced(s) \subseteq Events
        BY <1>2 DEF Unsynced, OwnedBy, All
      <4>3. \A o \in Unsynced(s) : o \in Events /\ owner[o] = s
        BY <4>2 DEF Unsynced, OwnedBy
      <4>4. \A o \in Unsynced(s) : o < e
        BY <2>3, <4>3, Names DEF Steady, InOrder
      <4>5. Unsynced(s) \subseteq Nat
        BY <2>3, <4>2
      <4> QED
        BY <2>3, <3>3, <3>5, <4>1, <4>4, <4>5, BatchGrows
    <3> QED
      BY <3>3, <3>4, <3>5
  <2>8. ASSUME NEW s \in Subjects, Batch(s)' # Batch(s)
        PROVE  Batch(s)' = Batch(s) \cup {e} /\ (e \in slipped' \/ record[s] = NoRecord)
    <3>1. adding[t] = s /\ Batch(s)' = Batch(s) \cup {e}
      BY <2>7, <2>8
    <3>2. subject[t] = s => record[s] = NoRecord
      BY <1>4, Names DEF Blocked
    <3>3. subject[t] # s => e \in slipped'
      BY <2>4, <3>1, Names
    <3> QED
      BY <3>1, <3>2, <3>3
  <2>9. slipped \subseteq slipped'
    BY <2>4
  <2>10. ASSUME NEW s \in Subjects, record[s] # NoRecord, NEW T, Same(Batch(s), T)
         PROVE  Same(Batch(s), T)'
    <3>1. Batch(s)' = Batch(s) \/ (Batch(s)' = Batch(s) \cup {e} /\ e \in slipped')
      BY <2>8, <2>10
    <3>2. Same(Batch(s), T)' <=> Batch(s)' = T \/ Batch(s)' \cap slipped' # {}
      BY DEF Same
    <3> QED
      BY <2>9, <2>10, <3>1, <3>2 DEF Same
  <2>11. ASSUME NEW s \in Subjects PROVE Tried(s)'
    <3>1. CASE record[s] = NoRecord
      BY <1>1, <3>1 DEF Tried, NoRecord
    <3>2. CASE record[s] # NoRecord
      <4>1. PICK tried : tried = record[s].attempted
        OBVIOUS
      <4>2. tried # {} /\ acked \cap OwnedBy(s) = {} => Same(Batch(s), tried)
        BY <4>1 DEF Steady, Tried
      <4>3. tried # {} /\ acked' \cap OwnedBy(s)' = {} => Same(Batch(s), tried)'
        BY <2>7, <2>10, <3>2, <4>2
      <4>4. Same(Batch(s), record[s].attempted)' <=> Same(Batch(s), tried)'
        BY <1>1, <4>1 DEF Same
      <4> QED
        BY <1>1, <4>1, <4>3, <4>4 DEF Tried
    <3> QED
      BY <3>1, <3>2
  <2>12. CASE session[t].pc # "attempt"
    BY <1>1, <1>2, <2>6, <2>11, <2>12 DEF Steady, Attempting
  <2>13. CASE session[t].pc = "attempt"
    <3>0. PICK a \in Subjects : a = session[t].subject
      BY <2>13, TogetherFacts
    <3>1. PICK sent : sent = session[t].sent
      OBVIOUS
    <3>2. record[a] # NoRecord
      <4>1. session[t].use = "guarded"
        BY <2>13 DEF Inv, TabInv, SessionFlow
      <4> QED
        BY <1>2, <2>13, <3>0, <4>1 DEF SessionRecord, Started, Phases
    <3>3. /\ Same(Batch(a), sent)
          /\ record[a].attempted = {} \/ Same(sent, record[a].attempted)
      BY <2>13, <3>0, <3>1 DEF Steady, Attempting
    <3>4. Same(Batch(a), sent)'
      BY <2>10, <3>2, <3>3
    <3>5. record'[a].attempted = {} \/ Same(sent, record[a].attempted)'
      BY <1>1, <2>9, <3>3 DEF Same
    <3>6. Batch(session[t].subject)' = Batch(a)'
      BY <1>1, <3>0 DEF Batch, Unsynced, OwnedBy
    <3>7. Attempting(t)'
      BY <1>1, <3>0, <3>1, <3>4, <3>5, <3>6 DEF Attempting, Same
    <3> QED
      BY <1>2, <2>6, <2>11, <3>7 DEF Steady
  <2> QED
    BY <2>12, <2>13
<1> QED
  BY <1>3, <1>4 DEF Add

\* No other step begins an attempt, or touches events, acknowledgements and records.
LEMMA CalmSteady ==
  ASSUME Inv, SingleTab, Steady, NEW t \in Tabs,
         \/ ReadRecord(t) \/ Probe(t) \/ CannotApply(t) \/ Changed(t) \/ Conflict(t)
         \/ Reconcile(t) \/ StartSync(t)
  PROVE  Steady'
<1>1. UNCHANGED <<owner, acked, record, slipped>> /\ \A u \in Tabs : u = t
  BY DEF ReadRecord, Probe, CannotApply, Changed, Conflict, Reconcile, StartSync, account,
         history, SingleTab
<1>2. session'[t].pc # "attempt"
  <2>1. CannotApply(t) => session'[t].pc = "idle"
    BY TabFacts, EndEffect DEF CannotApply, Idle
  <2>2. ReadRecord(t) => session'[t].pc # "attempt"
    BY ReadRecordEffect, EndsIdle
  <2>3. Probe(t) => session'[t].pc # "attempt"
    BY ProbeEffect, EndsIdle
  <2>4. Changed(t) => session'[t].pc # "attempt"
    BY ChangedEffect, EndsIdle
  <2>5. Conflict(t) => session'[t].pc # "attempt"
    BY ConflictEffect
  <2>6. Reconcile(t) => session'[t].pc # "attempt"
    BY ReconcileEffect, EndsIdle
  <2>7. StartSync(t) => session'[t].pc # "attempt"
    BY StartSyncEffect
  <2> QED
    BY <2>1, <2>2, <2>3, <2>4, <2>5, <2>6, <2>7
<1> QED
  BY <1>1, <1>2, SteadyFrame

\* A tab that leaves its session keeps what it was about to send, and does not send it.
LEMMA LeavingSteady ==
  ASSUME Inv, SingleTab, Steady, NEW t \in Tabs,
         \/ KeepSeparate(t) \/ BeginAdd(t) \/ BeginDelete(t) \/ SendDelete(t)
         \/ SignOut(t) \/ Reload(t) \/ Timeout(t)
         \/ \E s \in Subjects : SignIn(t, s)
  PROVE  Steady'
<1>1. UNCHANGED <<owner, acked, record, slipped>> /\ \A u \in Tabs : u = t
  BY DEF KeepSeparate, BeginAdd, BeginDelete, SendDelete, SignOut, Reload, Timeout, SignIn,
         account, history, SingleTab
<1>2. TabType /\ LockType
  BY TabFacts
<1>3. \/ session'[t] = Idle \/ UNCHANGED session
      \/ DOMAIN session'[t] = Fields /\ Changes(t, {"aborted"})
  <2>1. CASE SignOut(t) \/ BeginDelete(t)
    <3>1. session' = [session EXCEPT ![t] =
             IF @.pc \in {"idle", "wait"} THEN Idle ELSE [@ EXCEPT !.aborted = TRUE]]
      BY <2>1 DEF SignOut, BeginDelete
    <3> QED
      BY <3>1, AbortEffect
  <2>2. CASE Reload(t) \/ \E s \in Subjects : SignIn(t, s)
    BY <1>2, <2>2 DEF Reload, SignIn, TabType
  <2>3. CASE Timeout(t)
    BY <1>2, <2>3, EndEffect DEF Timeout
  <2>4. CASE KeepSeparate(t) \/ BeginAdd(t) \/ SendDelete(t)
    BY <2>4 DEF KeepSeparate, BeginAdd, SendDelete
  <2> QED
    BY <2>1, <2>2, <2>3, <2>4
<1>4. session'[t].pc = "attempt" =>
        /\ session[t].pc = "attempt" /\ session'[t].sent = session[t].sent
        /\ session'[t].subject = session[t].subject
  <2>1. CASE session'[t] = Idle
    BY <2>1 DEF Idle
  <2>2. CASE UNCHANGED session
    BY <2>2
  <2>3. CASE DOMAIN session'[t] = Fields /\ Changes(t, {"aborted"})
    BY <2>3 DEF Changes, Fields, Idle
  <2> QED
    BY <1>3, <2>1, <2>2, <2>3
<1> QED
  BY <1>1, <1>4, SteadyFrame

\* The service and other devices, and nothing at all.
LEMMA OthersSteady ==
  ASSUME Inv, Steady,
         \/ \E r \in requests : Serve(r) \/ ServeDelete(r) \/ Lose(r)
         \/ \E s \in Subjects : OtherDeletes(s) \/ \E e \in Others : OtherWrites(s, e)
         \/ UNCHANGED vars
  PROVE  Steady'
<1>1. UNCHANGED <<owner, acked, record, slipped>>
  BY DEF Serve, ServeDelete, Lose, OtherDeletes, OtherWrites, vars, account, history
<1>2. CASE UNCHANGED session
  BY <1>1, <1>2, SteadyFrame
<1>3. ASSUME NEW r \in requests, Serve(r) PROVE Steady'
  <2>1. r.kind = "sync" /\ (ServeEpoch(r) \/ ServeBatch(r)) /\ r.tab \in Tabs \cup {Nobody}
    BY <1>3, RequestFacts DEF Serve, Inv, RequestInv
  <2>2. ASSUME r.tab # Nobody
        PROVE  OthersKept(r.tab) /\ session'[r.tab].pc \in {"apply", "mismatch", "conflict"}
    BY <2>1, <2>2, ServeEpochEffect, ServeBatchEffect
  <2>3. r.tab = Nobody => UNCHANGED session
    BY <2>1, ServeEpochEffect, ServeBatchEffect
  <2>4. ASSUME NEW t \in Tabs, session'[t].pc = "attempt" PROVE session'[t] = session[t]
    BY <2>1, <2>2, <2>3, <2>4 DEF OthersKept
  <2> QED
    BY <1>1, <2>4, SteadyFrame
<1> QED
  BY <1>2, <1>3 DEF ServeDelete, Lose, OtherDeletes, OtherWrites, vars

\* Nothing is tried yet.
LEMMA InitSteady == ASSUME Init PROVE Steady
<1>1. InOrder
  BY DEF Init, InOrder, All
<1>2. \A s \in Subjects : Tried(s)
  BY DEF Init, Tried, NoRecord
<1>3. \A t \in Tabs : Attempting(t)
  BY DEF Init, Attempting, Idle
<1> QED
  BY <1>1, <1>2, <1>3 DEF Steady

\* Every step of one tab, the service and other devices.
LEMMA NextSteady ==
  ASSUME Inv, SingleTab, Together, Isolation, Steady, [Next]_vars PROVE Steady'
<1>1. ASSUME NEW t \in Tabs,
             \/ StartSync(t) \/ SyncStep(t)
             \/ Merge(t) \/ KeepSeparate(t) \/ BeginAdd(t) \/ Add(t)
             \/ BeginDelete(t) \/ DeleteStep(t)
             \/ SignOut(t) \/ Reload(t) \/ Timeout(t)
             \/ \E s \in Subjects : SignIn(t, s)
      PROVE  Steady'
  <2>1. CASE SyncStep(t)
    BY <2>1, CalmSteady, ReadQueueSteady, AttemptSteady, ApplySteady, SessionSteady
    DEF SyncStep
  <2>2. CASE DeleteStep(t)
    BY <2>2, LeavingSteady, BetweenSteady DEF DeleteStep
  <2>3. CASE \/ StartSync(t) \/ Merge(t) \/ KeepSeparate(t) \/ BeginAdd(t) \/ Add(t)
             \/ BeginDelete(t) \/ SignOut(t) \/ Reload(t) \/ Timeout(t)
             \/ \E s \in Subjects : SignIn(t, s)
    BY <2>3, CalmSteady, BetweenSteady, LeavingSteady, AddSteady
  <2> QED
    BY <1>1, <2>1, <2>2, <2>3
<1>2. CASE \E t \in Tabs :
             \/ StartSync(t) \/ SyncStep(t)
             \/ Merge(t) \/ KeepSeparate(t) \/ BeginAdd(t) \/ Add(t)
             \/ BeginDelete(t) \/ DeleteStep(t)
             \/ SignOut(t) \/ Reload(t) \/ Timeout(t)
             \/ \E s \in Subjects : SignIn(t, s)
  BY <1>1, <1>2
<1>3. CASE \/ \E r \in requests : Serve(r) \/ ServeDelete(r) \/ Lose(r)
           \/ \E s \in Subjects : OtherDeletes(s) \/ \E e \in Others : OtherWrites(s, e)
           \/ UNCHANGED vars
  BY <1>3, OthersSteady
<1> QED
  BY <1>2, <1>3 DEF Next

\* In a browser with one tab a retry sends the batch that may have arrived, unless an edit
\* slipped into it (setPendingEnrollmentAttempt never has to refuse another batch).
THEOREM AttemptsAreStable == ASSUME SingleTab PROVE Spec => []AttemptIsStable
<1>1. Init => Inv /\ Together /\ Isolation /\ Steady
  BY InitTypes, InitTogether, InitHeld, InitSteady
<1>2. (Inv /\ Together /\ Isolation /\ Steady) /\ [Next]_vars =>
        (Inv /\ Together /\ Isolation /\ Steady)'
  BY NextTypes, NextTogether, NextHeld, NextSteady
<1>3. Steady => AttemptIsStable
  BY DEF Steady, Attempting, Same, AttemptIsStable, Unchanged
<1> QED
  BY <1>1, <1>2, <1>3, PTL DEF Spec
=============================================================================
