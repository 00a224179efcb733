--------------------------- MODULE CollectionProofs ---------------------------
(* What the tabs of Collection show, for any number of tabs, accounts and edits, *)
(* and however many refreshes wait at once; and what IndexedDB holds, for any    *)
(* number of events, files and limits: every domain replays, what is shown of it *)
(* can be changed, and an addition joins what is there.                          *)
(*                                                                              *)
(* The second half rests on the order of events being strict and total, so that  *)
(* the replay is the one sequence in that order; on a new event of a holding     *)
(* that comes after all the others of it changing no other holding, wherever it  *)
(* takes its place; and on numbering the events keeping their order.             *)
(*                                                                              *)
(* The last part is about Valuation: the quote a copy is given, and totals over   *)
(* any number of holdings.                                                       *)
EXTENDS Collection, FiniteSetTheorems, SequenceTheorems, TLAPS

-----------------------------------------------------------------------------
(* Queues of refreshes.                                                       *)

Whys == {"write", "peer", "change"}
Refreshes(G) == [domain : Domains, why : Whys, got : G]
Queue(s) == \E G : s \in Seq(Refreshes(G))

\* Every refresh of the queue is of the domain.
AllOf(s, d) == \A n \in DOMAIN s : s[n].domain = d

\* The last change of account in the queue, and every refresh behind it, is of the
\* domain; without one every refresh is.
EndsWith(s, d) ==
  \A n \in DOMAIN s :
    (\A m \in DOMAIN s : m > n => s[m].why # "change") => s[n].domain = d

\* A refresh of the domain at the end keeps both.
LEMMA AppendRefresh ==
  ASSUME NEW s, Queue(s), NEW d \in Domains, NEW why \in Whys
  PROVE  LET r == Append(s, Refresh(d, why))
         IN  /\ Queue(r)
             /\ AllOf(s, d) => AllOf(r, d)
             /\ EndsWith(s, d) => EndsWith(r, d)
             /\ why = "change" => EndsWith(r, d)
<1> DEFINE x == Refresh(d, why)
           r == Append(s, x)
<1>1. PICK G : s \in Seq(Refreshes(G))
  BY DEF Queue
<1> DEFINE H == G \cup {{}}
<1>2. s \in Seq(Refreshes(H))
  <2>1. Refreshes(G) \subseteq Refreshes(H)
    BY DEF Refreshes
  <2> QED
    BY <1>1, <2>1, SeqMonotonic
<1>3. x \in Refreshes(H)
  BY DEF Refresh, Refreshes
<1>4. /\ r \in Seq(Refreshes(H))
      /\ Len(s) \in Nat
      /\ DOMAIN s = 1..Len(s)
      /\ DOMAIN r = 1..(Len(s) + 1)
      /\ r[Len(s) + 1] = x
      /\ \A n \in 1..Len(s) : r[n] = s[n]
  BY <1>2, <1>3
<1>5. x.domain = d /\ x.why = why
  BY DEF Refresh
<1> HIDE DEF x, r, H
<1>6. Queue(r)
  BY <1>4 DEF Queue
<1>7. AllOf(s, d) => AllOf(r, d)
  BY <1>4, <1>5 DEF AllOf
<1>8. ASSUME EndsWith(s, d) \/ why = "change"
      PROVE  EndsWith(r, d)
  <2> SUFFICES ASSUME NEW n \in DOMAIN r,
                      \A m \in DOMAIN r : m > n => r[m].why # "change"
               PROVE  r[n].domain = d
    BY DEF EndsWith
  <2>1. CASE n = Len(s) + 1
    BY <1>4, <1>5, <2>1
  <2>2. CASE n \in 1..Len(s)
    <3>1. why # "change"
      BY <1>4, <1>5, <2>2
    <3>2. \A m \in DOMAIN s : m > n => s[m].why # "change"
      BY <1>4
    <3> QED
      BY <1>4, <1>8, <2>2, <3>1, <3>2 DEF EndsWith
  <2> QED
    BY <1>4, <2>1, <2>2
<1> QED
  BY <1>6, <1>7, <1>8 DEF r, x

\* Taking the first refresh away keeps both.
LEMMA TailOfQueue ==
  ASSUME NEW s, Queue(s), s # <<>>, NEW d
  PROVE  /\ Queue(Tail(s))
         /\ AllOf(s, d) => AllOf(Tail(s), d)
         /\ EndsWith(s, d) => EndsWith(Tail(s), d)
<1>1. PICK G : s \in Seq(Refreshes(G))
  BY DEF Queue
<1>2. /\ Tail(s) \in Seq(Refreshes(G))
      /\ Len(s) \in Nat
      /\ DOMAIN s = 1..Len(s)
      /\ DOMAIN Tail(s) = 1..(Len(s) - 1)
      /\ \A n \in 1..(Len(s) - 1) : Tail(s)[n] = s[n+1]
  BY <1>1, HeadTailProperties, LenProperties
<1> DEFINE r == Tail(s)
<1> HIDE DEF r
<1>3. AllOf(s, d) => AllOf(r, d)
  BY <1>2 DEF AllOf, r
<1>4. ASSUME EndsWith(s, d)
      PROVE  EndsWith(r, d)
  <2> SUFFICES ASSUME NEW n \in DOMAIN r,
                      \A m \in DOMAIN r : m > n => r[m].why # "change"
               PROVE  r[n].domain = d
    BY DEF EndsWith
  <2>1. n \in 1..(Len(s) - 1) /\ n + 1 \in DOMAIN s /\ r[n] = s[n+1]
    BY <1>2 DEF r
  <2>2. ASSUME NEW m \in DOMAIN s, m > n + 1
        PROVE  s[m].why # "change"
    <3>1. m - 1 \in DOMAIN r /\ m - 1 > n /\ r[m-1] = s[(m-1)+1] /\ (m-1)+1 = m
      BY <1>2, <2>1, <2>2 DEF r
    <3> QED
      BY <3>1
  <2> QED
    BY <1>4, <2>1, <2>2 DEF EndsWith
<1> QED
  BY <1>2, <1>3, <1>4 DEF Queue, r

\* So does what a refresh reads.
LEMMA GotOfQueue ==
  ASSUME NEW s, Queue(s), NEW n \in DOMAIN s, NEW x, NEW d
  PROVE  LET r == [s EXCEPT ![n].got = x]
         IN  /\ Queue(r)
             /\ AllOf(s, d) => AllOf(r, d)
             /\ EndsWith(s, d) => EndsWith(r, d)
<1> DEFINE r == [s EXCEPT ![n].got = x]
<1>1. PICK G : s \in Seq(Refreshes(G))
  BY DEF Queue
<1> DEFINE H == G \cup {x}
<1>2. s \in Seq(Refreshes(H))
  <2>1. Refreshes(G) \subseteq Refreshes(H)
    BY DEF Refreshes
  <2> QED
    BY <1>1, <2>1, SeqMonotonic
<1>3. /\ Len(s) \in Nat
      /\ DOMAIN s = 1..Len(s)
      /\ s[n] \in Refreshes(H)
  BY <1>2, LenProperties, ElementOfSeq
<1> DEFINE y == [s[n] EXCEPT !.got = x]
<1>4. y \in Refreshes(H) /\ y.domain = s[n].domain /\ y.why = s[n].why
  BY <1>3 DEF Refreshes
<1>5. r = [s EXCEPT ![n] = y]
  OBVIOUS
<1> HIDE DEF y, r
<1>6. /\ r \in Seq(Refreshes(H))
      /\ Len(r) = Len(s)
      /\ \A m \in 1..Len(s) : r[m] = IF m = n THEN y ELSE s[m]
  BY <1>2, <1>3, <1>4, <1>5, ExceptSeq
<1>7. DOMAIN r = DOMAIN s
  BY <1>3, <1>6, LenProperties
<1>8. \A m \in DOMAIN s : r[m].domain = s[m].domain /\ r[m].why = s[m].why
  BY <1>3, <1>4, <1>6
<1>9. Queue(r)
  BY <1>6 DEF Queue
<1>10. AllOf(s, d) => AllOf(r, d)
  BY <1>7, <1>8 DEF AllOf
<1>11. EndsWith(s, d) => EndsWith(r, d)
  BY <1>7, <1>8 DEF EndsWith
<1> QED
  BY <1>9, <1>10, <1>11 DEF r

\* The two mean the same of a queue without a change of account.
LEMMA WithoutChange ==
  ASSUME NEW s, NEW d
  PROVE  /\ AllOf(s, d) => EndsWith(s, d)
         /\ EndsWith(s, d) /\ (\A n \in DOMAIN s : s[n].why # "change") => AllOf(s, d)
BY DEF AllOf, EndsWith

-----------------------------------------------------------------------------
(* The invariant: outside a change of account every refresh that waits is of the *)
(* account shown; during one, those behind the last change are of the domain the *)
(* repository is at, and what is answered before is not shown.                  *)

TabsOK ==
  /\ \A t \in Settings : t \in Tabs
  /\ \A e \in edits : e.tab \in Tabs
  /\ active \in [Tabs -> Domains] /\ selected \in [Tabs -> Domains]
  /\ phase \in [Tabs -> {"settled", "hiding", "selecting", "refreshing"}]
  /\ \A t \in Tabs : active[t] = IF phase[t] = "hiding" THEN Anonymous ELSE selected[t]
  /\ reads = [t \in Tabs |-> reads[t]] /\ shown = [t \in Tabs |-> shown[t]]

Orderly(t) ==
  /\ Queue(reads[t])
  /\ EndsWith(reads[t], active[t])
  /\ ~Transitioning(t) => AllOf(reads[t], active[t])

ShownInv == TabsOK /\ (\A t \in Tabs : Orderly(t)) /\ ShownIsOfSubject

\* At first nothing waits and nobody is signed in.
LEMMA InitShown == Init => ShownInv
<1> SUFFICES ASSUME Init PROVE ShownInv
  OBVIOUS
<1>1. TabsOK
  BY SettingsType DEF Init, TabsOK, Domains
<1>2. ASSUME NEW t \in Tabs
      PROVE  Orderly(t)
  <2>1. reads[t] = <<>> /\ <<>> \in Seq(Refreshes({})) /\ DOMAIN <<>> = {}
    BY EmptySeq DEF Init
  <2> QED
    BY <2>1 DEF Orderly, Queue, EndsWith, AllOf
<1>3. ShownIsOfSubject
  BY DEF Init, ShownIsOfSubject, Snapshot
<1> QED
  BY <1>1, <1>2, <1>3 DEF ShownInv

\* A step that only adds a refresh of a tab's domain to its queue.
LEMMA EnqueueShown ==
  ASSUME ShownInv, NEW t \in Tabs, NEW why \in {"write", "peer"}, Enqueue(t, why),
         UNCHANGED <<active, selected, phase, shown>>,
         \A e \in edits' : e.tab \in Tabs
  PROVE  ShownInv'
<1>1. TabsOK'
  BY DEF ShownInv, TabsOK, Enqueue
<1>2. reads[t]' = Append(reads[t], Refresh(active[t], why))
      /\ \A o \in Tabs : o # t => reads[o]' = reads[o]
  BY DEF ShownInv, TabsOK, Enqueue
<1>3. /\ Queue(reads[t]')
      /\ EndsWith(reads[t]', active[t])
      /\ AllOf(reads[t], active[t]) => AllOf(reads[t]', active[t])
  BY <1>2, AppendRefresh DEF ShownInv, TabsOK, Orderly, Whys
<1>4. \A o \in Tabs : Orderly(o)'
  BY <1>2, <1>3 DEF ShownInv, Orderly, Transitioning
<1>5. ShownIsOfSubject'
  BY DEF ShownInv, ShownIsOfSubject
<1> QED
  BY <1>1, <1>4, <1>5 DEF ShownInv

\* Every step keeps the invariant.
LEMMA StepShown == ShownInv /\ [Next]_vars => ShownInv'
<1> SUFFICES ASSUME ShownInv, [Next]_vars PROVE ShownInv'
  OBVIOUS
<1>1. ASSUME NEW t \in Tabs, Read(t)
      PROVE  ShownInv'
  <2>1. PICK n \in DOMAIN reads[t] :
          reads' = [reads EXCEPT ![t][n].got = {events[reads[t][n].domain]}]
    BY <1>1 DEF Read
  <2> DEFINE x == {events[reads[t][n].domain]}
  <2>2. /\ reads[t]' = [reads[t] EXCEPT ![n].got = x]
        /\ \A o \in Tabs : o # t => reads[o]' = reads[o]
    BY <2>1 DEF ShownInv, TabsOK
  <2> HIDE DEF x
  <2>3. /\ Queue(reads[t]')
        /\ EndsWith(reads[t]', active[t])
        /\ AllOf(reads[t], active[t]) => AllOf(reads[t]', active[t])
    BY <2>2, GotOfQueue DEF ShownInv, Orderly
  <2>4. \A o \in Tabs : Orderly(o)'
    BY <1>1, <2>2, <2>3 DEF ShownInv, Orderly, Transitioning, Read, view
  <2> QED
    BY <1>1, <2>1, <2>4 DEF ShownInv, TabsOK, ShownIsOfSubject, Read, view
<1>2. ASSUME NEW t \in Tabs, Show(t)
      PROVE  ShownInv'
  <2> DEFINE r == Head(reads[t])
  <2>1. /\ reads[t]' = Tail(reads[t])
        /\ \A o \in Tabs : o # t => reads[o]' = reads[o]
        /\ UNCHANGED <<edits, active, selected, phase>>
    BY <1>2 DEF ShownInv, TabsOK, Show
  <2>2. reads[t] # <<>>
    BY <1>2 DEF Show
  <2>3. /\ Queue(reads[t]')
        /\ EndsWith(reads[t]', active[t])
        /\ AllOf(reads[t], active[t]) => AllOf(reads[t]', active[t])
    BY <2>1, <2>2, TailOfQueue DEF ShownInv, Orderly
  <2>4. \A o \in Tabs : Orderly(o)'
    BY <2>1, <2>3 DEF ShownInv, Orderly, Transitioning
  <2>5. ~Transitioning(t) => r.domain = selected[t]
    <3>1. PICK G : reads[t] \in Seq(Refreshes(G))
      BY DEF ShownInv, Orderly, Queue
    <3>2. r = reads[t][1] /\ 1 \in DOMAIN reads[t]
      BY <2>2, <3>1
    <3>3. ~Transitioning(t) => r.domain = active[t]
      BY <3>2 DEF ShownInv, Orderly, AllOf
    <3> QED
      BY <3>3 DEF ShownInv, TabsOK, Transitioning
  <2>6. shown' = IF Transitioning(t) THEN shown
                 ELSE [shown EXCEPT ![t] = Snapshot(r.domain, UNION r.got)]
    BY <1>2 DEF Show
  <2>7. ShownIsOfSubject' /\ shown' = [o \in Tabs |-> shown'[o]]
    BY <2>1, <2>5, <2>6 DEF ShownInv, TabsOK, ShownIsOfSubject, Snapshot
  <2>8. reads' = [o \in Tabs |-> reads'[o]]
    BY <1>2 DEF Show, ShownInv, TabsOK
  <2> QED
    BY <2>1, <2>4, <2>7, <2>8 DEF ShownInv, TabsOK
<1>3. ASSUME NEW t \in Tabs, Hear(t)
      PROVE  ShownInv'
  BY <1>3, EnqueueShown DEF Hear, ShownInv, TabsOK
<1>4. ASSUME NEW t \in Tabs, NEW d \in Domains, Observe(t, d)
      PROVE  ShownInv'
  <2>1. TabsOK'
    BY <1>4 DEF ShownInv, TabsOK, Observe, Domains
  <2>2. ShownIsOfSubject'
    BY <1>4 DEF ShownInv, TabsOK, ShownIsOfSubject, Observe, Empty, Snapshot
  <2>3. active'[t] = Anonymous /\ phase'[t] = "hiding" /\ Anonymous \in Domains
    BY <1>4 DEF ShownInv, TabsOK, Observe, Domains
  <2>4. Queue(reads[t]') /\ EndsWith(reads[t]', Anonymous)
    <3>1. CASE active[t] = Anonymous
      BY <1>4, <3>1 DEF Observe, ShownInv, Orderly
    <3>2. CASE active[t] # Anonymous
      <4>1. reads[t]' = Append(reads[t], Refresh(Anonymous, "change"))
        BY <1>4, <3>2 DEF Observe, ShownInv, TabsOK
      <4> QED
        BY <2>3, <4>1, AppendRefresh DEF ShownInv, Orderly, Whys
    <3> QED
      BY <3>1, <3>2
  <2>5. \A o \in Tabs : o # t => /\ reads[o]' = reads[o]
                                 /\ active'[o] = active[o]
                                 /\ phase'[o] = phase[o]
    BY <1>4 DEF ShownInv, TabsOK, Observe
  <2>6. \A o \in Tabs : Orderly(o)'
    BY <2>3, <2>4, <2>5 DEF ShownInv, Orderly, Transitioning
  <2> QED
    BY <2>1, <2>2, <2>6 DEF ShownInv
<1>5. ASSUME NEW t \in Tabs, Select(t)
      PROVE  ShownInv'
  <2> DEFINE next == IF phase[t] = "hiding" /\ selected[t] # Anonymous THEN "selecting"
                     ELSE IF Transitioning(t) THEN "refreshing" ELSE "settled"
  <2>1. /\ \A n \in DOMAIN reads[t] : reads[t][n].why # "change"
        /\ phase' = [phase EXCEPT ![t] = next]
        /\ active' = [active EXCEPT ![t] = selected[t]]
        /\ reads' = IF next = "settled" THEN reads
                    ELSE [reads EXCEPT ![t] = Append(@, Refresh(selected[t], "change"))]
        /\ UNCHANGED <<edits, selected, shown>>
    BY <1>5 DEF Select
  <2>2. next \in {"selecting", "refreshing", "settled"}
    OBVIOUS
  <2>3. next # "selecting" => active[t] = selected[t]
    BY DEF ShownInv, TabsOK
  <2>4. AllOf(reads[t], active[t]) /\ Queue(reads[t])
    BY <2>1, WithoutChange DEF ShownInv, Orderly
  <2> HIDE DEF next
  <2>5. TabsOK'
    BY <2>1, <2>2 DEF ShownInv, TabsOK
  <2>6. /\ active'[t] = selected[t] /\ selected[t] \in Domains
        /\ phase'[t] = next
        /\ \A o \in Tabs : o # t => /\ reads[o]' = reads[o]
                                    /\ active'[o] = active[o]
                                    /\ phase'[o] = phase[o]
    BY <2>1, <2>2 DEF ShownInv, TabsOK
  <2>7. /\ Queue(reads[t]')
        /\ EndsWith(reads[t]', selected[t])
        /\ next # "selecting" => AllOf(reads[t]', selected[t])
    <3>1. CASE next = "settled"
      BY <2>1, <2>3, <2>4, <3>1, WithoutChange
    <3>2. CASE next # "settled"
      <4>1. reads[t]' = Append(reads[t], Refresh(selected[t], "change"))
        BY <2>1, <3>2 DEF ShownInv, TabsOK
      <4> QED
        BY <2>3, <2>4, <2>6, <4>1, AppendRefresh DEF Whys
    <3> QED
      BY <3>1, <3>2
  <2>8. \A o \in Tabs : Orderly(o)'
    BY <2>2, <2>6, <2>7 DEF ShownInv, Orderly, Transitioning
  <2>9. ShownIsOfSubject'
    BY <2>1 DEF ShownInv, ShownIsOfSubject
  <2> QED
    BY <2>5, <2>8, <2>9 DEF ShownInv
<1>6. ASSUME NEW t \in Tabs, NEW d, NEW E, Write(t, d, E), edits' \subseteq edits
      PROVE  ShownInv'
  BY <1>6, EnqueueShown DEF Write, view, ShownInv, TabsOK
<1>7. CASE /\ UNCHANGED <<active, selected, phase, reads, shown>>
           /\ \A e \in edits' : e.tab \in Tabs
  BY <1>7 DEF ShownInv, TabsOK, Orderly, Transitioning, ShownIsOfSubject
<1>8. ASSUME NEW t \in Tabs, NEW type, NEW holding, NEW amount, NEW said, NEW at,
             Wait(Edit(t, type, holding, amount, said, at))
      PROVE  ShownInv'
  BY <1>7, <1>8 DEF Wait, Edit, view, ShownInv, TabsOK
<1>9a. ASSUME NEW t \in Tabs, NEW scanned \in Scanned, NEW preference \in Preferences,
              Add(t, scanned, preference)
       PROVE  ShownInv'
  BY <1>8, <1>9a DEF Add
<1>9. ASSUME NEW t \in Tabs, Change(t)
      PROVE  ShownInv'
  <2>1. ASSUME NEW type, NEW holding, NEW amount, NEW said, Touch(t, type, holding, amount, said)
        PROVE  ShownInv'
    BY <1>8, <2>1 DEF Touch
  <2> QED
    BY <1>9, <2>1 DEF Change
<1>10. ASSUME NEW t \in Settings, ImportRows(t) \/ Merge(t) \/ Replace(t) \/ Synchronize(t)
       PROVE  ShownInv'
  <2>1. t \in Tabs
    BY SettingsType
  <2> QED
    BY <1>6, <1>10, <2>1 DEF ImportRows, Merge, Replace, Restore, Synchronize
<1>11. ASSUME NEW t \in Settings, Export(t)
       PROVE  ShownInv'
  BY <1>7, <1>11 DEF Export, view, ShownInv, TabsOK
<1>12. ASSUME NEW e \in edits, Commit(e)
       PROVE  ShownInv'
  <2>1. e.tab \in Tabs /\ edits' \subseteq edits
    BY <1>12 DEF Commit, ShownInv, TabsOK
  <2> QED
    BY <1>6, <1>12, <2>1 DEF Commit
<1>13. ASSUME NEW e \in edits, Refuse(e)
       PROVE  ShownInv'
  BY <1>7, <1>13 DEF Refuse, view, ShownInv, TabsOK
<1>14. CASE UNCHANGED vars
  BY <1>7, <1>14 DEF vars, ShownInv, TabsOK
<1> QED
  BY <1>1, <1>2, <1>3, <1>4, <1>5, <1>9a, <1>9, <1>10, <1>11, <1>12, <1>13, <1>14,
     SettingsType
  DEF Next, Step

\* A page never shows the collection of another account than the one selected, however
\* the refreshes of writes, of messages and of changes of account overlap.
THEOREM ShownIsSelected == Spec => []ShownIsOfSubject
<1>1. ShownInv => ShownIsOfSubject
  BY DEF ShownInv
<1> QED
  BY <1>1, InitShown, StepShown, PTL DEF Spec

-----------------------------------------------------------------------------
(* The order of events.                                                       *)

\* Events a domain may have.
Proper(E) == E \subseteq EventType /\ IsFiniteSet(E) /\ Distinct(E)

\* What the orders of timestamps compare are numbers.
LEMMA TimesAreNumbers ==
  ASSUME NEW time \in Times
  PROVE  /\ Instant(time) \in Nat /\ Collated(time) \in Nat /\ Ordered(time) \in Nat
         /\ time \in Nat => Instant(time) = time /\ Collated(time) = 2 * time
<1>1. CASE time \in Nat
  BY <1>1 DEF Instant, Collated, Ordered
<1>2. CASE time \notin Nat
  BY <1>2, TimesType DEF Times, Instant, Collated, Ordered
<1> QED
  BY <1>1, <1>2

\* Before is a strict and total order of them.
LEMMA BeforeOrders ==
  ASSUME NEW E, Proper(E)
  PROVE  /\ \A e \in E : ~Before(e, e)
         /\ \A e, f \in E : e # f => Before(e, f) \/ Before(f, e)
         /\ \A e, f, g \in E : Before(e, f) /\ Before(f, g) => Before(e, g)
<1>1. \A e \in E : e.id \in Nat /\ Collated(e.at) \in Nat /\ e.seq \in Nat
  BY TimesAreNumbers DEF Proper, EventType
<1>2. \A e, f \in E : (e.id = f.id \/ (e.seq # 0 /\ e.seq = f.seq)) => e = f
  BY DEF Proper, Distinct
<1>3. \A e \in E : ~Before(e, e)
  BY <1>1 DEF Before
<1>4. \A e, f \in E : e # f => Before(e, f) \/ Before(f, e)
  BY <1>1, <1>2 DEF Before
<1>5. ASSUME NEW e \in E, NEW f \in E, NEW g \in E, Before(e, f), Before(f, g)
      PROVE  Before(e, g)
  BY <1>1, <1>5 DEF Before
<1> QED
  BY <1>3, <1>4, <1>5

Earlier(E, e) == {f \in E : Before(f, e)}
Position(E, e) == Cardinality(Earlier(E, e)) + 1

\* The events before one are fewer than all,
LEMMA PositionRange ==
  ASSUME NEW E, Proper(E), NEW e \in E
  PROVE  Position(E, e) \in 1..Cardinality(E) /\ Cardinality(E) \in Nat
<1>1. Earlier(E, e) \subseteq E \ {e}
  BY BeforeOrders DEF Earlier
<1>2. /\ IsFiniteSet(E \ {e})
      /\ Cardinality(E \ {e}) = Cardinality(E) - 1
      /\ Cardinality(E) \in Nat
  BY FS_RemoveElement, FS_CardinalityType DEF Proper
<1>3. IsFiniteSet(Earlier(E, e)) /\ Cardinality(Earlier(E, e)) <= Cardinality(E \ {e})
  BY <1>1, <1>2, FS_Subset
<1>4. Cardinality(Earlier(E, e)) \in Nat
  BY <1>3, FS_CardinalityType
<1> QED
  BY <1>2, <1>3, <1>4 DEF Position

\* and more are before a later one.
LEMMA PositionGrows ==
  ASSUME NEW E, Proper(E), NEW e \in E, NEW f \in E, Before(e, f)
  PROVE  Position(E, e) < Position(E, f)
<1>1. /\ Earlier(E, e) \subseteq Earlier(E, f)
      /\ e \in Earlier(E, f) /\ e \notin Earlier(E, e)
  BY BeforeOrders DEF Earlier
<1>2. IsFiniteSet(Earlier(E, f)) /\ IsFiniteSet(Earlier(E, e))
  <2>1. Earlier(E, f) \subseteq E /\ Earlier(E, e) \subseteq E
    BY DEF Earlier
  <2> QED
    BY <2>1, FS_Subset DEF Proper
<1>3. /\ Cardinality(Earlier(E, e)) <= Cardinality(Earlier(E, f))
      /\ Cardinality(Earlier(E, f)) = Cardinality(Earlier(E, e)) => Earlier(E, f) = Earlier(E, e)
  BY <1>1, <1>2, FS_Subset
<1>4. Cardinality(Earlier(E, e)) \in Nat /\ Cardinality(Earlier(E, f)) \in Nat
  BY <1>2, FS_CardinalityType
<1>5. Cardinality(Earlier(E, e)) # Cardinality(Earlier(E, f))
  BY <1>1, <1>3
<1> QED
  BY <1>3, <1>4, <1>5 DEF Position

\* Every position is that of an event,
LEMMA PositionReached ==
  ASSUME NEW E, Proper(E), NEW n \in 1..Cardinality(E)
  PROVE  \E e \in E : Position(E, e) = n
<1> DEFINE T == 1..Cardinality(E)
           f == [e \in E |-> Position(E, e)]
<1>1. Cardinality(E) \in Nat
  BY FS_CardinalityType DEF Proper
<1>2. IsFiniteSet(T) /\ Cardinality(T) = Cardinality(E)
  BY <1>1, FS_Interval
<1>3. f \in [E -> T]
  BY PositionRange
<1>4. ASSUME NEW d \in E, NEW e \in E, f[d] = f[e]
      PROVE  d = e
  <2>1. Position(E, d) = Position(E, e) /\ Position(E, d) \in Int
    BY <1>4, <1>3, <1>1
  <2>2. ~Before(d, e) /\ ~Before(e, d)
    BY <2>1, PositionGrows
  <2> QED
    BY <2>2, BeforeOrders
<1> HIDE DEF f, T
<1>5. f \in Injection(E, T)
  BY <1>3, <1>4 DEF Injection, IsInjective
<1>6. f \in Surjection(E, T)
  BY <1>2, <1>5, FS_Injection
<1>7. n \in T
  BY DEF T
<1>8. PICK e \in E : f[e] = n
  BY <1>6, <1>7 DEF Surjection
<1> QED
  BY <1>8 DEF f

\* and of only one.
LEMMA PositionIsOne ==
  ASSUME NEW E, Proper(E), NEW e \in E, NEW f \in E, Position(E, e) = Position(E, f)
  PROVE  e = f
<1>1. Position(E, e) \in Int /\ Position(E, f) \in Int
  BY PositionRange
<1>2. ~Before(e, f) /\ ~Before(f, e)
  BY <1>1, PositionGrows
<1> QED
  BY <1>2, BeforeOrders

\* A function on the first numbers is a sequence.
LEMMA FunctionIsSeq ==
  ASSUME NEW S, NEW c \in Nat, NEW s \in [1..c -> S]
  PROVE  s \in Seq(S) /\ Len(s) = c
<1>1. s \in UNION {[1..n -> S] : n \in Nat}
  OBVIOUS
<1>2. s \in Seq(S)
  BY <1>1, SeqDef
<1>3. Len(s) \in Nat /\ 1..Len(s) = 1..c
  BY <1>2, LenProperties
<1>4. (Len(s) = 0 \/ Len(s) \in 1..Len(s)) /\ (c = 0 \/ c \in 1..c)
  BY <1>3
<1> QED
  BY <1>2, <1>3, <1>4

\* A sequence of all the events, in their order.
Lists(s, E) ==
  /\ s \in Seq(E) /\ Len(s) = Cardinality(E)
  /\ \A m, n \in 1..Len(s) : m < n => Before(s[m], s[n])
  /\ \A e \in E : \E n \in 1..Len(s) : s[n] = e

\* Replayed is one,
LEMMA ReplayedLists ==
  ASSUME NEW E, Proper(E)
  PROVE  Lists(Replayed(E), E)
<1> DEFINE c(n) == CHOOSE e \in E : Cardinality({f \in E : Before(f, e)}) = n - 1
           s == [n \in 1..Cardinality(E) |-> c(n)]
<1>1. Cardinality(E) \in Nat
  BY FS_CardinalityType DEF Proper
<1>2. ASSUME NEW n \in 1..Cardinality(E)
      PROVE  s[n] \in E /\ Position(E, s[n]) = n
  <2>1. PICK e \in E : Position(E, e) = n
    BY PositionReached
  <2>2. Cardinality(Earlier(E, e)) \in Int
    <3>1. Earlier(E, e) \subseteq E
      BY DEF Earlier
    <3> QED
      BY <3>1, FS_Subset, FS_CardinalityType DEF Proper
  <2>3. Cardinality({f \in E : Before(f, e)}) = n - 1
    BY <2>1, <2>2 DEF Position, Earlier
  <2>4. c(n) \in E /\ Cardinality({f \in E : Before(f, c(n))}) = n - 1
    BY <2>3
  <2>5. s[n] = c(n)
    OBVIOUS
  <2> HIDE DEF c, s
  <2> QED
    BY <2>4, <2>5 DEF Position, Earlier
<1>3. Replayed(E) = s \o <<>>
  BY DEF Replayed
<1> HIDE DEF c
<1>4. s \in Seq(E) /\ Len(s) = Cardinality(E)
  <2>1. s \in [1..Cardinality(E) -> E]
    BY <1>2
  <2> HIDE DEF s
  <2> QED
    BY <1>1, <2>1, FunctionIsSeq
<1> HIDE DEF s
<1>4a. Replayed(E) = s
  BY <1>3, <1>4, ConcatEmptySeq
<1>5. ASSUME NEW e \in E
      PROVE  \E n \in 1..Len(s) : s[n] = e
  <2>1. Position(E, e) \in 1..Cardinality(E)
    BY PositionRange
  <2>2. s[Position(E, e)] = e
    BY <1>2, <2>1, PositionIsOne
  <2> QED
    BY <1>4, <2>1, <2>2
<1>6. ASSUME NEW m \in 1..Len(s), NEW n \in 1..Len(s), m < n
      PROVE  Before(s[m], s[n])
  <2>1. s[m] \in E /\ s[n] \in E /\ Position(E, s[m]) = m /\ Position(E, s[n]) = n
    BY <1>2, <1>4
  <2>2. s[m] # s[n] /\ ~Before(s[n], s[m])
    BY <1>1, <1>4, <1>6, <2>1, PositionGrows
  <2> QED
    BY <2>1, <2>2, BeforeOrders
<1> QED
  BY <1>4, <1>4a, <1>5, <1>6 DEF Lists

\* and the only one.
LEMMA ListsIsReplayed ==
  ASSUME NEW E, Proper(E), NEW s, Lists(s, E)
  PROVE  s = Replayed(E)
<1> DEFINE r == Replayed(E)
<1>1. Lists(r, E)
  BY ReplayedLists
<1>2. Cardinality(E) \in Nat
  BY FS_CardinalityType DEF Proper
<1> HIDE DEF r
<1>3. ASSUME NEW q, Lists(q, E), NEW n \in 1..Len(q)
      PROVE  q[n] \in E /\ Position(E, q[n]) = n
  <2>1. Len(q) \in Nat /\ q[n] \in E
    BY <1>2, <1>3, ElementOfSeq DEF Lists
  <2>2. Earlier(E, q[n]) = {q[m] : m \in 1..(n-1)}
    <3>1. ASSUME NEW m \in 1..Len(q)
          PROVE  Before(q[m], q[n]) <=> m < n
      <4>1. q[m] \in E
        BY <1>3, ElementOfSeq DEF Lists
      <4>2. m < n => Before(q[m], q[n])
        BY <1>3 DEF Lists
      <4>3. m > n => Before(q[n], q[m])
        BY <1>3 DEF Lists
      <4>4. m < n \/ m = n \/ m > n
        BY <2>1
      <4> QED
        BY <2>1, <4>1, <4>2, <4>3, <4>4, BeforeOrders
    <3>2. \A e \in E : \E m \in 1..Len(q) : q[m] = e
      BY <1>3 DEF Lists
    <3>3. \A m \in 1..Len(q) : q[m] \in E
      BY <1>3, ElementOfSeq DEF Lists
    <3>4. \A m \in 1..(n-1) : m \in 1..Len(q) /\ m < n
      BY <2>1
    <3>5. \A m \in 1..Len(q) : m < n => m \in 1..(n-1)
      BY <2>1
    <3> QED
      BY <3>1, <3>2, <3>3, <3>4, <3>5 DEF Earlier
  <2> DEFINE f == [m \in 1..(n-1) |-> q[m]]
             S == Earlier(E, q[n])
  <2>3. f \in Bijection(1..(n-1), S)
    <3>1. f \in [1..(n-1) -> S]
      BY <2>2
    <3>2. \A i, j \in 1..(n-1) : f[i] = f[j] => i = j
      <4> SUFFICES ASSUME NEW i \in 1..(n-1), NEW j \in 1..(n-1), i < j
                   PROVE  f[i] # f[j]
        BY <2>1
      <4>1. i \in 1..Len(q) /\ j \in 1..Len(q)
        BY <2>1
      <4>2. Before(q[i], q[j]) /\ q[i] \in E
        BY <1>3, <4>1, ElementOfSeq DEF Lists
      <4>3. q[i] # q[j]
        BY <4>2, BeforeOrders
      <4> QED
        BY <4>3
    <3>3. \A e \in S : \E m \in 1..(n-1) : f[m] = e
      BY <2>2
    <3> QED
      BY <3>1, <3>2, <3>3 DEF Bijection, Injection, IsInjective, Surjection
  <2>4. ExistsBijection(1..(n-1), S)
    BY <2>3 DEF ExistsBijection
  <2>5. IsFiniteSet(1..(n-1)) /\ Cardinality(1..(n-1)) = n - 1
    <3> DEFINE m == n - 1
    <3>1. m \in Nat
      BY <2>1
    <3> HIDE DEF m
    <3>2. IsFiniteSet(1..m) /\ Cardinality(1..m) = m
      BY <3>1, FS_Interval
    <3> QED
      BY <3>2 DEF m
  <2> HIDE DEF S, f
  <2>6. Cardinality(S) = n - 1
    BY <2>4, <2>5, FS_Bijection
  <2>7. Position(E, q[n]) = (n - 1) + 1
    BY <2>6 DEF Position, S
  <2>8. n \in Nat
    BY <2>1
  <2> QED
    BY <2>1, <2>7, <2>8
<1>4. Len(s) = Len(r) /\ s \in Seq(E) /\ r \in Seq(E)
  BY <1>1 DEF Lists
<1>5. ASSUME NEW n \in 1..Len(s)
      PROVE  s[n] = r[n]
  <2>1. s[n] \in E /\ Position(E, s[n]) = n
    BY <1>3
  <2>2. r[n] \in E /\ Position(E, r[n]) = n
    BY <1>1, <1>3, <1>4
  <2> QED
    BY <2>1, <2>2, PositionIsOne
<1> QED
  BY <1>4, <1>5, SeqEqual DEF r

-----------------------------------------------------------------------------
(* Replay of a domain.  Induction is over sets of numbers, as in               *)
(* HoldingLogProofs.                                                          *)

\* A set of natural numbers has a least element.
LEMMA LeastNatural ==
  ASSUME NEW T \in SUBSET Nat, T # {}
  PROVE  \E x \in T : \A y \in T : x <= y
<1> DEFINE R == OpToRel(<, Nat)
<1>1. IsWellFoundedOn(R, Nat)
  BY NatLessThanWellFounded
<1>2. \A x, y \in Nat : y < x => <<y, x>> \in R
  BY DEF OpToRel
<1> HIDE DEF R
<1>3. PICK x \in T : \A y \in T : ~(<<y, x>> \in R)
  BY <1>1, WFMin
<1>4. \A y \in T : ~(y < x)
  BY <1>2, <1>3
<1>5. \A y \in T : x <= y
  BY <1>4
<1> QED
  BY <1>5

\* Induction, for the set of the numbers that have a property.
LEMMA SetInduction ==
  ASSUME NEW S, 0 \in S, \A n \in Nat : n \in S => n + 1 \in S
  PROVE  Nat \subseteq S
<1> SUFFICES ASSUME Nat \ S # {} PROVE FALSE
  OBVIOUS
<1>1. PICK m \in Nat \ S : \A y \in Nat \ S : m <= y
  BY LeastNatural
<1>2. m # 0
  OBVIOUS
<1>3. m - 1 \in Nat /\ m - 1 \in S
  BY <1>1, <1>2
<1> QED
  BY <1>1, <1>3

\* The holdings that events are about, and a log that says nothing of them yet.
Named(E) == {e.holding : e \in E}
NothingYet(E) == [h \in Named(E) |-> -1]
Then(E, q, op) == Log(E)!After(q, op)

\* The quantities of the first n operations solve their recursive definition.
Solves(E, ops, n, g) ==
  g = [i \in 0..n |-> IF i = 0 THEN NothingYet(E) ELSE Then(E, g[i-1], ops[i])]

\* It has a solution at every length.
LEMMA ReplayExists ==
  ASSUME NEW E, NEW ops, NEW n \in Nat
  PROVE  \E g : Solves(E, ops, n, g)
<1> DEFINE S == {m \in Nat : \E g : Solves(E, ops, m, g)}
<1>1. 0 \in S
  <2>1. Solves(E, ops, 0, [i \in 0..0 |-> NothingYet(E)])
    BY DEF Solves
  <2> QED
    BY <2>1
<1>2. ASSUME NEW m \in Nat, m \in S
      PROVE  m + 1 \in S
  <2>1. PICK g : Solves(E, ops, m, g)
    BY <1>2
  <2> DEFINE h == [i \in 0..(m+1) |-> IF i <= m THEN g[i] ELSE Then(E, g[m], ops[m+1])]
  <2>2. \A i \in 0..m : g[i] = IF i = 0 THEN NothingYet(E) ELSE Then(E, g[i-1], ops[i])
    BY <2>1 DEF Solves
  <2>3. ASSUME NEW i \in 0..(m+1)
        PROVE  h[i] = IF i = 0 THEN NothingYet(E) ELSE Then(E, h[i-1], ops[i])
    <3>1. CASE i = 0
      BY <2>2, <3>1
    <3>2. CASE i \in 1..m
      <4>1. h[i] = g[i] /\ h[i-1] = g[i-1] /\ i # 0
        BY <3>2
      <4>2. g[i] = Then(E, g[i-1], ops[i])
        BY <2>2, <3>2
      <4> QED
        BY <4>1, <4>2
    <3>3. CASE i = m + 1
      <4>1. h[i] = Then(E, g[m], ops[m+1]) /\ h[i-1] = g[m] /\ i # 0
        BY <3>3
      <4> QED
        BY <3>3, <4>1
    <3> QED
      BY <3>1, <3>2, <3>3
  <2>4. h = [i \in 0..(m+1) |-> h[i]]
    OBVIOUS
  <2> HIDE DEF h
  <2>5. Solves(E, ops, m + 1, h)
    BY <2>3, <2>4, Zenon DEF Solves
  <2> QED
    BY <2>5
<1> HIDE DEF S
<1>3. n \in S
  BY <1>1, <1>2, SetInduction
<1> QED
  BY <1>3 DEF S

\* So the quantities are what their definition says.
LEMMA QuantitiesAre ==
  ASSUME NEW E, NEW ops, Len(ops) \in Nat
  PROVE  /\ Log(E)!Quantities(ops)[0] = NothingYet(E)
         /\ \A n \in 1..Len(ops) :
              Log(E)!Quantities(ops)[n] = Then(E, Log(E)!Quantities(ops)[n-1], ops[n])
<1> DEFINE q == Log(E)!Quantities(ops)
<1>1. q = CHOOSE g : Solves(E, ops, Len(ops), g)
  BY Zenon DEF Log!Quantities, Log!NeverAdded, Solves, NothingYet, Named, Then
<1> HIDE DEF q
<1>2. Solves(E, ops, Len(ops), q)
  BY <1>1, ReplayExists
<1>3. \A n \in 0..Len(ops) : q[n] = IF n = 0 THEN NothingYet(E) ELSE Then(E, q[n-1], ops[n])
  BY <1>2 DEF Solves
<1>4. q[0] = NothingYet(E)
  BY <1>3
<1>5. \A n \in 1..Len(ops) : q[n] = Then(E, q[n-1], ops[n])
  BY <1>3
<1> QED
  BY <1>4, <1>5 DEF q

\* An operation changes the quantity of its own holding,
LEMMA OneHolding ==
  ASSUME NEW E, NEW q \in [Named(E) -> Int], NEW op,
         op.holding \in Named(E), op.amount \in Int
  PROVE  /\ Then(E, q, op) \in [Named(E) -> Int]
         /\ \A h \in Named(E) : h # op.holding => Then(E, q, op)[h] = q[h]
<1>1. q[op.holding] \in Int /\ q[op.holding] + op.amount \in Int
  OBVIOUS
<1> QED
  BY <1>1 DEF Then, Log!After, Named

\* and depends on nothing else.
LEMMA ByItself ==
  ASSUME NEW E, NEW F, NEW q \in [Named(E) -> Int], NEW r \in [Named(F) -> Int],
         NEW op, op.holding \in Named(E), op.holding \in Named(F),
         q[op.holding] = r[op.holding],
         NEW same, same.type = op.type, same.holding = op.holding, same.amount = op.amount
  PROVE  /\ Then(E, q, op)[op.holding] = Then(F, r, same)[op.holding]
         /\ Log(E)!Legal(q, op) <=> Log(F)!Legal(r, same)
<1>1. Then(E, q, op)[op.holding] = Then(F, r, same)[op.holding]
  BY DEF Then, Log!After
<1>2. Log(E)!Legal(q, op) <=> Log(F)!Legal(r, same)
  BY DEF Log!Legal, Log!NeverAdded
<1> QED
  BY <1>1, <1>2

\* What the holdings of a domain are along its replay, and at its end.
Held(E) == Log(E)!Quantities(Replayed(E))
LogLength(E) == Len(Replayed(E))

\* The replay of a domain.
LEMMA Replay ==
  ASSUME NEW E, Proper(E)
  PROVE  /\ LogLength(E) \in Nat
         /\ \A n \in 1..LogLength(E) : /\ Replayed(E)[n] \in E
                                   /\ Replayed(E)[n].holding \in Named(E)
                                   /\ Replayed(E)[n].amount \in Int
         /\ \A n \in 0..LogLength(E) : Held(E)[n] \in [Named(E) -> Int]
         /\ Held(E)[0] = NothingYet(E)
         /\ \A n \in 1..LogLength(E) : Held(E)[n] = Then(E, Held(E)[n-1], Replayed(E)[n])
<1> DEFINE s == Replayed(E)
           q == Held(E)
           t == LogLength(E)
<1>1. s \in Seq(E) /\ t = Len(s) /\ t \in Nat
  BY ReplayedLists DEF Lists, LogLength
<1>2. q[0] = NothingYet(E) /\ \A n \in 1..t : q[n] = Then(E, q[n-1], s[n])
  BY <1>1, QuantitiesAre DEF Held, LogLength
<1> HIDE DEF s, q, t
<1>3. \A n \in 1..t : s[n] \in E
  BY <1>1, ElementOfSeq
<1>4. \A e \in E : e.holding \in Named(E) /\ e.amount \in Int
  BY DEF Proper, EventType, Named
<1> DEFINE S == {n \in Nat : n <= t => q[n] \in [Named(E) -> Int]}
<1>5. 0 \in S
  BY <1>2 DEF NothingYet
<1>6. ASSUME NEW n \in Nat, n \in S
      PROVE  n + 1 \in S
  <2>1. CASE n + 1 <= t
    <3>1. n + 1 \in 1..t /\ (n + 1) - 1 = n /\ q[n] \in [Named(E) -> Int]
      BY <1>1, <1>6, <2>1
    <3>2. q[n+1] = Then(E, q[n], s[n+1])
      BY <1>2, <3>1
    <3>3. s[n+1].holding \in Named(E) /\ s[n+1].amount \in Int
      BY <1>3, <1>4, <3>1
    <3>4. q[n+1] \in [Named(E) -> Int]
      BY <3>1, <3>2, <3>3, OneHolding
    <3> QED
      BY <3>4
  <2>2. CASE ~(n + 1 <= t)
    BY <2>2
  <2> QED
    BY <2>1, <2>2
<1> HIDE DEF S
<1>7. Nat \subseteq S
  BY <1>5, <1>6, SetInduction
<1>8. \A n \in 0..t : q[n] \in [Named(E) -> Int]
  BY <1>1, <1>7 DEF S
<1> QED
  BY <1>1, <1>2, <1>3, <1>4, <1>8 DEF s, q, t

\* r is s with f at position k.
Inserted(s, f, r, k) ==
  /\ r[k] = f
  /\ \A n \in 1..(k-1) : r[n] = s[n]
  /\ \A n \in k..Len(s) : r[n+1] = s[n]

\* A new event takes its place among the others, which keep their order.
LEMMA Insertion ==
  ASSUME NEW E, Proper(E), NEW f, f \notin E, Proper(E \cup {f})
  PROVE  LET F == E \cup {f}
         IN  /\ LogLength(F) = LogLength(E) + 1
             /\ \E k \in 1..(LogLength(E) + 1) : Inserted(Replayed(E), f, Replayed(F), k)
<1> DEFINE F == E \cup {f}
           r == Replayed(F)
           t == LogLength(F)
<1>1. /\ Lists(r, F)
      /\ r \in Seq(F) /\ t \in Nat /\ t = Len(r)
  BY ReplayedLists, Replay DEF Lists, LogLength
<1>2. /\ \A n \in 1..t : r[n] \in F
      /\ \A m, n \in 1..t : m < n => Before(r[m], r[n])
      /\ \A e \in F : \E n \in 1..t : r[n] = e
      /\ t = Cardinality(F)
  BY <1>1, ElementOfSeq DEF Lists
<1>3. Cardinality(F) = Cardinality(E) + 1 /\ Cardinality(E) \in Nat
  BY FS_AddElement, FS_CardinalityType DEF Proper
<1>4. /\ \A e \in F : ~Before(e, e)
      /\ f \in F
      /\ Proper(F)
  BY BeforeOrders
<1> HIDE DEF r, t, F
<1>5. PICK k \in 1..t : r[k] = f
  BY <1>2, <1>4
<1>6. \A n \in 1..t : r[n] = f => n = k
  <2> SUFFICES ASSUME NEW n \in 1..t, r[n] = f, n # k
               PROVE  FALSE
    OBVIOUS
  <2>1. n < k \/ k < n
    BY <1>1
  <2> QED
    BY <1>2, <1>4, <1>5, <2>1
<1> DEFINE At(n) == IF n < k THEN n ELSE n + 1
           s == [n \in 1..(t-1) |-> r[At(n)]]
<1>7. /\ \A n \in 1..(t-1) : At(n) \in 1..t /\ At(n) # k
      /\ \A m, n \in 1..(t-1) : m < n => At(m) < At(n)
      /\ \A i \in 1..t : i # k => \E n \in 1..(t-1) : At(n) = i
  <2>1. \A n \in 1..(t-1) : At(n) \in 1..t /\ At(n) # k
    BY <1>1
  <2>2. \A m, n \in 1..(t-1) : m < n => At(m) < At(n)
    BY <1>1
  <2>3. ASSUME NEW i \in 1..t, i # k
        PROVE  \E n \in 1..(t-1) : At(n) = i
    <3>1. CASE i < k
      <4>1. i \in 1..(t-1) /\ At(i) = i
        BY <1>1, <3>1
      <4> QED
        BY <4>1
    <3>2. CASE i > k
      <4>1. i - 1 \in 1..(t-1) /\ At(i-1) = i
        BY <1>1, <3>2
      <4> QED
        BY <4>1
    <3> QED
      BY <1>1, <2>3, <3>1, <3>2
  <2> QED
    BY <2>1, <2>2, <2>3
<1> HIDE DEF At
<1>8. \A n \in 1..(t-1) : s[n] = r[At(n)] /\ s[n] \in E
  BY <1>2, <1>6, <1>7 DEF F
<1>9. s \in Seq(E) /\ Len(s) = t - 1
  <2>1. t - 1 \in Nat
    BY <1>1, <1>5
  <2>2. s \in [1..(t-1) -> E]
    BY <1>8
  <2> HIDE DEF s
  <2> QED
    BY <2>1, <2>2, FunctionIsSeq
<1> HIDE DEF s
<1>10. Len(s) = Cardinality(E)
  BY <1>2, <1>3, <1>9
<1>11. \A m, n \in 1..Len(s) : m < n => Before(s[m], s[n])
  BY <1>2, <1>7, <1>8, <1>9
<1>12. ASSUME NEW e \in E
       PROVE  \E n \in 1..Len(s) : s[n] = e
  <2>1. PICK i \in 1..t : r[i] = e
    BY <1>2 DEF F
  <2>2. i # k
    BY <1>5, <2>1
  <2>3. PICK n \in 1..(t-1) : At(n) = i
    BY <1>7, <2>2
  <2> QED
    BY <1>8, <1>9, <2>1, <2>3
<1>13. s = Replayed(E)
  BY <1>9, <1>10, <1>11, <1>12, ListsIsReplayed DEF Lists
<1>14. LogLength(E) = t - 1
  BY <1>9, <1>13 DEF LogLength
<1>15. /\ \A n \in 1..(k-1) : n \in 1..(t-1) /\ At(n) = n
       /\ \A n \in k..(t-1) : n \in 1..(t-1) /\ At(n) = n + 1
  BY <1>1 DEF At
<1>16. /\ \A n \in 1..(k-1) : r[n] = s[n]
       /\ \A n \in k..(t-1) : r[n+1] = s[n]
  BY <1>8, <1>15
<1>17. k \in 1..(LogLength(E) + 1) /\ t = LogLength(E) + 1
  BY <1>1, <1>14
<1>18. Inserted(s, f, r, k)
  BY <1>5, <1>9, <1>16 DEF Inserted
<1> QED
  BY <1>13, <1>17, <1>18 DEF r, t, F

\* The logs without and with it: they are the same up to its place, and from there one
\* is a step ahead of the other.
Beside(E, f) ==
  LET F == E \cup {f}
        t == LogLength(E)
    IN  /\ Named(F) = Named(E) /\ LogLength(F) = t + 1 /\ t \in Nat
        /\ \A n \in 0..(t+1) : Held(F)[n] \in [Named(E) -> Int]
        /\ \A n \in 1..(t+1) : Held(F)[n] = Then(E, Held(F)[n-1], Replayed(F)[n])
        /\ f.amount \in Int
        /\ \E k \in 1..(t+1) :
             /\ Replayed(F)[k] = f
             /\ \A n \in 1..(k-1) : Replayed(F)[n] = Replayed(E)[n]
             /\ \A n \in k..t : Replayed(F)[n+1] = Replayed(E)[n]
             /\ \A n \in 0..(k-1) : Held(F)[n] = Held(E)[n]

\* They are so, whatever the event.
LEMMA Alongside ==
  ASSUME NEW E, Proper(E), NEW f, f \notin E, Proper(E \cup {f}), f.holding \in Named(E)
  PROVE  Beside(E, f)
<1> DEFINE F == E \cup {f}
           s == Replayed(E)
           r == Replayed(F)
           q == Held(E)
           u == Held(F)
           t == LogLength(E)
<1>1. Named(F) = Named(E)
  BY DEF Named
<1>2. PICK k \in 1..(t+1) :
        /\ r[k] = f
        /\ \A n \in 1..(k-1) : r[n] = s[n]
        /\ \A n \in k..t : r[n+1] = s[n]
  <2>1. PICK k \in 1..(t+1) : Inserted(s, f, r, k)
    BY Insertion
  <2> QED
    BY <2>1 DEF Inserted, LogLength
<1>3. LogLength(F) = t + 1 /\ t \in Nat
  BY Insertion, Replay
<1>4. /\ \A n \in 1..t : s[n] \in E /\ s[n].holding \in Named(E) /\ s[n].amount \in Int
      /\ \A n \in 0..t : q[n] \in [Named(E) -> Int]
      /\ q[0] = NothingYet(E)
      /\ \A n \in 1..t : q[n] = Then(E, q[n-1], s[n])
  BY Replay
<1>5. /\ \A n \in 0..(t+1) : u[n] \in [Named(E) -> Int]
      /\ u[0] = NothingYet(E)
      /\ \A n \in 1..(t+1) : u[n] = Then(E, u[n-1], r[n])
  <2>1. /\ \A n \in 0..(t+1) : u[n] \in [Named(F) -> Int]
        /\ u[0] = NothingYet(F)
        /\ \A n \in 1..(t+1) : u[n] = Then(F, u[n-1], r[n])
    BY <1>3, Replay
  <2>2. \A v, op : Then(F, v, op) = Then(E, v, op)
    BY DEF Then, Log!After
  <2> QED
    BY <1>1, <2>1, <2>2 DEF NothingYet
<1>6. f.amount \in Int
  BY DEF Proper, EventType
<1> HIDE DEF F, s, r, q, u, t
<1>7. \A n \in 0..(k-1) : u[n] = q[n]
  <2> DEFINE S == {n \in Nat : n <= k - 1 => u[n] = q[n]}
  <2>1. 0 \in S
    BY <1>4, <1>5
  <2>2. ASSUME NEW n \in Nat, n \in S
        PROVE  n + 1 \in S
    <3>1. CASE n + 1 <= k - 1
      <4>1. /\ n + 1 \in 1..(k-1) /\ n + 1 \in 1..t /\ n + 1 \in 1..(t+1)
            /\ (n + 1) - 1 = n /\ u[n] = q[n]
        BY <1>2, <1>3, <2>2, <3>1
      <4>2. r[n+1] = s[n+1]
        BY <1>2, <4>1
      <4>3. u[n+1] = Then(E, u[n], r[n+1]) /\ q[n+1] = Then(E, q[n], s[n+1])
        BY <1>4, <1>5, <4>1
      <4> QED
        BY <4>1, <4>2, <4>3
    <3>2. CASE ~(n + 1 <= k - 1)
      BY <3>2
    <3> QED
      BY <3>1, <3>2
  <2> HIDE DEF S
  <2>3. Nat \subseteq S
    BY <2>1, <2>2, SetInduction
  <2> QED
    BY <2>3 DEF S
<1> QED
  BY <1>1, <1>2, <1>3, <1>5, <1>6, <1>7 DEF Beside, F, s, r, q, u, t

\* A change of a holding that comes after everything the domain knows of it changes
\* nothing else, and can be written if the holding allows it now.
LEMMA ChangeReplays ==
  ASSUME NEW E, Proper(E), NEW f, f \notin E, Proper(E \cup {f}),
         f.holding \in Named(E),
         \A e \in E : e.holding = f.holding => Before(e, f)
  PROVE  LET F == E \cup {f}
         IN  /\ Named(F) = Named(E)
             /\ Held(F)[LogLength(F)] = Then(E, Held(E)[LogLength(E)], f)
             /\ Strict(E) /\ Log(E)!Legal(Held(E)[LogLength(E)], f) => Strict(F)
<1> DEFINE F == E \cup {f}
           s == Replayed(E)
           r == Replayed(F)
           q == Held(E)
           u == Held(F)
           t == LogLength(E)
           g == f.holding
<1>0. Beside(E, f)
  BY Alongside
<1>1. Named(F) = Named(E)
  BY <1>0 DEF Beside
<1>2. PICK k \in 1..(t+1) :
        /\ r[k] = f
        /\ \A n \in 1..(k-1) : r[n] = s[n]
        /\ \A n \in k..t : r[n+1] = s[n]
        /\ \A n \in 0..(k-1) : u[n] = q[n]
  BY <1>0 DEF Beside
<1>3. LogLength(F) = t + 1 /\ t \in Nat
  BY <1>0 DEF Beside
<1>4. /\ \A n \in 1..t : s[n] \in E /\ s[n].holding \in Named(E) /\ s[n].amount \in Int
      /\ \A n \in 0..t : q[n] \in [Named(E) -> Int]
      /\ \A n \in 1..t : q[n] = Then(E, q[n-1], s[n])
  BY Replay
<1>5. /\ \A n \in 0..(t+1) : u[n] \in [Named(E) -> Int]
      /\ \A n \in 1..(t+1) : u[n] = Then(E, u[n-1], r[n])
  BY <1>0 DEF Beside
<1>6. f.amount \in Int
  BY <1>0 DEF Beside
\* Nothing after f in the new log is of its holding.
<1>7. \A n \in k..t : s[n].holding # g
  <2> SUFFICES ASSUME NEW n \in k..t, s[n].holding = g
               PROVE  FALSE
    OBVIOUS
  <2>1. n \in 1..t /\ n + 1 \in 1..(t+1) /\ k < n + 1
    BY <1>2, <1>3
  <2>2. s[n] \in E /\ Before(s[n], f)
    BY <1>4, <2>1
  <2>3. \A i, j \in 1..(t+1) : i < j => Before(r[i], r[j])
    BY <1>3, ReplayedLists DEF Lists, LogLength
  <2>4. Before(f, s[n])
    BY <1>2, <2>1, <2>3
  <2>5. f \in F /\ s[n] \in F /\ Proper(F)
    BY <2>2
  <2> HIDE DEF F
  <2> QED
    BY <2>2, <2>4, <2>5, BeforeOrders
<1> HIDE DEF F, s, r, q, u, t, g
<1>8. \A n \in 0..(k-1) : u[n] = q[n]
  BY <1>2
\* From f on they differ in its holding, which nothing changes any more.
<1> DEFINE new == Then(E, q[k-1], f)
<1>9. \A n \in k..(t+1) :
        /\ \A h \in Named(E) : h # g => u[n][h] = q[n-1][h]
        /\ u[n][g] = new[g]
        /\ q[n-1][g] = q[k-1][g]
  <2> DEFINE Same(n) == /\ \A h \in Named(E) : h # g => u[n][h] = q[n-1][h]
                        /\ u[n][g] = new[g]
                        /\ q[n-1][g] = q[k-1][g]
             S == {n \in Nat : n \in k..(t+1) => Same(n)}
  <2>1. 0 \in S
    BY <1>2
  <2>2. ASSUME NEW n \in Nat, n \in S
        PROVE  n + 1 \in S
    <3>1. CASE n + 1 = k
      <4>1. k \in 1..(t+1) /\ k - 1 \in 0..t /\ k - 1 \in 0..(k-1)
        BY <1>2, <1>3
      <4>2. u[k] = Then(E, u[k-1], f) /\ u[k-1] = q[k-1]
        BY <1>2, <1>5, <1>8, <4>1
      <4>3. u[k] = new /\ q[k-1] \in [Named(E) -> Int]
        BY <1>4, <4>1, <4>2
      <4>4. \A h \in Named(E) : h # g => u[k][h] = q[k-1][h]
        BY <1>6, <4>3, OneHolding DEF g
      <4>5. Same(k)
        BY <4>3, <4>4
      <4> QED
        BY <3>1, <4>5
    <3>2. CASE n \in k..t
      <4>1. /\ n \in 1..t /\ n + 1 \in 1..(t+1) /\ n - 1 \in 0..t /\ n \in 0..(t+1)
            /\ (n + 1) - 1 = n /\ Same(n)
        BY <1>2, <1>3, <2>2, <3>2
      <4>2. u[n+1] = Then(E, u[n], s[n])
        BY <1>2, <1>5, <3>2, <4>1
      <4>3. q[n] = Then(E, q[n-1], s[n])
        BY <1>4, <4>1
      <4> DEFINE op == s[n]
                 v == u[n]
                 w == q[n-1]
      <4>4. op.holding \in Named(E) /\ op.amount \in Int /\ op.holding # g
        BY <1>4, <1>7, <3>2, <4>1
      <4>5. v \in [Named(E) -> Int] /\ w \in [Named(E) -> Int]
        BY <1>4, <1>5, <4>1
      <4>6. \A h \in Named(E) : h # g => v[h] = w[h]
        BY <4>1
      <4>7. v[g] = new[g] /\ w[g] = q[k-1][g]
        BY <4>1
      <4>8. u[n+1] = Then(E, v, op) /\ q[n] = Then(E, w, op)
        BY <4>2, <4>3
      <4>9. g \in Named(E)
        BY DEF g
      <4> HIDE DEF op, v, w, new
      <4>10. Then(E, v, op)[op.holding] = Then(E, w, op)[op.holding]
        BY <4>4, <4>5, <4>6, ByItself
      <4>11. /\ \A h \in Named(E) : h # op.holding => Then(E, v, op)[h] = v[h]
             /\ \A h \in Named(E) : h # op.holding => Then(E, w, op)[h] = w[h]
        BY <4>4, <4>5, OneHolding
      <4>12. Same(n + 1)
        BY <4>1, <4>4, <4>6, <4>7, <4>8, <4>9, <4>10, <4>11
      <4> QED
        BY <4>12
    <3>3. CASE n + 1 \notin k..(t+1)
      BY <3>3
    <3> QED
      BY <1>2, <1>3, <3>1, <3>2, <3>3
  <2> HIDE DEF S, Same
  <2>3. Nat \subseteq S
    BY <2>1, <2>2, SetInduction
  <2>4. \A n \in k..(t+1) : Same(n)
    BY <1>2, <1>3, <2>3 DEF S
  <2> QED
    BY <2>4 DEF Same
<1>10. q[t][g] = q[k-1][g] /\ g \in Named(E)
  <2>1. t + 1 \in k..(t+1) /\ (t + 1) - 1 = t
    BY <1>2, <1>3
  <2> QED
    BY <1>9, <2>1 DEF g
<1>11. u[t+1] = Then(E, q[t], f)
  <2>1. /\ t + 1 \in k..(t+1) /\ (t + 1) - 1 = t /\ t + 1 \in 0..(t+1)
        /\ t \in 0..t /\ k - 1 \in 0..t
    BY <1>2, <1>3
  <2>2. /\ \A h \in Named(E) : h # g => u[t+1][h] = q[t][h]
        /\ u[t+1][g] = new[g]
        /\ u[t+1] \in [Named(E) -> Int]
    BY <1>5, <1>9, <2>1
  <2>3. q[t] \in [Named(E) -> Int] /\ q[k-1] \in [Named(E) -> Int]
    BY <1>4, <2>1
  <2> DEFINE v == q[t]
             w == q[k-1]
  <2> HIDE DEF v, w
  <2>4. v \in [Named(E) -> Int] /\ w \in [Named(E) -> Int] /\ v[g] = w[g]
    BY <1>10, <2>3 DEF v, w
  <2>5. /\ Then(E, v, f) \in [Named(E) -> Int]
        /\ \A h \in Named(E) : h # g => Then(E, v, f)[h] = v[h]
    BY <1>6, <1>10, <2>4, OneHolding DEF g
  <2>6. Then(E, v, f)[g] = Then(E, w, f)[g]
    BY <1>10, <2>4, ByItself DEF g
  <2>7. \A h \in Named(E) : u[t+1][h] = Then(E, v, f)[h]
    BY <2>2, <2>5, <2>6 DEF v, w, new
  <2>8. u[t+1] = Then(E, v, f)
    BY <2>2, <2>5, <2>7
  <2> QED
    BY <2>8 DEF v
<1>12. ASSUME Strict(E), Log(E)!Legal(q[t], f)
       PROVE  Strict(F)
  <2>1. \A n \in 1..t : Log(E)!Legal(q[n-1], s[n])
    BY <1>12 DEF Strict, Log!LegalFrom, q, s, t, Held, LogLength
  <2>2. ASSUME NEW n \in 1..(t+1)
        PROVE  Log(F)!Legal(u[n-1], r[n])
    <3>1. \A v, op : Log(F)!Legal(v, op) <=> Log(E)!Legal(v, op)
      BY DEF Log!Legal, Log!NeverAdded
    <3>2. CASE n < k
      <4>1. n \in 1..(k-1) /\ n - 1 \in 0..(k-1) /\ n \in 1..t
        BY <1>2, <1>3, <3>2
      <4>2. u[n-1] = q[n-1] /\ r[n] = s[n]
        BY <1>2, <1>8, <4>1
      <4> QED
        BY <2>1, <3>1, <4>1, <4>2
    <3>3. CASE n = k
      <4>1. k - 1 \in 0..(k-1) /\ k - 1 \in 0..t /\ t \in 0..t
        BY <1>2, <1>3
      <4>2. u[k-1] = q[k-1] /\ r[k] = f
        BY <1>2, <1>8, <4>1
      <4>3. q[k-1] \in [Named(E) -> Int] /\ q[t] \in [Named(E) -> Int]
        BY <1>4, <4>1
      <4> DEFINE v == q[t]
                 w == q[k-1]
      <4> HIDE DEF v, w
      <4>4. v \in [Named(E) -> Int] /\ w \in [Named(E) -> Int] /\ v[g] = w[g]
        BY <1>10, <4>3 DEF v, w
      <4>5. Log(E)!Legal(v, f) <=> Log(E)!Legal(w, f)
        BY <1>10, <4>4, ByItself DEF g
      <4> QED
        BY <1>12, <3>1, <3>3, <4>2, <4>5 DEF v, w
    <3>4. CASE n > k
      <4>1. /\ n - 1 \in k..t /\ n - 1 \in 1..t /\ (n - 1) + 1 = n
            /\ n - 1 \in k..(t+1) /\ n - 1 \in 0..(t+1) /\ (n - 1) - 1 \in 0..t
        BY <1>2, <1>3, <3>4
      <4> DEFINE m == n - 1
                 op == s[m]
                 v == u[m]
                 w == q[m-1]
      <4>2. r[n] = op /\ Log(E)!Legal(w, op)
        BY <1>2, <2>1, <4>1
      <4>3. op.holding \in Named(E) /\ op.holding # g
        BY <1>4, <1>7, <4>1
      <4>4. v \in [Named(E) -> Int] /\ w \in [Named(E) -> Int]
        BY <1>4, <1>5, <4>1
      <4>5. v[op.holding] = w[op.holding]
        BY <1>9, <4>1, <4>3
      <4>6. u[n-1] = v
        OBVIOUS
      <4> HIDE DEF m, op, v, w
      <4>7. Log(E)!Legal(v, op) <=> Log(E)!Legal(w, op)
        BY <4>3, <4>4, <4>5, ByItself
      <4> QED
        BY <3>1, <4>2, <4>6, <4>7
    <3> QED
      BY <1>2, <1>3, <3>2, <3>3, <3>4
  <2>3. Len(r) = t + 1
    BY <1>3 DEF LogLength, r
  <2> QED
    BY <2>2, <2>3 DEF Strict, Log!LegalFrom, u, r, Held
<1>13. Held(F)[LogLength(F)] = Then(E, Held(E)[LogLength(E)], f)
  BY <1>3, <1>11 DEF u, q, t
<1> QED
  BY <1>1, <1>12, <1>13 DEF F, q, t

\* Adding some to a holding there is at the end keeps what there is, wherever the
\* addition takes its place, if the log is legal without it and with it.
LEMMA MoreReplays ==
  ASSUME NEW E, Proper(E), Strict(E), NEW f, f \notin E, Proper(E \cup {f}),
         Strict(E \cup {f}), f.type = "holding.quantity-adjusted", f.amount > 0,
         f.holding \in Named(E), Held(E)[LogLength(E)][f.holding] > 0
  PROVE  LET F == E \cup {f}
         IN  /\ Named(F) = Named(E)
             /\ \A h \in Named(E) :
                  Held(F)[LogLength(F)][h] > 0 <=> Held(E)[LogLength(E)][h] > 0
<1> DEFINE F == E \cup {f}
           s == Replayed(E)
           r == Replayed(F)
           q == Held(E)
           u == Held(F)
           t == LogLength(E)
           g == f.holding
<1>0. Beside(E, f)
  BY Alongside
<1>1. Named(F) = Named(E)
  BY <1>0 DEF Beside
<1>2. PICK k \in 1..(t+1) :
        /\ r[k] = f
        /\ \A n \in 1..(k-1) : r[n] = s[n]
        /\ \A n \in k..t : r[n+1] = s[n]
        /\ \A n \in 0..(k-1) : u[n] = q[n]
  BY <1>0 DEF Beside
<1>3. LogLength(F) = t + 1 /\ t \in Nat
  BY <1>0 DEF Beside
<1>4. /\ \A n \in 1..t : s[n] \in E /\ s[n].holding \in Named(E) /\ s[n].amount \in Int
      /\ \A n \in 0..t : q[n] \in [Named(E) -> Int]
      /\ \A n \in 1..t : q[n] = Then(E, q[n-1], s[n])
  BY Replay
<1>5. /\ \A n \in 0..(t+1) : u[n] \in [Named(E) -> Int]
      /\ \A n \in 1..(t+1) : u[n] = Then(E, u[n-1], r[n])
  BY <1>0 DEF Beside
<1>6. f.amount \in Int
  BY <1>0 DEF Beside
<1>7. /\ \A n \in 1..t : Log(E)!Legal(q[n-1], s[n])
      /\ \A n \in 1..(t+1) : Log(E)!Legal(u[n-1], r[n])
  <2>1. Len(r) = t + 1 /\ Len(s) = t
    BY <1>3 DEF LogLength
  <2>2. \A v, op : Log(F)!Legal(v, op) <=> Log(E)!Legal(v, op)
    BY DEF Log!Legal, Log!NeverAdded
  <2>3. \A n \in 1..(t+1) : Log(F)!Legal(u[n-1], r[n])
    BY <2>1 DEF Strict, Log!LegalFrom, Held
  <2>4. \A n \in 1..t : Log(E)!Legal(q[n-1], s[n])
    BY <2>1 DEF Strict, Log!LegalFrom, Held
  <2> QED
    BY <2>2, <2>3, <2>4
<1>8. g \in Named(E) /\ q[t][g] > 0 /\ f.amount > 0 /\ f.type = "holding.quantity-adjusted"
  OBVIOUS
<1>8a. f.holding = g
  OBVIOUS
<1> HIDE DEF F, s, r, q, u, t, g
<1> DEFINE Same(n) == /\ \A h \in Named(E) : h # g => u[n][h] = q[n-1][h]
                      /\ \/ q[n-1][g] > 0 /\ u[n][g] = q[n-1][g] + f.amount
                         \/ q[n-1][g] = 0
           S == {n \in Nat : n \in k..(t+1) => Same(n)}
<1>9. 0 \in S
  BY <1>2
<1>10. ASSUME NEW n \in Nat, n \in S
       PROVE  n + 1 \in S
  <2>1. CASE n + 1 = k
    <3>1. k \in 1..(t+1) /\ k - 1 \in 0..t /\ k - 1 \in 0..(k-1)
      BY <1>2, <1>3
    <3> DEFINE v == q[k-1]
    <3>2. v \in [Named(E) -> Int] /\ u[k] = Then(E, v, f) /\ Log(E)!Legal(v, f)
      BY <1>2, <1>4, <1>5, <1>7, <3>1
    <3> HIDE DEF v
    <3>3. v[g] > 0 /\ v[g] + f.amount \in 0..MaxQuantity /\ v[g] \in Int
      BY <1>8, <1>8a, <3>2 DEF Log!Legal
    <3>4. Then(E, v, f)[g] = v[g] + f.amount
      BY <1>8, <1>8a, <3>2, <3>3 DEF Then, Log!After
    <3>5. \A h \in Named(E) : h # g => Then(E, v, f)[h] = v[h]
      BY <1>6, <1>8, <1>8a, <3>2, OneHolding
    <3>6. Same(k)
      BY <3>2, <3>3, <3>4, <3>5 DEF v
    <3> QED
      BY <2>1, <3>6
  <2>2. CASE n \in k..t
    <3>1. /\ n \in 1..t /\ n + 1 \in 1..(t+1) /\ n - 1 \in 0..t /\ n \in 0..(t+1)
          /\ (n + 1) - 1 = n /\ Same(n)
      BY <1>2, <1>3, <1>10, <2>2
    <3> DEFINE op == s[n]
               v == u[n]
               w == q[n-1]
    <3>2. u[n+1] = Then(E, v, op) /\ q[n] = Then(E, w, op)
      BY <1>2, <1>4, <1>5, <2>2, <3>1
    <3>3. Log(E)!Legal(w, op) /\ Log(E)!Legal(v, op)
      <4>1. r[n+1] = s[n]
        BY <1>2, <2>2
      <4> QED
        BY <1>7, <3>1, <4>1
    <3>4. op.holding \in Named(E) /\ op.amount \in Int
      BY <1>4, <3>1
    <3>5. v \in [Named(E) -> Int] /\ w \in [Named(E) -> Int]
      BY <1>4, <1>5, <3>1
    <3>6. /\ \A h \in Named(E) : h # g => v[h] = w[h]
          /\ (w[g] > 0 /\ v[g] = w[g] + f.amount) \/ w[g] = 0
      BY <3>1
    <3> HIDE DEF op, v, w
    <3>7. /\ \A h \in Named(E) : h # op.holding => Then(E, v, op)[h] = v[h]
          /\ \A h \in Named(E) : h # op.holding => Then(E, w, op)[h] = w[h]
      BY <3>4, <3>5, OneHolding
    <3>8. CASE op.holding # g
      <4>1. Then(E, v, op)[op.holding] = Then(E, w, op)[op.holding]
        BY <3>4, <3>5, <3>6, <3>8, ByItself
      <4>2. Same(n + 1)
        BY <1>8, <3>1, <3>2, <3>4, <3>6, <3>7, <3>8, <4>1
      <4> QED
        BY <4>2
    <3>9. CASE op.holding = g
      <4>1. w[g] > 0 /\ v[g] = w[g] + f.amount /\ w[g] \in Int /\ v[g] \in Int
        BY <1>8, <3>3, <3>5, <3>6, <3>9 DEF Log!Legal, Log!NeverAdded
      <4>2. \/ Then(E, w, op)[g] = 0
            \/ Then(E, w, op)[g] > 0 /\ Then(E, v, op)[g] = Then(E, w, op)[g] + f.amount
        <5>1. CASE op.type = "holding.quantity-adjusted"
          <6>1. w[g] + op.amount \in 0..MaxQuantity /\ v[g] + op.amount \in 0..MaxQuantity
            BY <3>3, <3>9, <5>1 DEF Log!Legal
          <6>2. /\ Then(E, w, op)[g] = w[g] + op.amount
                /\ Then(E, v, op)[g] = v[g] + op.amount
            BY <1>6, <1>8, <3>5, <3>9, <4>1, <5>1, <6>1 DEF Then, Log!After
          <6> QED
            BY <1>6, <3>4, <4>1, <6>1, <6>2, QuantityType
        <5>2. CASE op.type = "holding.updated"
          <6>1. Then(E, w, op)[g] = w[g] /\ Then(E, v, op)[g] = v[g]
            BY <1>6, <1>8, <3>5, <3>9, <4>1, <5>2 DEF Then, Log!After
          <6> QED
            BY <4>1, <6>1
        <5>3. CASE op.type = "holding.removed"
          BY <1>8, <3>5, <3>9, <4>1, <5>3 DEF Then, Log!After
        <5> QED
          BY <3>3, <3>9, <4>1, <5>1, <5>2, <5>3 DEF Log!Legal, Log!NeverAdded
      <4>3. Same(n + 1)
        BY <3>1, <3>2, <3>6, <3>7, <3>9, <4>2
      <4> QED
        BY <4>3
    <3> QED
      BY <3>8, <3>9
  <2>3. CASE n + 1 \notin k..(t+1)
    BY <2>3
  <2> QED
    BY <1>2, <1>3, <2>1, <2>2, <2>3
<1> HIDE DEF S
<1>11. Nat \subseteq S
  BY <1>9, <1>10, SetInduction
<1>12. t + 1 \in k..(t+1) /\ (t + 1) - 1 = t /\ t + 1 \in Nat
  BY <1>2, <1>3
<1>13. Same(t + 1)
  BY <1>11, <1>12 DEF S
<1>14. \A h \in Named(E) : u[t+1][h] > 0 <=> q[t][h] > 0
  <2>1. q[t][g] \in Int
    BY <1>3, <1>4, <1>8
  <2>2. u[t+1][g] = q[t][g] + f.amount
    BY <1>8, <1>12, <1>13
  <2>3. u[t+1][g] > 0
    BY <1>6, <1>8, <2>1, <2>2
  <2> QED
    BY <1>8, <1>12, <1>13, <2>3
<1> QED
  BY <1>1, <1>3, <1>14 DEF F, q, u, t

-----------------------------------------------------------------------------
(* The active holdings, and changes of one.                                   *)

\* A set of positions has a last one.
LEMMA LastPosition ==
  ASSUME NEW c \in Nat, NEW S \in SUBSET (1..c), S # {}
  PROVE  \E n \in S : \A i \in S : i <= n
<1> DEFINE T == {j \in Nat : c - j \in S}
<1>1. PICK i \in S : TRUE
  OBVIOUS
<1>2. c - i \in Nat /\ c - (c - i) = i
  OBVIOUS
<1>3. c - i \in T
  BY <1>1, <1>2
<1>4. PICK j \in T : \A m \in T : j <= m
  BY <1>3, LeastNatural
<1>5. ASSUME NEW m \in S
      PROVE  m <= c - j
  <2>1. c - m \in Nat /\ c - (c - m) = m
    OBVIOUS
  <2>2. c - m \in T
    BY <2>1
  <2>3. j <= c - m
    BY <1>4, <2>2
  <2> QED
    BY <1>4, <2>1, <2>3
<1> QED
  BY <1>4, <1>5

\* The last of some positions of the replay, and those about a holding.
Finally(P) == CHOOSE n \in P : \A i \in P : i <= n
About(E, h) == {n \in DOMAIN Replayed(E) : Replayed(E)[n].holding = h}
TellingOf(E, h, field) == {n \in About(E, h) : Replayed(E)[n].told[field] # None}

\* What the replay says of a holding.
HoldingAt(E, h) ==
  [id |-> h, quantity |-> Held(E)[LogLength(E)][h],
   copy |-> [field \in Fields |-> Replayed(E)[Finally(TellingOf(E, h, field))].told[field]],
   updatedAt |-> Replayed(E)[Finally(About(E, h))].updated]

\* The active holdings are those the replay leaves some of.
LEMMA HoldingsAre ==
  ASSUME NEW E
  PROVE  HoldingsOf(E) =
           {HoldingAt(E, h) :
              h \in {e.holding : e \in {f \in E : Held(E)[LogLength(E)][f.holding] > 0}}}
BY Zenon DEF HoldingsOf, Held, LogLength, Finally, About, TellingOf, HoldingAt

\* The replay has a position for every event, in their order.
LEMMA Positions ==
  ASSUME NEW E, Proper(E)
  PROVE  /\ LogLength(E) \in Nat /\ DOMAIN Replayed(E) = 1..LogLength(E)
         /\ \A n \in 1..LogLength(E) : Replayed(E)[n] \in E
         /\ \A m, n \in 1..LogLength(E) : m < n => Before(Replayed(E)[m], Replayed(E)[n])
         /\ \A e \in E : \E n \in 1..LogLength(E) : Replayed(E)[n] = e
<1>1. Lists(Replayed(E), E)
  BY ReplayedLists
<1> QED
  BY <1>1, Replay, LenProperties DEF Lists, LogLength

\* The event at the last of some positions comes after those at the others, and is the
\* last of them.
LEMMA FinalEvent ==
  ASSUME NEW E, Proper(E), NEW P \in SUBSET (DOMAIN Replayed(E)), P # {}
  PROVE  LET S == {Replayed(E)[n] : n \in P}
             e == Replayed(E)[Finally(P)]
         IN  /\ Finally(P) \in P /\ e \in E /\ e \in S
             /\ \A g \in S : g = e \/ Before(g, e)
             /\ e = LastOf(S)
<1> DEFINE log == Replayed(E)
           S == {log[n] : n \in P}
           n == Finally(P)
           e == log[n]
<1>1. /\ LogLength(E) \in Nat /\ DOMAIN log = 1..LogLength(E)
      /\ \A k \in 1..LogLength(E) : log[k] \in E
      /\ \A k, m \in 1..LogLength(E) : k < m => Before(log[k], log[m])
  BY Positions
<1>2. n \in P /\ \A i \in P : i <= n
  <2>1. \E k \in P : \A i \in P : i <= k
    BY <1>1, LastPosition
  <2> QED
    BY <2>1 DEF Finally
<1>2a. \A i \in P : i \in 1..LogLength(E)
  BY <1>1
<1> HIDE DEF n, log
<1>3. e \in E /\ e \in S
  BY <1>1, <1>2, <1>2a
<1>4. \A g \in S : g = e \/ Before(g, e)
  <2> SUFFICES ASSUME NEW i \in P
               PROVE  log[i] = e \/ Before(log[i], e)
    OBVIOUS
  <2>1. i \in 1..LogLength(E) /\ n \in 1..LogLength(E) /\ i <= n
    BY <1>1, <1>2, <1>2a
  <2>2. i = n \/ i < n
    BY <2>1
  <2> QED
    BY <1>1, <2>1, <2>2
<1>5. ASSUME NEW f \in S, \A g \in S : g = f \/ Before(g, f)
      PROVE  f = e
  <2>1. f \in E /\ (e = f \/ Before(e, f)) /\ (f = e \/ Before(f, e))
    BY <1>1, <1>2a, <1>3, <1>4, <1>5
  <2> HIDE DEF e
  <2> QED
    BY <1>3, <2>1, BeforeOrders
<1>6. e = LastOf(S)
  <2> HIDE DEF e, S
  <2> QED
    BY <1>3, <1>4, <1>5 DEF LastOf
<1> QED
  BY <1>2, <1>3, <1>4, <1>6 DEF log, n

\* An active holding is one that events name, with what the replay leaves of it; its
\* last change is that of the last event of it.
LEMMA ActiveHolding ==
  ASSUME NEW E, Proper(E), NEW x \in HoldingsOf(E)
  PROVE  /\ x.id \in Named(E) /\ x.id \in Nat
         /\ x.quantity = Held(E)[LogLength(E)][x.id] /\ x.quantity \in Int /\ x.quantity > 0
         /\ x = HoldingAt(E, x.id)
         /\ x.updatedAt \in Times
         /\ \E e \in E : /\ e = LastOf({g \in E : g.holding = x.id})
                         /\ e.holding = x.id /\ e.updated = x.updatedAt
                         /\ \A g \in E : g.holding = x.id => g = e \/ Before(g, e)
<1> DEFINE log == Replayed(E)
           quantity == Held(E)[LogLength(E)]
<1>1. PICK h \in {e.holding : e \in {f \in E : quantity[f.holding] > 0}} :
        x = HoldingAt(E, h)
  BY HoldingsAre
<1>2. h \in Named(E) /\ h \in Nat /\ quantity[h] > 0
  BY <1>1 DEF Named, Proper, EventType
<1>3. quantity[h] \in Int
  BY <1>2, Replay
<1> DEFINE P == About(E, h)
           e == log[Finally(P)]
<1>4. x.id = h /\ x.quantity = quantity[h] /\ x.updatedAt = e.updated
  BY <1>1 DEF HoldingAt
<1>5. /\ DOMAIN log = 1..LogLength(E)
      /\ \A n \in 1..LogLength(E) : log[n] \in E
      /\ \A g \in E : \E n \in 1..LogLength(E) : log[n] = g
  BY Positions
<1>6. {log[n] : n \in P} = {g \in E : g.holding = h}
  BY <1>5 DEF About
<1>7. P \in SUBSET (DOMAIN log) /\ P # {}
  BY <1>2, <1>5 DEF About, Named
<1> HIDE DEF P
<1>8. /\ Finally(P) \in P /\ e \in E
      /\ e = LastOf({log[n] : n \in P})
      /\ e \in {log[n] : n \in P}
      /\ \A g \in {log[n] : n \in P} : g = e \/ Before(g, e)
  BY <1>7, FinalEvent
<1> HIDE DEF e
<1>9. /\ e = LastOf({g \in E : g.holding = h}) /\ e.holding = h
      /\ \A g \in E : g.holding = h => g = e \/ Before(g, e)
  BY <1>6, <1>8
<1>10. e.updated \in Times
  BY <1>8 DEF Proper, EventType
<1> QED
  BY <1>1, <1>2, <1>3, <1>4, <1>8, <1>9, <1>10

\* A holding that is left over is active.
LEMMA IsActive ==
  ASSUME NEW E, NEW h \in Named(E), Held(E)[LogLength(E)][h] > 0
  PROVE  \E x \in HoldingsOf(E) : x.id = h
<1>1. h \in {e.holding : e \in {f \in E : Held(E)[LogLength(E)][f.holding] > 0}}
  BY DEF Named
<1>2. HoldingAt(E, h) \in HoldingsOf(E) /\ HoldingAt(E, h).id = h
  BY <1>1, HoldingsAre DEF HoldingAt
<1> QED
  BY <1>2

\* A new event of an active holding, later than its last change, comes after
\* everything the domain knows of the holding.
LEMMA ComesAfter ==
  ASSUME NEW E, Proper(E), NEW x \in HoldingsOf(E), Timely(E, x.id),
         NEW f \in EventType, f.seq = 0, f.holding = x.id, f.at \in Nat,
         f.at > Instant(x.updatedAt), \A e \in E : e.id # f.id
  PROVE  /\ f \notin E /\ Proper(E \cup {f}) /\ f.holding \in Named(E)
         /\ \A e \in E : e.holding = f.holding => Before(e, f)
<1>1. \A e \in E : e.id \in Nat /\ Collated(e.at) \in Nat /\ e.seq \in Nat
  BY TimesAreNumbers DEF Proper, EventType
<1>2. f.id \in Nat /\ Collated(f.at) = 2 * f.at
  BY TimesAreNumbers DEF EventType, Times
<1>3. f \notin E
  OBVIOUS
<1>4. Proper(E \cup {f})
  <2>1. IsFiniteSet(E \cup {f})
    BY FS_AddElement DEF Proper
  <2> QED
    BY <2>1 DEF Proper, Distinct
<1>5. PICK e \in E : /\ e = LastOf({g \in E : g.holding = x.id})
                     /\ e.holding = x.id /\ e.updated = x.updatedAt
                     /\ \A g \in E : g.holding = x.id => g = e \/ Before(g, e)
  BY ActiveHolding
<1>6. Before(e, f)
  <2>1. CASE e.seq # 0
    BY <1>1, <2>1 DEF Before
  <2>2. CASE e.seq = 0
    <3>1. e.at \in Nat /\ Instant(x.updatedAt) >= e.at
      BY <1>5, <2>2 DEF Timely
    <3>2. Instant(x.updatedAt) \in Nat
      BY ActiveHolding, TimesAreNumbers
    <3>3. Collated(e.at) = 2 * e.at
      BY <3>1, TimesAreNumbers DEF Times
    <3>4. Collated(e.at) < Collated(f.at)
      BY <1>2, <3>1, <3>2, <3>3
    <3> QED
      BY <2>2, <3>4 DEF Before
  <2> QED
    BY <1>1, <2>1, <2>2
<1>7. ASSUME NEW g \in E, g.holding = f.holding
      PROVE  Before(g, f)
  <2>1. g = e \/ Before(g, e)
    BY <1>5, <1>7
  <2>2. CASE g = e
    BY <1>6, <2>2
  <2>3. CASE Before(g, e)
    <3>1. g \in E \cup {f} /\ e \in E \cup {f} /\ f \in E \cup {f}
      OBVIOUS
    <3> QED
      BY <1>4, <1>6, <2>3, <3>1, BeforeOrders
  <2> QED
    BY <2>1, <2>2, <2>3
<1> QED
  BY <1>3, <1>4, <1>7, ActiveHolding

\* A finite set has a greatest element, whatever natural number it is measured by.
LEMMA Greatest ==
  ASSUME NEW X, IsFiniteSet(X), X # {}, NEW v \in [X -> Nat]
  PROVE  \E x \in X : \A y \in X : v[y] <= v[x]
<1> DEFINE Up(x) == {y \in X : v[y] <= v[x]}
           c == Cardinality(X)
           S == {Cardinality(Up(x)) : x \in X}
<1>1. \A x \in X : Up(x) \subseteq X /\ x \in Up(x)
  OBVIOUS
<1>2. ASSUME NEW x \in X
      PROVE  IsFiniteSet(Up(x)) /\ Cardinality(Up(x)) \in 1..c /\ c \in Nat
  <2>1. /\ IsFiniteSet(Up(x)) /\ Cardinality(Up(x)) <= c
        /\ c \in Nat /\ Cardinality(Up(x)) \in Nat
    <3> HIDE DEF Up
    <3> QED
      BY <1>1, FS_Subset, FS_CardinalityType
  <2>2. Cardinality(Up(x)) # 0
    <3> HIDE DEF Up
    <3> QED
      BY <1>1, <2>1, FS_EmptySet
  <2> QED
    BY <2>1, <2>2
<1>3. S \in SUBSET (1..c) /\ S # {} /\ c \in Nat
  BY <1>2
<1> HIDE DEF c, S
<1>4. PICK n \in S : \A i \in S : i <= n
  BY <1>3, LastPosition
<1>5. PICK x \in X : n = Cardinality(Up(x))
  BY <1>4 DEF S
<1>6. ASSUME NEW y \in X
      PROVE  v[y] <= v[x]
  <2> SUFFICES ASSUME v[x] < v[y] PROVE FALSE
    OBVIOUS
  <2>1. Up(x) \subseteq Up(y) /\ y \in Up(y) /\ y \notin Up(x)
    OBVIOUS
  <2>2. Cardinality(Up(y)) <= n
    BY <1>4 DEF S
  <2>3. Cardinality(Up(x)) <= Cardinality(Up(y))
        /\ (Cardinality(Up(x)) = Cardinality(Up(y)) => Up(x) = Up(y))
    <3> HIDE DEF Up
    <3> QED
      BY <1>2, <2>1, FS_Subset
  <2>4. Cardinality(Up(x)) \in Nat /\ Cardinality(Up(y)) \in Nat
    BY <1>2, <1>3
  <2>5. Cardinality(Up(x)) = Cardinality(Up(y))
    <3> HIDE DEF Up
    <3> QED
      BY <1>5, <2>2, <2>3, <2>4
  <2> HIDE DEF Up
  <2> QED
    BY <2>1, <2>3, <2>5
<1> QED
  BY <1>6

\* The floor of an import is a time, or there is none.
LEMMA LastOccurredType ==
  ASSUME NEW E, Proper(E)
  PROVE  LastOccurred(E) \in Int /\ LastOccurred(E) >= -1
<1>1. CASE E = {}
  BY <1>1 DEF LastOccurred, NoFloor
<1>2. CASE E # {}
  <2> DEFINE v == [e \in E |-> Ordered(e.at)]
             last == CHOOSE e \in E : \A f \in E : Ordered(f.at) <= Ordered(e.at)
  <2>1. v \in [E -> Nat]
    BY TimesAreNumbers DEF Proper, EventType
  <2> HIDE DEF v
  <2>2. \E e \in E : \A f \in E : v[f] <= v[e]
    BY <1>2, <2>1, Greatest DEF Proper
  <2>3. \E e \in E : \A f \in E : Ordered(f.at) <= Ordered(e.at)
    BY <2>2 DEF v
  <2>4. last \in E
    BY <2>3
  <2>5. LastOccurred(E) = Instant(last.at)
    BY <1>2 DEF LastOccurred
  <2> HIDE DEF last
  <2>6. Instant(last.at) \in Nat
    BY <2>4, TimesAreNumbers DEF Proper, EventType
  <2> QED
    BY <2>5, <2>6
<1> QED
  BY <1>1, <1>2

\* Events made here bear timestamps of the usual form, and update at their time.
Plain(e) == e.at \in Nat /\ e.updated = e.at

\* What is told by an event that tells nothing.
LEMMA NothingTold == Nothing \in Payloads
<1>1. Nothing = [card |-> None, finish |-> None, condition |-> None, cost |-> None,
                 quote |-> None]
  BY DEF Nothing, Fields
<1>2. [card |-> None, finish |-> None, condition |-> None, cost |-> None, quote |-> None]
        \in Payloads
  BY DEF Payloads
<1> QED
  BY <1>1, <1>2

\* What adding copies makes of a domain is an event,
LEMMA AdditionType ==
  ASSUME NEW E, Proper(E), NEW id \in Nat, NEW copy \in Copies,
         NEW amount \in Int, NEW now \in Nat, NEW floor \in Int, floor >= -1,
         NEW f \in Additions(E, id, copy, amount, now, floor)
  PROVE  f \in EventType /\ f.id = id /\ f.seq = 0 /\ Plain(f)
<1>1. \A n \in Int : n >= -1 => Stamp(now, n) \in Nat
  BY DEF Stamp
<1>2. CASE Duplicates(E, copy) = {}
  <2>1. f = Event(id, "holding.added", id, amount, copy, Stamp(now, floor))
    BY <1>2 DEF Additions
  <2>2. Stamp(now, floor) \in Nat /\ copy \in Payloads /\ "holding.added" \in Types
    BY <1>1 DEF Copies, Types
  <2> QED
    BY <2>1, <2>2 DEF Event, EventType, Times, Plain
<1>3. CASE Duplicates(E, copy) # {}
  <2>1. PICK dup \in HoldingsOf(E) :
          f = Event(id, "holding.quantity-adjusted", dup.id, amount, Nothing,
                    Stamp(now, IF floor = NoFloor THEN Instant(dup.updatedAt) ELSE floor))
    BY <1>3 DEF Additions, Duplicates
  <2> DEFINE at == Stamp(now, IF floor = NoFloor THEN Instant(dup.updatedAt) ELSE floor)
  <2>2. dup.id \in Nat /\ Instant(dup.updatedAt) \in Nat
    BY ActiveHolding, TimesAreNumbers
  <2>3. at \in Nat
    BY <1>1, <2>2 DEF NoFloor
  <2>1a. f = Event(id, "holding.quantity-adjusted", dup.id, amount, Nothing, at)
    BY <2>1
  <2> HIDE DEF at
  <2>4. "holding.quantity-adjusted" \in Types /\ "holding.quantity-adjusted" # "holding.added"
    BY DEF Types
  <2> QED
    BY <2>1a, <2>2, <2>3, <2>4, NothingTold DEF Event, EventType, Times, Plain
<1> QED
  BY <1>2, <1>3

\* and so is what an edit that waited becomes; what is written replays.
LEMMA NewEvent ==
  ASSUME NEW E, Proper(E), NEW id \in Nat, NEW now \in Nat, NEW e,
         e.type \in Types, e.holding \in Nat, e.told \in Payloads, e.amount \in Int,
         e.at \in Nat, e.type = "holding.added" => e.told \in Copies,
         NEW f \in EventsOf(E, id, e, now)
  PROVE  f \in EventType /\ f.id = id /\ f.seq = 0 /\ Plain(f) /\ Strict(E \cup {f})
<1>1. Strict(E \cup {f})
  BY DEF EventsOf
<1>2. CASE e.type = "holding.added"
  <2>1. f \in Additions(E, id, e.told, e.amount, now, NoFloor)
    BY <1>2 DEF EventsOf
  <2>2. NoFloor \in Int /\ NoFloor >= -1
    BY DEF NoFloor
  <2>3. f \in EventType /\ f.id = id /\ f.seq = 0 /\ Plain(f)
    BY <1>2, <2>1, <2>2, AdditionType
  <2> QED
    BY <1>1, <2>3
<1>3. CASE e.type # "holding.added"
  <2>1. f \in Changes(E, id, e, now)
    BY <1>3 DEF EventsOf
  <2>2. PICK at : /\ f = Event(id, e.type, e.holding, e.amount, e.told, at)
                  /\ at = e.at \/ \E h \in HoldingsOf(E) : at = Stamp(now, Instant(h.updatedAt))
    BY <2>1 DEF Changes
  <2>3. at \in Nat
    <3>1. \A h \in HoldingsOf(E) : Instant(h.updatedAt) \in Nat
      BY ActiveHolding, TimesAreNumbers
    <3> QED
      BY <2>2, <3>1 DEF Stamp
  <2> QED
    BY <1>1, <1>3, <2>2, <2>3 DEF Event, EventType, Times, Plain
<1> QED
  BY <1>2, <1>3

\* An event with an identifier of its own joins a domain.
LEMMA OneMore ==
  ASSUME NEW E, Proper(E), NEW f \in EventType, f.seq = 0, \A e \in E : e.id # f.id
  PROVE  Proper(E \cup {f})
<1>1. IsFiniteSet(E \cup {f})
  BY FS_AddElement DEF Proper
<1> QED
  BY <1>1 DEF Proper, Distinct

\* The removal of an active holding can be written.
LEMMA RemovalGoesThrough ==
  ASSUME NEW E, Proper(E), Strict(E), NEW x \in HoldingsOf(E), Timely(E, x.id),
         NEW now \in Nat, NEW id \in Nat, \A e \in E : e.id # id
  PROVE  Strict(E \cup {Event(id, "holding.removed", x.id, 0, Nothing,
                              Stamp(now, Instant(x.updatedAt)))})
<1> DEFINE at == Stamp(now, Instant(x.updatedAt))
           f == Event(id, "holding.removed", x.id, 0, Nothing, at)
           q == Held(E)[LogLength(E)]
<1>1. /\ x.id \in Nat /\ x.id \in Named(E) /\ Instant(x.updatedAt) \in Nat
      /\ q[x.id] > 0
  BY ActiveHolding, TimesAreNumbers
<1>2. at \in Nat /\ at > Instant(x.updatedAt)
  BY <1>1 DEF Stamp
<1> HIDE DEF at
<1>3. "holding.removed" \in Types /\ "holding.removed" # "holding.added" /\ 0 \in Int
  BY DEF Types
<1>4. /\ f \in EventType /\ f.id = id /\ f.seq = 0 /\ f.holding = x.id
      /\ f.at = at /\ f.type = "holding.removed"
  BY <1>1, <1>2, <1>3, NothingTold DEF Event, EventType, Times
<1> HIDE DEF f, q
<1>5. /\ f \notin E /\ Proper(E \cup {f}) /\ f.holding \in Named(E)
      /\ \A g \in E : g.holding = f.holding => Before(g, f)
  BY <1>2, <1>4, ComesAfter
<1>6. Log(E)!Legal(q, f)
  BY <1>1, <1>4 DEF Log!Legal
<1>7. Strict(E \cup {f})
  BY <1>5, <1>6, ChangeReplays DEF q
<1> QED
  BY <1>7 DEF f, at

\* The events, numbered in the order of their replay: it changes neither what they say
\* nor their order.
Renumbered(E) == {[Replayed(E)[n] EXCEPT !.seq = n] : n \in DOMAIN Replayed(E)}

\* What it leaves is a domain whose replay is as legal as before.
LEMMA Renumbering ==
  ASSUME NEW E, Proper(E)
  PROVE  /\ Proper(Renumbered(E)) /\ (Strict(E) => Strict(Renumbered(E)))
         /\ \A g \in Renumbered(E) :
              \E e \in E : g.id = e.id /\ g.at = e.at /\ g.updated = e.updated
<1> DEFINE s == Replayed(E)
           t == LogLength(E)
           r == [n \in 1..t |-> [s[n] EXCEPT !.seq = n]]
           R == {[s[n] EXCEPT !.seq = n] : n \in DOMAIN s}
<1>1. /\ t \in Nat /\ DOMAIN s = 1..t
      /\ \A n \in 1..t : s[n] \in E
      /\ \A m, n \in 1..t : m < n => Before(s[m], s[n])
      /\ \A e \in E : \E n \in 1..t : s[n] = e
  <2>1. Lists(s, E)
    BY ReplayedLists
  <2> QED
    BY <2>1, Replay, LenProperties DEF Lists, LogLength
<1>2. \A n \in 1..t : /\ r[n] \in EventType /\ r[n].seq = n
                      /\ r[n].id = s[n].id /\ r[n].type = s[n].type
                      /\ r[n].holding = s[n].holding /\ r[n].amount = s[n].amount
                      /\ r[n].at = s[n].at /\ r[n].updated = s[n].updated
  <2> SUFFICES ASSUME NEW n \in 1..t
               PROVE  /\ r[n] \in EventType /\ r[n].seq = n
                      /\ r[n].id = s[n].id /\ r[n].type = s[n].type
                      /\ r[n].holding = s[n].holding /\ r[n].amount = s[n].amount
                      /\ r[n].at = s[n].at /\ r[n].updated = s[n].updated
    OBVIOUS
  <2> DEFINE e == s[n]
  <2>1. e \in EventType /\ n \in Nat /\ r[n] = [e EXCEPT !.seq = n]
    BY <1>1 DEF Proper
  <2> HIDE DEF e, r
  <2>2. /\ r[n] \in EventType /\ r[n].seq = n
        /\ r[n].id = e.id /\ r[n].type = e.type
        /\ r[n].holding = e.holding /\ r[n].amount = e.amount
        /\ r[n].at = e.at /\ r[n].updated = e.updated
    <3>1. /\ r[n].seq = n /\ r[n].id = e.id /\ r[n].type = e.type
          /\ r[n].holding = e.holding /\ r[n].amount = e.amount /\ r[n].told = e.told
          /\ r[n].at = e.at /\ r[n].updated = e.updated
      BY <2>1 DEF EventType
    <3>2. r[n] \in EventType
      BY <2>1 DEF EventType
    <3> QED
      BY <3>1, <3>2
  <2> QED
    BY <2>2 DEF e
<1>3. R = {r[n] : n \in 1..t}
  BY <1>1
<1> HIDE DEF s, t, R
<1>4. r \in Bijection(1..t, R)
  <2>1. r \in [1..t -> R]
    BY <1>3
  <2> HIDE DEF r
  <2>2. \A m, n \in 1..t : r[m] = r[n] => m = n
    BY <1>2
  <2> QED
    BY <1>3, <2>1, <2>2 DEF Bijection, Injection, IsInjective, Surjection
<1> HIDE DEF r
<1>5. IsFiniteSet(R) /\ Cardinality(R) = t
  <2>1. IsFiniteSet(1..t) /\ Cardinality(1..t) = t
    BY <1>1, FS_Interval
  <2>2. ExistsBijection(1..t, R)
    BY <1>4 DEF ExistsBijection
  <2> QED
    BY <2>1, <2>2, FS_Bijection
<1>6. Distinct(R)
  <2> SUFFICES ASSUME NEW m \in 1..t, NEW n \in 1..t,
                      r[m].id = r[n].id \/ (r[m].seq # 0 /\ r[m].seq = r[n].seq)
               PROVE  r[m] = r[n]
    BY <1>3 DEF Distinct
  <2>1. CASE r[m].id = r[n].id
    <3>1. s[m] = s[n]
      BY <1>1, <1>2, <2>1 DEF Proper, Distinct
    <3>2. ~(m < n) /\ ~(n < m)
      BY <1>1, <3>1, BeforeOrders
    <3> QED
      BY <1>1, <3>2
  <2>2. CASE r[m].seq = r[n].seq
    BY <1>2, <2>2
  <2> QED
    BY <2>1, <2>2
<1>7. Proper(R)
  BY <1>2, <1>3, <1>5, <1>6 DEF Proper
<1>8. Lists(r, R)
  <2>1. r \in Seq(R) /\ Len(r) = t
    BY <1>1, <1>4, FunctionIsSeq DEF Bijection, Injection
  <2>2. \A m, n \in 1..t : m < n => Before(r[m], r[n])
    <3> SUFFICES ASSUME NEW m \in 1..t, NEW n \in 1..t, m < n
                 PROVE  Before(r[m], r[n])
      OBVIOUS
    <3>1. r[m].seq = m /\ r[n].seq = n /\ m # 0 /\ n # 0
      BY <1>2
    <3> QED
      BY <3>1 DEF Before
  <2> QED
    BY <1>3, <1>5, <2>1, <2>2 DEF Lists
<1>9. r = Replayed(R) /\ LogLength(R) = t
  <2>1. r = Replayed(R)
    BY <1>7, <1>8, ListsIsReplayed
  <2> QED
    BY <1>5, <1>8, <2>1 DEF LogLength, Lists
<1>10. Named(R) = Named(E)
  <2>1. \A n \in 1..t : r[n].holding \in Named(E)
    BY <1>1, <1>2 DEF Named
  <2>2. \A e \in E : \E n \in 1..t : e.holding = r[n].holding
    BY <1>1, <1>2
  <2> QED
    BY <1>3, <2>1, <2>2 DEF Named
<1> DEFINE q == Held(E)
           u == Held(R)
<1>11. /\ q[0] = NothingYet(E) /\ \A n \in 1..t : q[n] = Then(E, q[n-1], s[n])
       /\ u[0] = NothingYet(R) /\ \A n \in 1..t : u[n] = Then(R, u[n-1], r[n])
  BY <1>7, <1>9, Replay DEF s, t
<1> HIDE DEF q, u
<1>12. \A n \in 1..t : \A v : /\ Then(R, v, r[n]) = Then(E, v, s[n])
                              /\ Log(R)!Legal(v, r[n]) <=> Log(E)!Legal(v, s[n])
  <2> SUFFICES ASSUME NEW n \in 1..t, NEW v
               PROVE  /\ Then(R, v, r[n]) = Then(E, v, s[n])
                      /\ Log(R)!Legal(v, r[n]) <=> Log(E)!Legal(v, s[n])
    OBVIOUS
  <2> DEFINE g == r[n]
             e == s[n]
  <2>1. g.type = e.type /\ g.holding = e.holding /\ g.amount = e.amount
    BY <1>2
  <2> HIDE DEF g, e
  <2>2. Then(R, v, g) = Then(E, v, e)
    BY <2>1 DEF Then, Log!After
  <2>3. Log(R)!Legal(v, g) <=> Log(E)!Legal(v, e)
    BY <2>1 DEF Log!Legal, Log!NeverAdded
  <2> QED
    BY <2>2, <2>3 DEF g, e
<1> DEFINE S == {n \in Nat : n <= t => u[n] = q[n]}
<1>13. 0 \in S
  BY <1>10, <1>11 DEF NothingYet
<1>14. ASSUME NEW n \in Nat, n \in S
       PROVE  n + 1 \in S
  <2>1. CASE n + 1 <= t
    <3>1. n + 1 \in 1..t /\ (n + 1) - 1 = n /\ u[n] = q[n]
      BY <1>1, <1>14, <2>1
    <3>2. u[n+1] = Then(R, u[n], r[n+1]) /\ q[n+1] = Then(E, q[n], s[n+1])
      BY <1>11, <3>1
    <3> QED
      BY <1>12, <3>1, <3>2
  <2>2. CASE ~(n + 1 <= t)
    BY <2>2
  <2> QED
    BY <2>1, <2>2
<1> HIDE DEF S
<1>15. \A n \in 0..t : u[n] = q[n]
  <2>1. Nat \subseteq S
    BY <1>13, <1>14, SetInduction
  <2> QED
    BY <2>1 DEF S
<1>16. ASSUME Strict(E)
       PROVE  Strict(R)
  <2>1. \A n \in 1..t : Log(E)!Legal(q[n-1], s[n])
    BY <1>16 DEF Strict, Log!LegalFrom, q, s, t, Held, LogLength
  <2>2. \A n \in 1..t : Log(R)!Legal(u[n-1], r[n])
    <3> SUFFICES ASSUME NEW n \in 1..t
                 PROVE  Log(R)!Legal(u[n-1], r[n])
      OBVIOUS
    <3>1. n - 1 \in 0..t
      BY <1>1
    <3>2. u[n-1] = q[n-1]
      BY <1>15, <3>1
    <3> QED
      BY <1>12, <2>1, <3>2
  <2>3. Len(Replayed(R)) = t
    BY <1>9 DEF LogLength
  <2> QED
    BY <1>9, <2>2, <2>3 DEF Strict, Log!LegalFrom, u, Held
<1>17. \A g \in R : \E e \in E : g.id = e.id /\ g.at = e.at /\ g.updated = e.updated
  BY <1>1, <1>2, <1>3
<1> QED
  BY <1>7, <1>16, <1>17 DEF R, s, Renumbered

-----------------------------------------------------------------------------
(* The rows of a file.                                                        *)

\* What the first n rows make of a domain solves its recursive definition,
Joins(now, E, id, rows, n, g) ==
  g = [i \in 0..n |-> IF i = 0 THEN [ok |-> TRUE, last |-> LastOccurred(E), events |-> E]
                      ELSE AfterRow(now, g[i-1], id + i, rows[i])]

\* which has a solution.
LEMMA JoinsExists ==
  ASSUME NEW now, NEW E, NEW id, NEW rows, NEW n \in Nat
  PROVE  \E g : Joins(now, E, id, rows, n, g)
<1> DEFINE start == [ok |-> TRUE, last |-> LastOccurred(E), events |-> E]
           S == {m \in Nat : \E g : Joins(now, E, id, rows, m, g)}
<1>1. 0 \in S
  <2>1. Joins(now, E, id, rows, 0, [i \in 0..0 |-> start])
    BY DEF Joins
  <2> QED
    BY <2>1
<1>2. ASSUME NEW m \in Nat, m \in S
      PROVE  m + 1 \in S
  <2>1. PICK g : Joins(now, E, id, rows, m, g)
    BY <1>2
  <2> DEFINE last == AfterRow(now, g[m], id + (m+1), rows[m+1])
             h == [i \in 0..(m+1) |-> IF i <= m THEN g[i] ELSE last]
  <2> HIDE DEF start
  <2>2. \A i \in 0..m : g[i] = IF i = 0 THEN start ELSE AfterRow(now, g[i-1], id + i, rows[i])
    BY <2>1 DEF Joins, start
  <2>3. ASSUME NEW i \in 0..(m+1)
        PROVE  h[i] = IF i = 0 THEN start ELSE AfterRow(now, h[i-1], id + i, rows[i])
    <3>1. CASE i = 0
      BY <2>2, <3>1
    <3>2. CASE i \in 1..m
      <4>1. h[i] = g[i] /\ h[i-1] = g[i-1] /\ i # 0
        BY <3>2
      <4>2. g[i] = AfterRow(now, g[i-1], id + i, rows[i])
        BY <2>2, <3>2
      <4> QED
        BY <4>1, <4>2
    <3>3. CASE i = m + 1
      <4>1. h[i] = last /\ h[i-1] = g[m] /\ i # 0
        BY <3>3
      <4> QED
        BY <3>3, <4>1
    <3> QED
      BY <3>1, <3>2, <3>3
  <2>4. h = [i \in 0..(m+1) |-> h[i]]
    OBVIOUS
  <2> HIDE DEF h
  <2>5. Joins(now, E, id, rows, m + 1, h)
    BY <2>3, <2>4, Zenon DEF Joins, start
  <2> QED
    BY <2>5
<1> HIDE DEF S
<1>3. n \in S
  BY <1>1, <1>2, SetInduction
<1> QED
  BY <1>3 DEF S

\* What an import makes of a domain: its events, and events with the identifiers the
\* rows were given.
LEMMA RowsJoin ==
  ASSUME NEW now \in Nat, NEW E, Proper(E), NEW id \in Nat, \A e \in E : e.id <= id,
         NEW rows \in Seq([copy : Copies, amount : Int])
  PROVE  LET R == Imported(now, E, id, rows).events
         IN  /\ Proper(R)
             /\ \A e \in R : e \in E \/ (e.id \in (id + 1)..(id + Len(rows)) /\ Plain(e))
<1> DEFINE l == Len(rows)
<1>1. /\ l \in Nat
      /\ \A n \in 1..l : rows[n].copy \in Copies /\ rows[n].amount \in Int
  <2>1. \A n \in 1..l : rows[n] \in [copy : Copies, amount : Int]
    BY ElementOfSeq
  <2> QED
    BY <2>1
<1>2. PICK so : /\ Joins(now, E, id, rows, l, so)
                /\ Imported(now, E, id, rows) = so[l]
  <2> DEFINE so == CHOOSE g : Joins(now, E, id, rows, l, g)
  <2>1. Joins(now, E, id, rows, l, so)
    BY <1>1, JoinsExists
  <2>2. Imported(now, E, id, rows) = so[l]
    BY Zenon DEF Imported, Joins
  <2> QED
    BY <2>1, <2>2
<1> HIDE DEF l
<1>3. \A n \in 0..l : so[n] = IF n = 0
                              THEN [ok |-> TRUE, last |-> LastOccurred(E), events |-> E]
                              ELSE AfterRow(now, so[n-1], id + n, rows[n])
  BY <1>2 DEF Joins
<1> DEFINE Ok(n) == LET X == so[n].events
                    IN  /\ Proper(X) /\ so[n].last \in Int /\ so[n].last >= -1
                        /\ \A e \in X : e \in E \/ (e.id \in (id + 1)..(id + n) /\ Plain(e))
           S == {n \in Nat : n <= l => Ok(n)}
<1>4. 0 \in S
  <2>1. so[0].events = E /\ so[0].last = LastOccurred(E)
    BY <1>1, <1>3
  <2> QED
    BY <2>1, LastOccurredType
<1>5. ASSUME NEW n \in Nat, n \in S
      PROVE  n + 1 \in S
  <2>1. CASE n + 1 <= l
    <3> DEFINE X == so[n].events
               row == rows[n+1]
               floor == so[n].last
               new == Additions(X, id + (n+1), row.copy, row.amount, now, floor)
    <3>1. /\ n + 1 \in 0..l /\ n + 1 \in 1..l /\ n + 1 # 0 /\ (n + 1) - 1 = n
          /\ Proper(X) /\ \A e \in X : e \in E \/ (e.id \in (id + 1)..(id + n) /\ Plain(e))
          /\ floor \in Int /\ floor >= -1
      BY <1>1, <1>5, <2>1
    <3>2. so[n+1] = AfterRow(now, so[n], id + (n+1), row)
      BY <1>3, <3>1
    <3>3. row.copy \in Copies /\ row.amount \in Int
      BY <1>1, <3>1
    <3>4. /\ so[n+1].events = X \cup (IF new = {} THEN {} ELSE {CHOOSE f \in new : TRUE})
          /\ so[n+1].last = Stamp(now, floor)
      BY <3>2 DEF AfterRow
    <3>4a. so[n+1].last \in Int /\ so[n+1].last >= -1
      BY <3>1, <3>4 DEF Stamp
    <3>5. id + (n+1) \in Nat /\ \A e \in X : e.id # id + (n+1)
      <4>1. \A e \in E : e.id \in Nat
        BY DEF Proper, EventType
      <4> QED
        BY <3>1, <4>1
    <3> HIDE DEF X, row, floor
    <3>6. CASE new = {}
      <4>1. so[n+1].events = X
        BY <3>4, <3>6
      <4>2. \A e \in X : e \in E \/ (e.id \in (id + 1)..(id + (n+1)) /\ Plain(e))
        BY <3>1
      <4>3. Ok(n + 1)
        BY <3>1, <3>4a, <4>1, <4>2
      <4> QED
        BY <4>3
    <3>7. CASE new # {}
      <4> DEFINE f == CHOOSE g \in new : TRUE
      <4>1. f \in new
        BY <3>7
      <4> HIDE DEF f
      <4>2. f \in EventType /\ f.id = id + (n+1) /\ f.seq = 0 /\ Plain(f)
        BY <3>1, <3>3, <3>5, <4>1, AdditionType
      <4>3. Proper(X \cup {f})
        BY <3>1, <3>5, <4>2, OneMore
      <4>4. \A e \in X \cup {f} : e \in E \/ (e.id \in (id + 1)..(id + (n+1)) /\ Plain(e))
        BY <3>1, <4>2
      <4>5. so[n+1].events = X \cup {f}
        BY <3>4, <3>7 DEF f
      <4>6. Ok(n + 1)
        BY <3>4a, <4>3, <4>4, <4>5
      <4> QED
        BY <4>6
    <3> QED
      BY <3>6, <3>7
  <2>2. CASE ~(n + 1 <= l)
    BY <2>2
  <2> QED
    BY <2>1, <2>2
<1> HIDE DEF S, Ok
<1>6. Nat \subseteq S
  BY <1>4, <1>5, SetInduction
<1>7. Ok(l)
  BY <1>1, <1>6 DEF S
<1> QED
  BY <1>2, <1>7 DEF Ok, l

-----------------------------------------------------------------------------
(* What a holding is said to be.                                              *)

\* A holding there ever was has been added.
LEMMA WasAdded ==
  ASSUME NEW E, Proper(E), Strict(E), NEW h \in Named(E), Held(E)[LogLength(E)][h] # -1
  PROVE  \E e \in E : e.type = "holding.added" /\ e.holding = h
<1> DEFINE s == Replayed(E)
           q == Held(E)
           t == LogLength(E)
           Added == \E e \in E : e.type = "holding.added" /\ e.holding = h
           S == {n \in Nat : n <= t /\ q[n][h] # -1 => Added}
<1>1. /\ t \in Nat
      /\ \A n \in 1..t : s[n] \in E /\ s[n].holding \in Named(E) /\ s[n].amount \in Int
      /\ \A n \in 0..t : q[n] \in [Named(E) -> Int]
      /\ q[0] = NothingYet(E)
      /\ \A n \in 1..t : q[n] = Then(E, q[n-1], s[n])
  BY Replay
<1>2. \A n \in 1..t : Log(E)!Legal(q[n-1], s[n])
  BY DEF Strict, Log!LegalFrom, Held, LogLength
<1> HIDE DEF s, q, t
<1>3. 0 \in S
  BY <1>1 DEF NothingYet
<1>4. ASSUME NEW n \in Nat, n \in S
      PROVE  n + 1 \in S
  <2> SUFFICES ASSUME n + 1 <= t, q[n+1][h] # -1, ~Added
               PROVE  FALSE
    OBVIOUS
  <2>0. /\ n + 1 \in 1..t /\ (n + 1) - 1 = n /\ n \in 0..t
    BY <1>1
  <2>1. /\ n + 1 \in 1..t /\ (n + 1) - 1 = n /\ n \in 0..t
        /\ q[n][h] = -1
    <3>1. n <= t /\ q[n][h] # -1 => Added
      BY <1>4
    <3> HIDE DEF Added
    <3>2. n <= t
      BY <1>1, <2>0
    <3> QED
      BY <2>0, <3>1, <3>2
  <2> DEFINE op == s[n+1]
             v == q[n]
  <2>2. /\ op \in E /\ op.holding \in Named(E) /\ op.amount \in Int
        /\ v \in [Named(E) -> Int] /\ v[h] = -1
        /\ q[n+1] = Then(E, v, op)
        /\ Log(E)!Legal(v, op)
    BY <1>1, <1>2, <2>1
  <2> HIDE DEF op, v
  <2>3. op.holding # h
    <3> SUFFICES ASSUME op.holding = h PROVE FALSE
      OBVIOUS
    <3>1. v[op.holding] = -1 /\ op.type # "holding.added"
      BY <2>2
    <3> QED
      BY <2>2, <3>1 DEF Log!Legal
  <2>4. Then(E, v, op)[h] = v[h]
    BY <2>2, <2>3, OneHolding
  <2> QED
    BY <2>2, <2>4
<1> HIDE DEF S, Added
<1>5. Nat \subseteq S
  BY <1>3, <1>4, SetInduction
<1> QED
  BY <1>1, <1>5 DEF S, q, t, Added

\* The last event to tell a field of a holding.
TellsField(E, h, field, e) ==
  /\ e \in E /\ e.holding = h /\ e.told[field] # None
  /\ \A g \in E : g.holding = h /\ g.told[field] # None => g = e \/ Before(g, e)

\* It is where an active holding has the field from.
LEMMA FieldOfHolding ==
  ASSUME NEW E, Proper(E), Strict(E), NEW x \in HoldingsOf(E), NEW field \in Fields
  PROVE  \E e \in E : /\ TellsField(E, x.id, field, e) /\ x.copy[field] = e.told[field]
                      /\ e = LastOf({g \in E : g.holding = x.id /\ g.told[field] # None})
<1> DEFINE log == Replayed(E)
           h == x.id
           P == TellingOf(E, h, field)
           e == log[Finally(P)]
<1>1. h \in Named(E) /\ Held(E)[LogLength(E)][h] # -1 /\ x = HoldingAt(E, h)
  BY ActiveHolding
<1>2. x.copy = [f \in Fields |-> log[Finally(TellingOf(E, h, f))].told[f]]
  <2>1. HoldingAt(E, h).copy = [f \in Fields |-> log[Finally(TellingOf(E, h, f))].told[f]]
    BY Zenon DEF HoldingAt
  <2> QED
    BY <1>1, <2>1
<1>2a. x.copy[field] = e.told[field]
  BY <1>2
<1>3. /\ DOMAIN log = 1..LogLength(E)
      /\ \A n \in 1..LogLength(E) : log[n] \in E
      /\ \A g \in E : \E n \in 1..LogLength(E) : log[n] = g
  BY Positions
<1>4. PICK a \in E : a.type = "holding.added" /\ a.holding = h
  BY <1>1, WasAdded
<1>5. a.told[field] # None
  BY <1>4 DEF Proper, EventType, Copies
<1>6. {log[n] : n \in P} = {g \in E : g.holding = h /\ g.told[field] # None}
  BY <1>3 DEF TellingOf, About
<1>7. P \in SUBSET (DOMAIN log) /\ P # {}
  BY <1>3, <1>4, <1>5 DEF TellingOf, About
<1> HIDE DEF P, h
<1>8. /\ Finally(P) \in P /\ e \in E
      /\ e = LastOf({log[n] : n \in P})
      /\ e \in {log[n] : n \in P}
      /\ \A g \in {log[n] : n \in P} : g = e \/ Before(g, e)
  BY <1>7, FinalEvent
<1> HIDE DEF e
<1>9. /\ e = LastOf({g \in E : g.holding = h /\ g.told[field] # None})
      /\ TellsField(E, h, field, e)
  BY <1>6, <1>8 DEF TellsField
<1> QED
  BY <1>2a, <1>8, <1>9 DEF h

-----------------------------------------------------------------------------
(* The quote of a copy.                                                       *)

\* A finite set has an element that no other is above, in any order that is strict.
LEMMA Topmost ==
  ASSUME NEW X, IsFiniteSet(X), X # {}, NEW R,
         \A x \in X : <<x, x>> \notin R,
         \A x, y, z \in X : <<x, y>> \in R /\ <<y, z>> \in R => <<x, z>> \in R
  PROVE  \E x \in X : \A y \in X : <<y, x>> \notin R
<1> DEFINE Below(x) == {z \in X : <<x, z>> \in R}
           v == [x \in X |-> Cardinality(Below(x))]
<1>1. ASSUME NEW x \in X PROVE IsFiniteSet(Below(x)) /\ v[x] \in Nat /\ v[x] = Cardinality(Below(x))
  <2>1. Below(x) \subseteq X
    OBVIOUS
  <2> HIDE DEF Below
  <2> QED
    BY <2>1, FS_Subset, FS_CardinalityType
<1>2. v \in [X -> Nat]
  <2> HIDE DEF Below
  <2> QED
    BY <1>1
<1>3. ASSUME NEW x \in X, NEW y \in X, <<y, x>> \in R PROVE v[x] < v[y]
  <2>1. Below(x) \subseteq Below(y) /\ x \in Below(y) /\ x \notin Below(x)
    BY <1>3
  <2> HIDE DEF Below, v
  <2>2. v[x] <= v[y] /\ v[x] # v[y]
    BY <1>1, <2>1, FS_Subset
  <2> QED
    BY <1>1, <2>2
<1> HIDE DEF v
<1>4. PICK x \in X : \A y \in X : v[y] <= v[x]
  BY <1>2, Greatest
<1>5. \A y \in X : <<y, x>> \notin R
  <2> HIDE DEF Below
  <2> QED
    BY <1>1, <1>3, <1>4
<1> QED
  BY <1>5

\* Ranks are compared number by number.
LEMMA AboveIs ==
  ASSUME NEW r, NEW s
  PROVE  Above(r, s) <=> \/ r[1] > s[1]
                         \/ r[1] = s[1] /\ r[2] > s[2]
                         \/ r[1] = s[1] /\ r[2] = s[2] /\ r[3] > s[3]
                         \/ r[1] = s[1] /\ r[2] = s[2] /\ r[3] = s[3] /\ r[4] > s[4]
<1>1. 1..4 = {1, 2, 3, 4} /\ 1..0 = {} /\ 1..1 = {1} /\ 1..2 = {1, 2} /\ 1..3 = {1, 2, 3}
  OBVIOUS
<1>2. 1 - 1 = 0 /\ 2 - 1 = 1 /\ 3 - 1 = 2 /\ 4 - 1 = 3
  OBVIOUS
<1> QED
  BY <1>1, <1>2 DEF Above

Ranked(r) == r[1] \in Int /\ r[2] \in Int /\ r[3] \in Int /\ r[4] \in Int

\* It is a strict order.
LEMMA AboveOrders ==
  /\ \A r : Ranked(r) => ~Above(r, r)
  /\ \A r, s, t : /\ Ranked(r) /\ Ranked(s) /\ Ranked(t)
                  /\ Above(r, s) /\ Above(s, t)
                  => Above(r, t)
<1>1. ASSUME NEW r, Ranked(r) PROVE ~Above(r, r)
  BY <1>1, AboveIs DEF Ranked
<1>2. ASSUME NEW r, NEW s, NEW t, Ranked(r), Ranked(s), Ranked(t), Above(r, s), Above(s, t)
      PROVE  Above(r, t)
  BY <1>2, AboveIs DEF Ranked
<1> QED
  BY <1>1, <1>2

\* The quote selected is one the card came with that fits the finish and the condition,
\* and none is selected only when none fits.
LEMMA SelectedFits ==
  ASSUME NEW quotes, QuotesType(quotes), NEW finish, NEW condition, NEW preference
  PROVE  LET q == SelectPriceQuote(quotes, finish, condition, preference)
             Right(n) == /\ FinishFits(quotes[n], finish)
                        /\ ConditionFits(quotes[n], condition)
         IN  IF q = Missing THEN \A n \in DOMAIN quotes : ~Right(n)
             ELSE \E n \in DOMAIN quotes : Right(n) /\ q = quotes[n]
<1> DEFINE Right(n) == /\ FinishFits(quotes[n], finish)
                      /\ ConditionFits(quotes[n], condition)
           fitting == {n \in DOMAIN quotes : Right(n)}
           Rank(n) == <<ConditionScore(quotes[n], condition),
                        MarketScore(quotes[n], preference), quotes[n].observed, -n>>
           Best(n) == \A m \in fitting : ~Above(Rank(m), Rank(n))
           R == {p \in fitting \X fitting : Above(Rank(p[1]), Rank(p[2]))}
           q == SelectPriceQuote(quotes, finish, condition, preference)
<1>1. /\ Len(quotes) \in Nat /\ DOMAIN quotes = 1..Len(quotes)
      /\ \A n \in DOMAIN quotes : quotes[n] # Missing /\ quotes[n].observed \in Int
  BY DEF QuotesType, QuoteType
<1>2. q = IF fitting = {} THEN Missing ELSE quotes[CHOOSE n \in fitting : Best(n)]
  BY Zenon DEF SelectPriceQuote
<1>3. fitting \subseteq 1..Len(quotes) /\ IsFiniteSet(fitting)
  <2>1. fitting \subseteq 1..Len(quotes)
    BY <1>1
  <2>2. IsFiniteSet(1..Len(quotes))
    BY <1>1, FS_Interval
  <2> HIDE DEF fitting
  <2> QED
    BY <2>1, <2>2, FS_Subset
<1>4. ASSUME NEW n \in fitting PROVE Ranked(Rank(n))
  <2>1. ConditionScore(quotes[n], condition) \in Int
    BY DEF ConditionScore
  <2>2. MarketScore(quotes[n], preference) \in {1, 2, 3, 5}
    BY Zenon DEF MarketScore
  <2>3. quotes[n].observed \in Int /\ -n \in Int
    BY <1>1, <1>3
  <2> QED
    BY <2>1, <2>2, <2>3 DEF Ranked
<1> HIDE DEF Rank, Right
<1>5. ASSUME fitting # {} PROVE \E n \in fitting : Best(n)
  <2>1. /\ \A x \in fitting : <<x, x>> \notin R
        /\ \A x, y, z \in fitting : <<x, y>> \in R /\ <<y, z>> \in R => <<x, z>> \in R
    BY <1>4, AboveOrders
  <2> HIDE DEF R
  <2>2. \E x \in fitting : \A y \in fitting : <<y, x>> \notin R
    <3> HIDE DEF fitting
    <3> QED
      BY <1>3, <1>5, <2>1, Topmost
  <2> QED
    BY <2>2 DEF R
<1>6. ASSUME fitting # {} PROVE \E n \in fitting : q = quotes[n]
  <2> HIDE DEF Best
  <2>1. (CHOOSE n \in fitting : Best(n)) \in fitting
    BY <1>5, <1>6
  <2> HIDE DEF fitting, q
  <2> QED
    BY <1>2, <1>6, <2>1
<1>7. CASE fitting = {}
  BY <1>2, <1>7 DEF Right
<1>8. CASE fitting # {}
  <2>1. PICK n \in DOMAIN quotes : Right(n) /\ q = quotes[n]
    <3> HIDE DEF q
    <3> QED
      BY <1>6, <1>8
  <2>2. q # Missing
    BY <1>1, <2>1
  <2> HIDE DEF q
  <2> QED
    BY <2>1, <2>2 DEF Right, q
<1> QED
  BY <1>7, <1>8

\* So it suits a copy of that finish and condition.
LEMMA QuoteOfCopy ==
  ASSUME NEW card \in Cards, NEW finish, NEW condition, NEW preference, NEW told,
         told.finish = finish, told.condition = condition
  PROVE  LET q == SelectPriceQuote(Offered[card], finish, condition, preference)
         IN  q \in Quotes \cup {Missing} /\ q # None /\ Suits(q, told)
<1> DEFINE quotes == Offered[card]
           q == SelectPriceQuote(quotes, finish, condition, preference)
<1>1. QuotesType(quotes)
  BY CopiesType
<1>2. q # Missing => \E n \in DOMAIN quotes : /\ q = quotes[n]
                                              /\ FinishFits(q, finish)
                                              /\ ConditionFits(q, condition)
  <2> HIDE DEF quotes
  <2> QED
    BY <1>1, SelectedFits
<1> HIDE DEF q
<1>3. q \in Quotes \cup {Missing}
  BY <1>2 DEF Quotes
<1>4. q # None
  BY <1>3, CopiesType
<1>5. Suits(q, told)
  BY <1>2 DEF Suits
<1> QED
  BY <1>3, <1>4, <1>5 DEF q

\* What an event may tell, field by field.
LEMMA ToldFields ==
  ASSUME NEW told \in Payloads
  PROVE  /\ told.card \in Cards \cup {None} /\ told.finish \in Finishes \cup {None}
         /\ told.condition \in Conditions \cup {None} /\ told.cost \in Costs \cup {None}
         /\ told.quote \in Quotes \cup {Missing, None}
         /\ told.finish # None \/ told.condition # None <=> told.quote # None
         /\ told.quote # None => Suits(told.quote, told)
BY DEF Payloads

\* A copy as an event may tell it, and a copy whose fields several events told.
CopyType(copy) ==
  /\ DOMAIN copy = Fields
  /\ copy["card"] \in Cards /\ copy["finish"] \in Finishes
  /\ copy["condition"] \in Conditions /\ copy["cost"] \in Costs
  /\ copy["quote"] \in Quotes \cup {Missing}

\* What is added is told whole,
LEMMA AddedCopy ==
  ASSUME NEW scanned \in Scanned, NEW preference
  PROVE  [card |-> scanned.card, finish |-> scanned.finish,
          condition |-> scanned.condition, cost |-> scanned.cost,
          quote |-> SelectPriceQuote(Offered[scanned.card], scanned.finish,
                                     scanned.condition, preference)] \in Copies
<1> DEFINE q == SelectPriceQuote(Offered[scanned.card], scanned.finish, scanned.condition,
                                 preference)
           copy == [card |-> scanned.card, finish |-> scanned.finish,
                    condition |-> scanned.condition, cost |-> scanned.cost, quote |-> q]
<1>1. /\ scanned.card \in Cards /\ scanned.finish \in Finishes
      /\ scanned.condition \in Conditions /\ scanned.cost \in Costs
  BY CopiesType
<1>2. q \in Quotes \cup {Missing} /\ q # None /\ Suits(q, copy)
  BY <1>1, QuoteOfCopy
<1> HIDE DEF q
<1>3. /\ copy.card # None /\ copy.finish # None /\ copy.condition # None
      /\ copy.cost # None /\ copy.quote # None
  BY <1>1, <1>2, CopiesType
<1>4. copy \in [card : Cards \cup {None}, finish : Finishes \cup {None},
                condition : Conditions \cup {None}, cost : Costs \cup {None},
                quote : Quotes \cup {Missing, None}]
  BY <1>1, <1>2
<1>5. copy.quote = q
  OBVIOUS
<1> HIDE DEF copy
<1>6. copy \in Payloads
  BY <1>2, <1>3, <1>4, <1>5 DEF Payloads
<1>7. copy \in Copies
  BY <1>3, <1>6 DEF Copies, Fields
<1> QED
  BY <1>7 DEF copy, q

\* and a correction tells a field, with the quote that suits it.
LEMMA CorrectedType ==
  ASSUME NEW copy, CopyType(copy), NEW change \in Corrections, NEW preference
  PROVE  Corrected(copy, change, preference) \in Payloads
<1> DEFINE new == [copy EXCEPT ![change.field] = change.value]
           q == SelectPriceQuote(Offered[new.card], new.finish, new.condition, preference)
           told == Corrected(copy, change, preference)
<1>1. \/ change.field = "finish" /\ change.value \in Finishes
      \/ change.field = "condition" /\ change.value \in Conditions
      \/ change.field = "cost" /\ change.value \in Costs
  BY CopiesType
<1>2. /\ new.card \in Cards
      /\ change.field = "finish" => new.finish = change.value
      /\ change.field = "condition" => new.condition = change.value
  BY <1>1 DEF CopyType, Fields
<1>3. told = [field \in Fields |->
                IF field = change.field THEN change.value
                ELSE IF field = "quote" /\ change.field \in {"finish", "condition"} THEN q
                ELSE None]
  BY DEF Corrected
<1> HIDE DEF new, told
<1>4. \A t : t.finish = new.finish /\ t.condition = new.condition =>
        q \in Quotes \cup {Missing} /\ q # None /\ Suits(q, t)
  BY <1>2, QuoteOfCopy
<1>5. q \in Quotes \cup {Missing} /\ q # None
  <2>1. PICK t : t.finish = new.finish /\ t.condition = new.condition
    <3>1. [finish |-> new.finish, condition |-> new.condition].finish = new.finish
          /\ [finish |-> new.finish, condition |-> new.condition].condition = new.condition
      OBVIOUS
    <3> QED
      BY <3>1
  <2> QED
    BY <1>4, <2>1
<1>6. /\ q # Missing => FinishFits(q, new.finish) /\ ConditionFits(q, new.condition)
      /\ new.finish # None /\ new.condition # None
  <2>1. new.finish \in Finishes /\ new.condition \in Conditions
    BY <1>1 DEF CopyType, Fields, new
  <2>2. new.finish # None /\ new.condition # None
    BY <2>1, CopiesType
  <2>3. PICK t : t.finish = new.finish /\ t.condition = new.condition
    <3>1. [finish |-> new.finish, condition |-> new.condition].finish = new.finish
          /\ [finish |-> new.finish, condition |-> new.condition].condition = new.condition
      OBVIOUS
    <3> QED
      BY <3>1
  <2>4. Suits(q, t)
    BY <1>4, <2>3
  <2> QED
    BY <2>2, <2>3, <2>4 DEF Suits
<1> HIDE DEF q
<1>7. None \notin Finishes /\ None \notin Conditions
  BY CopiesType
<1>8. CASE change.field = "finish"
  <2>1. told = [card |-> None, finish |-> change.value, condition |-> None, cost |-> None,
                quote |-> q]
    BY <1>3, <1>8 DEF Fields
  <2>2. Suits(q, told)
    BY <1>2, <1>6, <1>8, <2>1 DEF Suits
  <2> QED
    BY <1>1, <1>5, <1>7, <1>8, <2>1, <2>2 DEF Payloads, told
<1>9. CASE change.field = "condition"
  <2>1. told = [card |-> None, finish |-> None, condition |-> change.value, cost |-> None,
                quote |-> q]
    BY <1>3, <1>9 DEF Fields
  <2>2. Suits(q, told)
    BY <1>2, <1>6, <1>9, <2>1 DEF Suits
  <2> QED
    BY <1>1, <1>5, <1>7, <1>9, <2>1, <2>2 DEF Payloads, told
<1>10. CASE change.field = "cost"
  <2>1. told = [card |-> None, finish |-> None, condition |-> None, cost |-> change.value,
                quote |-> None]
    BY <1>3, <1>10 DEF Fields
  <2> QED
    BY <1>1, <1>10, <2>1 DEF Payloads, told
<1> QED
  BY <1>1, <1>8, <1>9, <1>10

\* An active holding is of a card, with a finish, a condition and the rest.
LEMMA CopyOfHolding ==
  ASSUME NEW E, Proper(E), Strict(E), NEW x \in HoldingsOf(E)
  PROVE  CopyType(x.copy)
<1>1. DOMAIN x.copy = Fields
  <2>1. HoldingAt(E, x.id).copy =
          [f \in Fields |-> Replayed(E)[Finally(TellingOf(E, x.id, f))].told[f]]
    BY Zenon DEF HoldingAt
  <2>2. x = HoldingAt(E, x.id)
    BY ActiveHolding
  <2> QED
    BY <2>1, <2>2
<1>2. ASSUME NEW field \in Fields
      PROVE  \E told \in Payloads : told[field] # None /\ x.copy[field] = told[field]
  <2>1. PICK e \in E : TellsField(E, x.id, field, e) /\ x.copy[field] = e.told[field]
    BY FieldOfHolding
  <2>2. e.told \in Payloads /\ e.told[field] # None
    BY <2>1 DEF TellsField, Proper, EventType
  <2> QED
    BY <2>1, <2>2
<1>3. "card" \in Fields /\ "finish" \in Fields /\ "condition" \in Fields /\ "cost" \in Fields
      /\ "quote" \in Fields
  BY DEF Fields
<1>4. x.copy["card"] \in Cards
  BY <1>2, <1>3, ToldFields
<1>5. x.copy["finish"] \in Finishes
  BY <1>2, <1>3, ToldFields
<1>6. x.copy["condition"] \in Conditions
  BY <1>2, <1>3, ToldFields
<1>7. x.copy["cost"] \in Costs
  BY <1>2, <1>3, ToldFields
<1>8. x.copy["quote"] \in Quotes \cup {Missing}
  BY <1>2, <1>3, ToldFields
<1> QED
  BY <1>1, <1>4, <1>5, <1>6, <1>7, <1>8 DEF CopyType

-----------------------------------------------------------------------------
(* What IndexedDB holds.                                                      *)

\* Events no earlier session and no backup had are plain.
New(E) == \A e \in E : e.id > Taken => Plain(e)

\* The events of a domain replay, and none has an identifier not given yet.
Sound(E, last) == Proper(E) /\ Strict(E) /\ New(E) /\ \A e \in E : e.id <= last

\* An edit that waits.
Fits(e) ==
  /\ e.tab \in Tabs /\ e.domain \in Domains
  /\ e.type \in Types /\ e.holding \in Nat /\ e.amount \in Int /\ e.told \in Payloads
  /\ e.at \in Nat
  /\ e.type = "holding.added" => e.told \in Copies /\ e.amount > 0

\* Domains are sound and share no identifier; the backup at hand is of events too.
StoreInv ==
  /\ made \in Nat /\ Taken <= made
  /\ events = [d \in Domains |-> events[d]]
  /\ \A d \in Domains : Sound(events[d], made)
  /\ \A c, d \in Domains : \A e \in events[c], f \in events[d] : e.id = f.id => c = d
  /\ Proper(file) /\ New(file) /\ \A e \in file : e.seq = 0 /\ e.id <= made
  /\ \A e \in edits : Fits(e)
  /\ notified \subseteq Tabs
  /\ acts \in 0..MaxActs

\* An earlier session leaves such a state.
LEMMA InitStore == Init => StoreInv
<1> SUFFICES ASSUME Init PROVE StoreInv
  OBVIOUS
<1>1. \A d \in Domains : \A e \in Stored[d] : e.id <= Taken
  BY StoredType
<1>1a. /\ \A d \in Domains : \A e \in Stored[d] : e.id \in Nat
       /\ \A e \in Backup : e.id \in Nat
  BY StoredType DEF EventType
<1>2. \A d \in Domains : Sound(Stored[d], Taken)
  BY <1>1, <1>1a, StoredType, BoundType DEF Sound, Proper, New
<1>3. /\ Proper(Backup) /\ \A e \in Backup : e.seq = 0 /\ e.id <= Taken
      /\ New(Backup)
  BY <1>1a, StoredType, BoundType DEF Proper, New
<1>4. Stored = [d \in Domains |-> Stored[d]]
  BY StoredType
<1>5. /\ events = Stored /\ made = Taken /\ file = Backup /\ edits = {}
      /\ notified = {} /\ acts = 0
  BY DEF Init
<1> QED
  BY <1>2, <1>3, <1>4, <1>5, StoredType, BoundType DEF StoreInv

\* A step that writes no events.
LEMMA KeepsData ==
  ASSUME StoreInv, UNCHANGED <<events, made, file>>, \A e \in edits' : e \in edits \/ Fits(e)',
         notified' \subseteq Tabs, acts' \in 0..MaxActs
  PROVE  StoreInv'
<1>1. \A e \in edits' : Fits(e)'
  BY DEF StoreInv, Fits
<1>2. \A d \in Domains : Sound(events[d], made)'
  BY DEF StoreInv, Sound, Proper, Strict, New
<1> QED
  BY <1>1, <1>2 DEF StoreInv, Proper, New

\* A write that keeps the identifiers of domains apart and leaves a sound domain.
Writes(d, E) ==
  /\ d \in Domains /\ events' = [events EXCEPT ![d] = E]
  /\ made' \in Nat /\ made <= made' /\ Sound(E, made')
  /\ \A c \in Domains \ {d} : \A e \in E, f \in events[c] : e.id # f.id
  /\ UNCHANGED <<file, notified>> /\ edits' \subseteq edits /\ acts' \in 0..MaxActs

\* It keeps the invariant.
LEMMA WriteKeeps ==
  ASSUME StoreInv, NEW d, NEW E, Writes(d, E)
  PROVE  StoreInv'
<1>1. events' = [c \in Domains |-> IF c = d THEN E ELSE events[c]]
  BY DEF StoreInv, Writes
<1>2. ASSUME NEW c \in Domains, c # d
      PROVE  Sound(events[c], made')
  <2>1. \A e \in events[c] : e.id \in Nat
    BY <1>2 DEF StoreInv, Writes, Sound, Proper, EventType
  <2> QED
    BY <1>2, <2>1 DEF StoreInv, Writes, Sound
<1>3. \A c \in Domains : Sound(events'[c], made')
  BY <1>1, <1>2 DEF Writes
<1>4. \A a, c \in Domains : \A e \in events'[a], f \in events'[c] : e.id = f.id => a = c
  BY <1>1 DEF StoreInv, Writes
<1>5. \A e \in file : e.id \in Nat
  BY DEF StoreInv, Writes, Proper, EventType
<1>6. \A e \in file' : e.seq = 0 /\ e.id <= made'
  BY <1>5 DEF StoreInv, Writes
<1>7. \A e \in edits' : Fits(e)'
  BY DEF StoreInv, Writes, Fits
<1>8. Proper(file)' /\ New(file)'
  BY DEF StoreInv, Writes, Proper, New
<1>9. Taken <= made'
  BY BoundType DEF StoreInv, Writes
<1> QED
  BY <1>1, <1>3, <1>4, <1>6, <1>7, <1>8, <1>9
  DEF StoreInv, Writes, Sound, Proper, Strict, New

\* A backup keeps identifiers and drops the order of the service.
LEMMA PortableIsProper ==
  ASSUME NEW E, Proper(E)
  PROVE  /\ Proper(Portable(E))
         /\ \A g \in Portable(E) :
              g.seq = 0 /\ \E e \in E : g.id = e.id /\ g.at = e.at /\ g.updated = e.updated
<1> DEFINE P == Portable(E)
           v == [e \in E |-> [e EXCEPT !.seq = 0]]
<1>1. ASSUME NEW e \in E
      PROVE  /\ v[e] \in EventType /\ v[e].seq = 0 /\ v[e].id = e.id
             /\ v[e].at = e.at /\ v[e].updated = e.updated
  <2>1. e \in EventType /\ v[e] = [e EXCEPT !.seq = 0]
    BY DEF Proper
  <2> HIDE DEF v
  <2>2. /\ v[e].seq = 0 /\ v[e].id = e.id /\ v[e].type = e.type /\ v[e].told = e.told
        /\ v[e].at = e.at /\ v[e].updated = e.updated
    BY <2>1 DEF EventType
  <2>3. v[e] \in EventType
    BY <2>1 DEF EventType
  <2> QED
    BY <2>2, <2>3
<1>2. P = {v[e] : e \in E}
  BY DEF Portable
<1>3. v \in Surjection(E, P)
  <2>1. v \in [E -> P]
    BY <1>2
  <2> HIDE DEF v, P
  <2> QED
    BY <1>2, <2>1 DEF Surjection
<1> HIDE DEF v, P
<1>4. IsFiniteSet(P)
  BY <1>3, FS_Surjection DEF Proper
<1>5. Distinct(P)
  <2> SUFFICES ASSUME NEW e \in E, NEW f \in E,
                      v[e].id = v[f].id \/ (v[e].seq # 0 /\ v[e].seq = v[f].seq)
               PROVE  v[e] = v[f]
    BY <1>2 DEF Distinct
  <2>1. e.id = f.id
    BY <1>1
  <2>2. e = f
    BY <2>1 DEF Proper, Distinct
  <2> QED
    BY <2>2
<1>6. P \subseteq EventType
  BY <1>1, <1>2
<1> QED
  BY <1>1, <1>2, <1>4, <1>5, <1>6 DEF Proper, P

\* What Restore leaves of a domain is sound, and nothing of another domain is in it.
LEMMA RestoreKeeps ==
  ASSUME StoreInv, NEW d \in Domains, NEW base, base \subseteq events[d],
         ~Foreign(d, file), Strict(base \cup Unknown(d, file))
  PROVE  LET E == base \cup Unknown(d, file)
         IN  /\ Sound(E, made)
             /\ \A c \in Domains \ {d} : \A e \in E, f \in events[c] : e.id # f.id
<1> DEFINE U == Unknown(d, file)
           E == base \cup U
<1>1. Proper(events[d]) /\ \A e \in events[d] : e.id <= made
  BY DEF StoreInv, Sound
<1>2. U \subseteq Portable(file) /\ \A e \in U : \A f \in events[d] : f.id # e.id
  BY DEF Unknown
<1>3. Proper(file)
  BY DEF StoreInv
<1>4. /\ Proper(Portable(file))
      /\ \A g \in Portable(file) :
           g.seq = 0 /\ \E e \in file : g.id = e.id /\ g.at = e.at /\ g.updated = e.updated
  BY <1>3, PortableIsProper
<1> HIDE DEF U
<1>5. IsFiniteSet(E)
  <2>1. IsFiniteSet(base) /\ IsFiniteSet(U)
    BY <1>1, <1>2, <1>4, FS_Subset DEF Proper
  <2> QED
    BY <2>1, FS_Union
<1>6. E \subseteq EventType
  BY <1>1, <1>2, <1>4 DEF Proper
<1>7. Distinct(E)
  <2>1. Distinct(Portable(file)) /\ Distinct(events[d])
    BY <1>1, <1>4 DEF Proper
  <2>2. \A e \in U : e.seq = 0 /\ e \in Portable(file)
    BY <1>2, <1>4
  <2>3. \A e \in base : e \in events[d]
    OBVIOUS
  <2> QED
    BY <1>2, <2>1, <2>2, <2>3 DEF Distinct
<1>8. \A e \in E : e.id <= made
  <2>1. \A e \in file : e.id <= made
    BY DEF StoreInv
  <2> QED
    BY <1>1, <1>2, <1>4, <2>1
<1>8a. New(E)
  <2>1. New(file) /\ New(events[d])
    BY DEF StoreInv, Sound
  <2>2. \A e \in U : e.id > Taken => Plain(e)
    BY <1>2, <1>4, <2>1 DEF New, Plain
  <2> QED
    BY <2>1, <2>2 DEF New
<1>9. Sound(E, made)
  BY <1>5, <1>6, <1>7, <1>8, <1>8a DEF Sound, Proper, U
<1>10. ASSUME NEW c \in Domains \ {d}, NEW e \in E, NEW f \in events[c], e.id = f.id
       PROVE  FALSE
  <2>1. CASE e \in base
    BY <1>10, <2>1 DEF StoreInv
  <2>2. CASE e \in U
    <3>1. PICK g \in file : g.id = e.id
      BY <1>2, <1>4, <2>2
    <3> QED
      BY <1>10, <3>1 DEF Foreign
  <2> QED
    BY <2>1, <2>2
<1> QED
  BY <1>9, <1>10 DEF U

\* What is read of a domain, and so what is shown, replays.
Replayable == {E \in SUBSET EventType : Proper(E) /\ Strict(E)}
Answers == {{}} \cup {{E} : E \in Replayable}
ReadInv ==
  \A t \in Tabs : reads[t] \in Seq(Refreshes(Answers))
                  /\ shown[t].events \in Replayable \cup {{}}

\* At first nothing waits.
LEMMA InitRead == Init => ReadInv
<1> SUFFICES ASSUME Init, NEW t \in Tabs
             PROVE  /\ reads[t] \in Seq(Refreshes(Answers))
                    /\ shown[t].events \in Replayable \cup {{}}
  BY DEF ReadInv
<1>1. reads[t] = <<>> /\ shown[t] = Snapshot(Anonymous, Stored[Anonymous])
  BY DEF Init
<1>2. Stored[Anonymous] \in Replayable
  BY StoredType DEF Replayable, Proper, Domains
<1>3. shown[t].events = Stored[Anonymous]
  BY <1>1 DEF Snapshot
<1> QED
  BY <1>1, <1>2, <1>3, EmptySeq

\* Every step keeps it.
LEMMA StepRead == TabsOK /\ StoreInv /\ ReadInv /\ [Next]_vars => ReadInv'
<1> SUFFICES ASSUME TabsOK, StoreInv, ReadInv, [Next]_vars PROVE ReadInv'
  OBVIOUS
<1> DEFINE G == Refreshes(Answers)
<1>1. ASSUME NEW t \in Tabs, NEW s, reads' = [reads EXCEPT ![t] = s], s \in Seq(G),
             NEW x, x.events \in Replayable \cup {{}},
             shown' = shown \/ shown' = [shown EXCEPT ![t] = x]
      PROVE  ReadInv'
  <2>1. \A o \in Tabs : reads'[o] = (IF o = t THEN s ELSE reads[o])
    BY <1>1 DEF TabsOK
  <2>2. \A o \in Tabs : shown'[o] = shown[o] \/ shown'[o] = x
    BY <1>1 DEF TabsOK
  <2> HIDE DEF G
  <2>3. \A o \in Tabs : reads[o] \in Seq(G) /\ shown[o].events \in Replayable \cup {{}}
    BY DEF ReadInv, G
  <2>4. \A o \in Tabs : reads'[o] \in Seq(G) /\ shown'[o].events \in Replayable \cup {{}}
    BY <1>1, <2>1, <2>2, <2>3
  <2> QED
    BY <2>4 DEF ReadInv, G
<1>2. ASSUME NEW t \in Tabs, NEW d \in Domains, NEW why \in Whys,
             reads' = [reads EXCEPT ![t] = Append(@, Refresh(d, why))],
             NEW x, x.events \in Replayable \cup {{}},
             shown' = shown \/ shown' = [shown EXCEPT ![t] = x]
      PROVE  ReadInv'
  <2>1. Refresh(d, why) \in G
    BY DEF Refresh, Refreshes, Answers
  <2> HIDE DEF G
  <2>2. reads[t] \in Seq(G)
    BY DEF ReadInv, G
  <2>3. Append(reads[t], Refresh(d, why)) \in Seq(G)
    BY <2>1, <2>2
  <2>4. reads' = [reads EXCEPT ![t] = Append(reads[t], Refresh(d, why))]
    BY <1>2 DEF TabsOK
  <2> QED
    BY <1>1, <1>2, <2>3, <2>4
<1>3. Snapshot(None, {}).events = {}
  BY DEF Snapshot
<1>4. ASSUME NEW t \in Tabs, NEW why \in Whys, Enqueue(t, why), UNCHANGED shown
      PROVE  ReadInv'
  <2>1. active[t] \in Domains
    BY DEF TabsOK
  <2> QED
    BY <1>2, <1>3, <1>4, <2>1 DEF Enqueue
<1>5. ASSUME UNCHANGED <<reads, shown>>
      PROVE  ReadInv'
  BY <1>5 DEF ReadInv
<1>6. ASSUME NEW t \in Tabs, Read(t)
      PROVE  ReadInv'
  <2>1. PICK n \in DOMAIN reads[t] :
          reads' = [reads EXCEPT ![t][n].got = {events[reads[t][n].domain]}]
    BY <1>6 DEF Read
  <2> DEFINE x == {events[reads[t][n].domain]}
             y == [reads[t][n] EXCEPT !.got = x]
             s == [reads[t] EXCEPT ![n] = y]
  <2>2. reads' = [reads EXCEPT ![t] = s]
    BY <2>1 DEF TabsOK
  <2> HIDE DEF G
  <2>3. reads[t] \in Seq(G)
    BY DEF ReadInv, G
  <2>4. reads[t][n] \in G /\ Len(reads[t]) \in Nat /\ DOMAIN reads[t] = 1..Len(reads[t])
    BY <2>3, ElementOfSeq, LenProperties
  <2>5. reads[t][n].domain \in Domains
    BY <2>4 DEF G, Refreshes
  <2>6. events[reads[t][n].domain] \in Replayable
    BY <2>5 DEF StoreInv, Sound, Proper, Replayable
  <2>7. x \in Answers
    BY <2>6 DEF Answers
  <2> HIDE DEF x
  <2>8. y \in G
    BY <2>4, <2>7 DEF G, Refreshes
  <2> HIDE DEF y
  <2>9. s \in Seq(G)
    BY <2>3, <2>4, <2>8, ExceptSeq
  <2>10. UNCHANGED shown
    BY <1>6 DEF Read, view
  <2> HIDE DEF s
  <2> QED
    BY <1>1, <1>3, <2>2, <2>9, <2>10
<1>7. ASSUME NEW t \in Tabs, Show(t)
      PROVE  ReadInv'
  <2> DEFINE r == Head(reads[t])
             x == Snapshot(r.domain, UNION r.got)
  <2>1. /\ reads' = [reads EXCEPT ![t] = Tail(reads[t])]
        /\ shown' = shown \/ shown' = [shown EXCEPT ![t] = x]
        /\ reads[t] # <<>>
    BY <1>7 DEF Show, TabsOK
  <2>2. reads[t] \in Seq(G)
    BY DEF ReadInv
  <2> HIDE DEF G
  <2>3. Tail(reads[t]) \in Seq(G) /\ r \in G
    BY <2>1, <2>2, HeadTailProperties
  <2>4. r.got \in Answers
    BY <2>3 DEF G, Refreshes
  <2>5. UNION r.got \in Replayable \cup {{}}
    <3> DEFINE a == r.got
    <3> HIDE DEF r
    <3>1. CASE a = {}
      BY <3>1
    <3>2. ASSUME NEW E \in Replayable, a = {E}
          PROVE  UNION a \in Replayable
      <4>1. UNION {E} = E
        OBVIOUS
      <4> HIDE DEF a
      <4> QED
        BY <3>2, <4>1
    <3> QED
      BY <2>4, <3>1, <3>2 DEF Answers
  <2>6. x.events \in Replayable \cup {{}}
    BY <2>5 DEF Snapshot
  <2> HIDE DEF x, r
  <2> QED
    BY <1>1, <2>1, <2>3, <2>6
<1>8. ASSUME NEW t \in Tabs, Hear(t)
      PROVE  ReadInv'
  BY <1>4, <1>8 DEF Hear, Whys
<1>9. ASSUME NEW t \in Tabs, NEW d \in Domains, Observe(t, d)
      PROVE  ReadInv'
  <2>1. shown' = [shown EXCEPT ![t] = Empty] /\ Empty.events = {}
    BY <1>9 DEF Observe, Empty, Snapshot
  <2>2. CASE active[t] = Anonymous
    <3>1. reads' = [reads EXCEPT ![t] = reads[t]]
      BY <1>9, <2>2 DEF Observe, TabsOK
    <3>2. reads[t] \in Seq(G)
      BY DEF ReadInv
    <3> HIDE DEF G
    <3> QED
      BY <1>1, <2>1, <3>1, <3>2
  <2>3. CASE active[t] # Anonymous
    <3>1. reads' = [reads EXCEPT ![t] = Append(@, Refresh(Anonymous, "change"))]
      BY <1>9, <2>3 DEF Observe
    <3>2. Anonymous \in Domains /\ "change" \in Whys
      BY DEF Domains, Whys
    <3> QED
      BY <1>2, <2>1, <3>1, <3>2
  <2> QED
    BY <2>2, <2>3
<1>10. ASSUME NEW t \in Tabs, Select(t)
       PROVE  ReadInv'
  <2>1. /\ \/ UNCHANGED reads
           \/ reads' = [reads EXCEPT ![t] = Append(@, Refresh(selected[t], "change"))]
        /\ UNCHANGED shown
    BY <1>10 DEF Select
  <2>2. selected[t] \in Domains /\ "change" \in Whys
    BY DEF TabsOK, Whys
  <2>3. CASE UNCHANGED reads
    BY <1>5, <2>1, <2>3
  <2>4. CASE reads' = [reads EXCEPT ![t] = Append(@, Refresh(selected[t], "change"))]
    BY <1>2, <1>3, <2>1, <2>2, <2>4
  <2> QED
    BY <2>1, <2>3, <2>4
<1>11. ASSUME NEW t \in Tabs, NEW d, NEW E, Write(t, d, E)
       PROVE  ReadInv'
  BY <1>4, <1>11 DEF Write, view, Whys
<1>12. ASSUME NEW t \in Tabs, NEW scanned \in Scanned, NEW preference \in Preferences,
              Add(t, scanned, preference)
       PROVE  ReadInv'
  BY <1>5, <1>12 DEF Add, Wait, view
<1>13. ASSUME NEW t \in Tabs, Change(t)
       PROVE  ReadInv'
  BY <1>5, <1>13 DEF Change, Touch, Wait, view
<1>14. ASSUME NEW t \in Settings, ImportRows(t) \/ Merge(t) \/ Replace(t) \/ Synchronize(t)
       PROVE  ReadInv'
  <2>1. t \in Tabs
    BY SettingsType
  <2> QED
    BY <1>11, <1>14, <2>1 DEF ImportRows, Merge, Replace, Restore, Synchronize
<1>15. ASSUME NEW t \in Settings, Export(t)
       PROVE  ReadInv'
  BY <1>5, <1>15 DEF Export, view
<1>16. ASSUME NEW e \in edits, Commit(e)
       PROVE  ReadInv'
  <2>1. e.tab \in Tabs
    BY DEF TabsOK
  <2> QED
    BY <1>11, <1>16, <2>1 DEF Commit
<1>17. ASSUME NEW e \in edits, Refuse(e)
       PROVE  ReadInv'
  BY <1>5, <1>17 DEF Refuse, view
<1>18. CASE UNCHANGED vars
  BY <1>5, <1>18 DEF vars
<1> QED
  BY <1>6, <1>7, <1>8, <1>9, <1>10, <1>12, <1>13, <1>14, <1>15, <1>16, <1>17, <1>18,
     SettingsType
  DEF Next, Step

\* Every step keeps what IndexedDB holds sound.
LEMMA StepStore == StoreInv /\ TabsOK /\ ReadInv /\ [Next]_vars => StoreInv'
<1> SUFFICES ASSUME StoreInv, TabsOK, ReadInv, [Next]_vars PROVE StoreInv'
  OBVIOUS
<1>1. \A now \in Clock : now \in Nat
  BY ClockType
<1>2. \A t \in Tabs : active[t] \in Domains
  BY DEF TabsOK
<1>3. acts < MaxActs /\ acts' = acts + 1 => acts' \in 0..MaxActs
  BY BoundType DEF StoreInv
<1>4. \A d \in Domains : Proper(events[d]) /\ Strict(events[d]) /\ New(events[d])
                         /\ \A e \in events[d] : e.id \in Nat /\ e.id <= made
  BY DEF StoreInv, Sound, Proper, EventType
<1>5. made \in Nat /\ Taken <= made /\ notified \subseteq Tabs /\ acts \in 0..MaxActs
  BY DEF StoreInv
<1>6. ASSUME NEW t \in Tabs, Step(t)
      PROVE  StoreInv'
  BY <1>5, <1>6, KeepsData DEF Step, Read, Show, Hear, Select, data, view
<1>7. ASSUME NEW t \in Settings, NEW d \in Domains, Observe(t, d)
      PROVE  StoreInv'
  BY <1>3, <1>5, <1>7, KeepsData DEF Observe, data
<1>8. ASSUME NEW t \in Tabs, Acts(t), NEW type \in Types, NEW h \in Nat, NEW amount \in Int,
             NEW told \in Payloads, NEW at \in Nat,
             type = "holding.added" => told \in Copies /\ amount > 0,
             Wait(Edit(t, type, h, amount, told, at))
      PROVE  StoreInv'
  <2>1. edits' = edits \cup {Edit(t, type, h, amount, told, at)}
    BY <1>8 DEF Wait
  <2>2. Fits(Edit(t, type, h, amount, told, at))
    BY <1>2, <1>8 DEF Edit, Fits
  <2>3. \A e \in edits' : e \in edits \/ Fits(e)'
    BY <2>1, <2>2 DEF Fits
  <2> QED
    BY <1>3, <1>5, <1>8, <2>3, KeepsData DEF Wait, Acts, data, view
<1>9. ASSUME NEW t \in Tabs, NEW scanned \in Scanned, NEW preference \in Preferences,
             Add(t, scanned, preference)
      PROVE  StoreInv'
  <2>1. PICK copy \in Copies : Acts(t) /\ Wait(Edit(t, "holding.added", 0, 1, copy, 0))
    BY <1>9, AddedCopy DEF Add
  <2>2. "holding.added" \in Types /\ copy \in Payloads
    BY DEF Types, Copies
  <2> QED
    BY <1>8, <2>1, <2>2
<1>10. ASSUME NEW t \in Tabs, Change(t)
       PROVE  StoreInv'
  <2>1. PICK holding \in HoldingsOf(events[active[t]]), seen \in HoldingsOf(shown[t].events) :
          \/ \E delta \in {-1, 1} :
               Touch(t, "holding.quantity-adjusted", holding, delta, Nothing)
          \/ \E change \in Corrections, preference \in Preferences :
               Touch(t, "holding.updated", holding, 0,
                     Corrected(seen.copy, change, preference))
          \/ Touch(t, "holding.removed", holding, 0, Nothing)
    BY <1>10 DEF Change
  <2>2. Acts(t)
    BY <1>10 DEF Change
  <2>3. holding.id \in Nat /\ Instant(holding.updatedAt) \in Nat
    BY <1>2, <1>4, ActiveHolding, TimesAreNumbers
  <2>4. ASSUME NEW type \in Types, type # "holding.added", NEW amount \in Int,
               NEW told \in Payloads, Touch(t, type, holding, amount, told)
        PROVE  StoreInv'
    <3>1. PICK now \in Clock : Wait(Edit(t, type, holding.id, amount, told,
                                         Stamp(now, Instant(holding.updatedAt))))
      BY <2>4 DEF Touch
    <3>2. Stamp(now, Instant(holding.updatedAt)) \in Nat
      BY <1>1, <2>3 DEF Stamp
    <3> QED
      BY <1>8, <2>2, <2>3, <2>4, <3>1, <3>2
  <2>5. CopyType(seen.copy)
    <3>1. HoldingsOf({}) = {}
      BY HoldingsAre
    <3>2. shown[t].events \in Replayable
      BY <3>1 DEF ReadInv
    <3> QED
      BY <3>2, CopyOfHolding DEF Replayable
  <2>6. /\ "holding.quantity-adjusted" \in Types /\ "holding.updated" \in Types
        /\ "holding.removed" \in Types /\ 0 \in Int
        /\ \A delta \in {-1, 1} : delta \in Int
    BY DEF Types
  <2>7. ASSUME NEW delta \in {-1, 1},
               Touch(t, "holding.quantity-adjusted", holding, delta, Nothing)
        PROVE  StoreInv'
    BY <2>4, <2>6, <2>7, NothingTold
  <2>8. ASSUME NEW change \in Corrections, NEW preference \in Preferences,
               Touch(t, "holding.updated", holding, 0,
                     Corrected(seen.copy, change, preference))
        PROVE  StoreInv'
    <3>1. Corrected(seen.copy, change, preference) \in Payloads
      BY <2>5, CorrectedType
    <3> QED
      BY <2>4, <2>6, <2>8, <3>1
  <2>9. ASSUME Touch(t, "holding.removed", holding, 0, Nothing)
        PROVE  StoreInv'
    BY <2>4, <2>6, <2>9, NothingTold
  <2> QED
    BY <2>1, <2>7, <2>8, <2>9
<1>11. ASSUME NEW e \in edits, Commit(e)
       PROVE  StoreInv'
  <2>0. PICK now \in Clock : \E f \in EventsOf(events[e.domain], made + 1, e, now) :
          /\ edits' = edits \ {e}
          /\ made' = made + 1
          /\ Write(e.tab, e.domain, events[e.domain] \cup {f})
          /\ UNCHANGED acts
    BY <1>11 DEF Commit
  <2>1. PICK f \in EventsOf(events[e.domain], made + 1, e, now) :
          /\ edits' = edits \ {e}
          /\ made' = made + 1
          /\ Write(e.tab, e.domain, events[e.domain] \cup {f})
          /\ UNCHANGED acts
    BY <2>0
  <2> DEFINE d == e.domain
             E == events[d]
             id == made + 1
  <2>2. Fits(e)
    BY DEF StoreInv
  <2>3. /\ d \in Domains /\ Proper(E) /\ New(E) /\ id \in Nat /\ now \in Nat
        /\ \A c \in Domains : \A g \in events[c] : g.id # id /\ g.id <= id
    BY <1>1, <1>4, <1>5, <2>2 DEF Fits
  <2>4. f \in EventsOf(E, id, e, now)
    OBVIOUS
  <2>5. made' = id /\ events' = [events EXCEPT ![d] = E \cup {f}] /\ UNCHANGED <<file, notified>>
    BY <2>1 DEF Write, view
  <2>6. made <= id
    BY <1>5
  <2> HIDE DEF d, E, id
  <2>7. f \in EventType /\ f.id = id /\ f.seq = 0 /\ Plain(f) /\ Strict(E \cup {f})
    BY <2>2, <2>3, <2>4, NewEvent DEF Fits
  <2>7a. New(E \cup {f})
    BY <2>3, <2>7 DEF New
  <2>8. \A g \in E : g.id # f.id /\ g.id <= id
    BY <2>3, <2>7 DEF E
  <2>9. Proper(E \cup {f})
    BY <2>3, <2>7, <2>8, OneMore
  <2>10. \A g \in E \cup {f} : g.id <= id
    BY <2>3, <2>7, <2>8
  <2>11. \A c \in Domains \ {d} : \A g \in E \cup {f}, h \in events[c] : g.id # h.id
    BY <2>3, <2>7 DEF StoreInv, E
  <2>12. Sound(E \cup {f}, id)
    BY <2>7, <2>7a, <2>9, <2>10 DEF Sound
  <2>13. PICK X : X = E \cup {f}
    OBVIOUS
  <2>14. PICK c \in Domains : c = d
    BY <2>3
  <2>15. Writes(c, X)
    BY <1>5, <2>1, <2>3, <2>5, <2>6, <2>11, <2>12, <2>13, <2>14 DEF Writes
  <2> QED
    BY <2>15, WriteKeeps
<1>12. ASSUME NEW e \in edits, Refuse(e)
       PROVE  StoreInv'
  BY <1>5, <1>12, KeepsData DEF Refuse, data, view
<1>13. ASSUME NEW t \in Tabs, ImportRows(t)
       PROVE  StoreInv'
  <2> DEFINE d == active[t]
             E == events[d]
  <2>1. PICK rows \in Rows, now \in Clock :
          LET R == Imported(now, E, made, rows)
          IN  /\ Acts(t) /\ Strict(R.events)
              /\ made' = made + Len(rows)
              /\ Write(t, d, R.events)
              /\ UNCHANGED edits
    BY <1>13 DEF ImportRows
  <2> DEFINE R == Imported(now, E, made, rows).events
             l == Len(rows)
  <2>2. /\ d \in Domains /\ Proper(E) /\ New(E) /\ now \in Nat
        /\ \A e \in E : e.id \in Nat /\ e.id <= made
    BY <1>1, <1>2, <1>4
  <2>3. rows \in Seq([copy : Copies, amount : Int]) /\ l \in Nat
    <3>1. rows \in Seq([copy : Copies, amount : Int])
      BY RowsType
    <3> QED
      BY <3>1, LenProperties
  <2>4. /\ made' = made + l /\ events' = [events EXCEPT ![d] = R] /\ Strict(R)
        /\ UNCHANGED <<file, notified, edits>> /\ acts' \in 0..MaxActs
    BY <1>3, <2>1 DEF Write, view, Acts
  <2>5. /\ Proper(R)
        /\ \A e \in R : e \in E \/ (e.id \in (made + 1)..(made + l) /\ Plain(e))
    <3> HIDE DEF E
    <3> QED
      BY <1>5, <2>2, <2>3, RowsJoin
  <2> HIDE DEF R, l, d
  <2>6. Sound(R, made + l)
    <3>1. \A e \in R : e.id <= made + l
      BY <1>5, <2>2, <2>3, <2>5
    <3>2. New(R)
      BY <2>2, <2>5 DEF New
    <3> QED
      BY <2>4, <2>5, <3>1, <3>2 DEF Sound
  <2>7. \A c \in Domains \ {d} : \A e \in R, f \in events[c] : e.id # f.id
    <3>1. \A c \in Domains : \A f \in events[c] : f.id \notin (made + 1)..(made + l)
      BY <1>4, <1>5
    <3>2. \A c \in Domains \ {d} : \A e \in E, f \in events[c] : e.id # f.id
      BY <2>2 DEF StoreInv
    <3> QED
      BY <2>5, <3>1, <3>2
  <2>8. made + l \in Nat /\ made <= made + l
    BY <1>5, <2>3
  <2>9. PICK c \in Domains : c = d
    BY <2>2
  <2>9a. PICK X : X = R
    OBVIOUS
  <2>10. Writes(c, X)
    BY <2>2, <2>4, <2>6, <2>7, <2>8, <2>9, <2>9a DEF Writes
  <2> QED
    BY <2>10, WriteKeeps
<1>14. ASSUME NEW t \in Tabs, Export(t)
       PROVE  StoreInv'
  <2> DEFINE E == events[active[t]]
             P == Portable(E)
  <2>1. Proper(E) /\ New(E) /\ \A e \in E : e.id <= made
    BY <1>2, <1>4
  <2>2. /\ Proper(P)
        /\ \A g \in P : g.seq = 0 /\ \E e \in E : g.id = e.id /\ g.at = e.at
                                                      /\ g.updated = e.updated
    <3> HIDE DEF E
    <3> QED
      BY <2>1, PortableIsProper
  <2>3. /\ file' = P /\ UNCHANGED <<events, made, edits, notified>> /\ acts' \in 0..MaxActs
    BY <1>3, <1>14 DEF Export, Acts, view
  <2> HIDE DEF E, P
  <2>4. \A g \in P : g.seq = 0 /\ g.id <= made
    BY <2>1, <2>2
  <2>5. Proper(file') /\ New(file')
    BY <2>1, <2>2, <2>3 DEF New, Plain
  <2>6. \A d \in Domains : Sound(events'[d], made')
    BY <2>3 DEF StoreInv
  <2>7. \A e \in edits' : Fits(e)'
    BY <2>3 DEF StoreInv, Fits
  <2> QED
    BY <2>3, <2>4, <2>5, <2>6, <2>7 DEF StoreInv, Sound, Proper, Strict, New
<1>15. ASSUME NEW t \in Tabs, NEW base, base \subseteq events[active[t]], Restore(t, base)
       PROVE  StoreInv'
  <2> DEFINE d == active[t]
             E == base \cup Unknown(d, file)
  <2>1. /\ ~Foreign(d, file) /\ Strict(E)
        /\ made' = made /\ events' = [events EXCEPT ![d] = E]
        /\ UNCHANGED <<file, notified, edits>> /\ acts' \in 0..MaxActs
    BY <1>3, <1>15 DEF Restore, Write, view, Acts
  <2>2. d \in Domains
    BY <1>2
  <2>3. /\ Sound(E, made)
        /\ \A c \in Domains \ {d} : \A e \in E, f \in events[c] : e.id # f.id
    <3>1. base \subseteq events[d]
      BY <1>15
    <3> HIDE DEF d
    <3> QED
      BY <2>1, <2>2, <3>1, RestoreKeeps
  <2> HIDE DEF d, E
  <2>4. PICK c \in Domains : c = d
    BY <2>2
  <2>4a. PICK X : X = E
    OBVIOUS
  <2>5. Writes(c, X)
    BY <1>5, <2>1, <2>2, <2>3, <2>4, <2>4a DEF Writes
  <2> QED
    BY <2>5, WriteKeeps
<1>16. ASSUME NEW t \in Tabs, Synchronize(t)
       PROVE  StoreInv'
  <2> DEFINE d == active[t]
             E == events[d]
             R == Renumbered(E)
  <2>1. /\ made' = made /\ events' = [events EXCEPT ![d] = R]
        /\ UNCHANGED <<file, notified, edits>> /\ acts' \in 0..MaxActs
    BY <1>3, <1>16 DEF Synchronize, Write, view, Acts, Renumbered
  <2>2. /\ d \in Domains /\ Proper(E) /\ Strict(E) /\ New(E)
        /\ \A e \in E : e.id <= made
        /\ \A c \in Domains \ {d} : \A e \in E, f \in events[c] : e.id # f.id
    BY <1>2, <1>4 DEF StoreInv
  <2> HIDE DEF d, E
  <2>3. /\ Proper(R) /\ Strict(R)
        /\ \A g \in R : \E e \in E : g.id = e.id /\ g.at = e.at /\ g.updated = e.updated
    BY <2>2, Renumbering
  <2> HIDE DEF R
  <2>3a. New(R)
    BY <2>2, <2>3 DEF New, Plain
  <2>4. Sound(R, made)
    BY <2>2, <2>3, <2>3a DEF Sound
  <2>5. \A c \in Domains \ {d} : \A e \in R, f \in events[c] : e.id # f.id
    BY <2>2, <2>3
  <2>6. PICK c \in Domains : c = d
    BY <2>2
  <2>6a. PICK X : X = R
    OBVIOUS
  <2>7. Writes(c, X)
    BY <1>5, <2>1, <2>2, <2>4, <2>5, <2>6, <2>6a DEF Writes
  <2> QED
    BY <2>7, WriteKeeps
<1>17. CASE UNCHANGED vars
  BY <1>5, <1>17, KeepsData DEF vars
<1>18. ASSUME NEW t \in Settings, Merge(t) \/ Replace(t)
       PROVE  StoreInv'
  BY <1>15, <1>18, SettingsType DEF Merge, Replace
<1> QED
  BY <1>6, <1>7, <1>9, <1>10, <1>11, <1>12, <1>13, <1>14, <1>16, <1>17, <1>18, SettingsType
  DEF Next

-----------------------------------------------------------------------------
(* The theorems about IndexedDB.                                              *)

CollectionInv == ShownInv /\ StoreInv /\ ReadInv

\* What the tabs show and what IndexedDB holds are invariants together: an edit's domain
\* is one of those the tab may be at.
LEMMA CollectionInvariant == Spec => []CollectionInv
<1>1. Init => CollectionInv
  BY InitShown, InitStore, InitRead DEF CollectionInv
<1>2. CollectionInv /\ [Next]_vars => CollectionInv'
  <2>1. CollectionInv => ShownInv /\ StoreInv /\ ReadInv /\ TabsOK
    BY DEF CollectionInv, ShownInv
  <2>2. CollectionInv /\ [Next]_vars => ShownInv' /\ StoreInv' /\ ReadInv'
    BY <2>1, StepShown, StepStore, StepRead
  <2> QED
    BY <2>2 DEF CollectionInv
<1> QED
  BY <1>1, <1>2, PTL DEF Spec

\* Whatever is imported, restored, numbered by the service or written by two tabs at
\* once, every domain holds events of its own, each once, and a tab that is not hiding
\* an account edits the domain it selected.
THEOREM CollectionTyped == Spec => []TypeOK
<1>1. CollectionInv => TypeOK
  <2> SUFFICES ASSUME CollectionInv PROVE TypeOK
    OBVIOUS
  <2>1. events \in [Domains -> SUBSET EventType]
    BY DEF CollectionInv, StoreInv, Sound, Proper
  <2>2. \A d \in Domains : \A e, f \in events[d] : e.id = f.id => e = f
    BY DEF CollectionInv, StoreInv, Sound, Proper, Distinct
  <2>3. \A c, d \in Domains : c # d => ~\E e \in events[c], f \in events[d] : e.id = f.id
    BY DEF CollectionInv, StoreInv
  <2>4. file \subseteq EventType /\ \A e \in file : e.seq = 0
    BY DEF CollectionInv, StoreInv, Proper
  <2>5. \A e \in edits : e.tab \in Tabs /\ e.domain \in Domains
    BY DEF CollectionInv, StoreInv, Fits
  <2>6. /\ active \in [Tabs -> Domains] /\ selected \in [Tabs -> Domains]
        /\ phase \in [Tabs -> {"settled", "hiding", "selecting", "refreshing"}]
        /\ \A t \in Tabs : phase[t] # "hiding" => active[t] = selected[t]
    BY DEF CollectionInv, ShownInv, TabsOK
  <2>7. notified \subseteq Tabs /\ acts \in 0..MaxActs
    BY DEF CollectionInv, StoreInv
  <2> QED
    BY <2>1, <2>2, <2>3, <2>4, <2>5, <2>6, <2>7 DEF TypeOK
<1> QED
  BY <1>1, CollectionInvariant, PTL

\* Every domain replays, and the removal of any holding it shows can be written at
\* once, for any clock, any limit and any number of events, tabs and files: its event
\* is later than all the domain knows of the holding.  Only a holding last changed by an
\* event of a file that is written otherwise, or later than the holding says, is left
\* out, and no event made here is one.
THEOREM EditsPass == Spec => []EditsGoThrough
<1>1. CollectionInv => EditsGoThrough
  <2> SUFFICES ASSUME CollectionInv, NEW d \in Domains
               PROVE  /\ Strict(events[d])
                      /\ \A e \in events[d] : e.id > Taken => e.at \in Nat /\ e.updated = e.at
                      /\ \A h \in HoldingsOf(events[d]), now \in Clock :
                           Timely(events[d], h.id) =>
                             Strict(events[d] \cup
                               {Event(made + 1, "holding.removed", h.id, 0, Nothing,
                                      Stamp(now, Instant(h.updatedAt)))})
    BY DEF EditsGoThrough
  <2> DEFINE E == events[d]
             id == made + 1
  <2>1. /\ Proper(E) /\ Strict(E) /\ New(E) /\ id \in Nat
        /\ \A e \in E : e.id # id
    BY DEF CollectionInv, StoreInv, Sound, Proper, EventType
  <2> HIDE DEF E, id
  <2>2. \A e \in E : e.id > Taken => e.at \in Nat /\ e.updated = e.at
    BY <2>1 DEF New, Plain
  <2>3. \A h \in HoldingsOf(E), now \in Clock :
          Timely(E, h.id) =>
            Strict(E \cup {Event(id, "holding.removed", h.id, 0, Nothing,
                                 Stamp(now, Instant(h.updatedAt)))})
    <3>1. \A now \in Clock : now \in Nat
      BY ClockType
    <3> QED
      BY <2>1, <3>1, RemovalGoesThrough
  <2> QED
    BY <2>1, <2>2, <2>3 DEF E, id
<1> QED
  BY <1>1, CollectionInvariant, PTL

-----------------------------------------------------------------------------
(* Adding a copy the domain has already.                                      *)

\* The holdings of a kind of copy.
OfCopy(E, copy) == {h.id : h \in {g \in HoldingsOf(E) : Alike(g.copy, copy)}}

\* Where there is one already, there is one to add to.
LEMMA SomeDuplicate ==
  ASSUME NEW E, Proper(E), NEW copy, OfCopy(E, copy) # {}
  PROVE  Duplicates(E, copy) # {}
<1> DEFINE same == {h \in HoldingsOf(E) : Alike(h.copy, copy)}
           X == {e \in E : \E h \in same : h.id = e.holding}
           Its(e) == CHOOSE h \in same : h.id = e.holding
           v == [e \in X |-> Collated(Its(e).updatedAt)]
<1>1. \A e \in X : Its(e) \in same /\ Its(e).id = e.holding
  OBVIOUS
<1>2. PICK h0 \in same : TRUE
  BY DEF OfCopy
<1>3. \A h \in same : \E e \in X : e.holding = h.id
  <2> SUFFICES ASSUME NEW h \in same PROVE \E e \in X : e.holding = h.id
    OBVIOUS
  <2>1. PICK e \in E : e.holding = h.id
    BY ActiveHolding
  <2> QED
    BY <2>1
<1>4. \A h \in same : Collated(h.updatedAt) \in Nat
  BY ActiveHolding, TimesAreNumbers
<1>5. \A g, h \in same : g.id = h.id => g = h
  <2> SUFFICES ASSUME NEW g \in same, NEW h \in same, g.id = h.id
               PROVE  g = h
    OBVIOUS
  <2>1. g = HoldingAt(E, g.id) /\ h = HoldingAt(E, h.id)
    BY ActiveHolding
  <2> QED
    BY <2>1
<1>6. IsFiniteSet(X) /\ X # {}
  <2>1. X \subseteq E
    OBVIOUS
  <2>2. X # {}
    BY <1>2, <1>3
  <2> HIDE DEF X
  <2> QED
    BY <2>1, <2>2, FS_Subset DEF Proper
<1>7. v \in [X -> Nat]
  BY <1>1, <1>4
<1> HIDE DEF v, X, Its, same
<1>8. PICK x \in X : \A y \in X : v[y] <= v[x]
  BY <1>6, <1>7, Greatest
<1>9. \A y \in X : v[y] = Collated(Its(y).updatedAt)
  BY DEF v
<1>10. /\ Its(x) \in same
       /\ \A g \in same : Collated(g.updatedAt) <= Collated(Its(x).updatedAt)
  <2> SUFFICES ASSUME NEW g \in same
               PROVE  Collated(g.updatedAt) <= Collated(Its(x).updatedAt)
    BY <1>1
  <2>1. PICK y \in X : y.holding = g.id
    BY <1>3
  <2>2. Its(y) = g
    BY <1>1, <1>5, <2>1
  <2> QED
    BY <1>8, <1>9, <2>2
<1> QED
  BY <1>10 DEF Duplicates, same

\* Adding one of a kind of copy the domain has changes a holding of that kind, and no
\* holding of any kind comes or goes.
LEMMA AdditionJoins ==
  ASSUME NEW E, Proper(E), Strict(E), NEW copy \in Copies, OfCopy(E, copy) # {},
         NEW id \in Nat, \A e \in E : e.id # id, NEW now \in Nat, NEW amount \in Int, amount > 0,
         NEW f \in Additions(E, id, copy, amount, now, NoFloor), Strict(E \cup {f})
  PROVE  OfCopy(E \cup {f}, copy) = OfCopy(E, copy)
<1> DEFINE F == E \cup {f}
           q == Held(E)[LogLength(E)]
           u == Held(F)[LogLength(F)]
<1>1. PICK dup \in HoldingsOf(E) :
        \E at : f = Event(id, "holding.quantity-adjusted", dup.id, amount, Nothing, at)
  BY SomeDuplicate DEF Additions, Duplicates
<1>2. dup.id \in Named(E) /\ q[dup.id] > 0
  BY ActiveHolding
<1>3. /\ f.holding = dup.id /\ f.told = Nothing /\ f.amount = amount
      /\ f.type = "holding.quantity-adjusted"
  BY <1>1 DEF Event
<1>4. f \notin E /\ Proper(F)
  <2>1. NoFloor \in Int /\ NoFloor >= -1
    BY DEF NoFloor
  <2>2. f \in EventType /\ f.id = id /\ f.seq = 0
    BY <2>1, AdditionType
  <2> QED
    BY <2>2, OneMore
\* The same holdings are active,
<1>5. /\ Named(F) = Named(E)
      /\ \A h \in Named(E) : u[h] > 0 <=> q[h] > 0
  BY <1>2, <1>3, <1>4, MoreReplays
<1>6. /\ f \in F /\ E \subseteq F /\ \A e \in F : e = f \/ e \in E
      /\ Strict(F)
  OBVIOUS
<1> HIDE DEF F, q, u
<1>7. \A x \in HoldingsOf(E) : \E y \in HoldingsOf(F) : y.id = x.id
  <2> SUFFICES ASSUME NEW x \in HoldingsOf(E)
               PROVE  \E y \in HoldingsOf(F) : y.id = x.id
    OBVIOUS
  <2>1. x.id \in Named(E) /\ q[x.id] > 0
    BY ActiveHolding DEF q
  <2>2. x.id \in Named(F) /\ u[x.id] > 0
    BY <1>5, <2>1
  <2> QED
    BY <2>2, IsActive DEF u
<1>8. \A y \in HoldingsOf(F) : \E x \in HoldingsOf(E) : x.id = y.id
  <2> SUFFICES ASSUME NEW y \in HoldingsOf(F)
               PROVE  \E x \in HoldingsOf(E) : x.id = y.id
    OBVIOUS
  <2>1. y.id \in Named(F) /\ u[y.id] > 0
    BY <1>4, ActiveHolding DEF u
  <2>2. y.id \in Named(E) /\ q[y.id] > 0
    BY <1>5, <2>1
  <2> QED
    BY <2>2, IsActive DEF q
\* and each is what it was, since the addition tells nothing of it.
<1>9. ASSUME NEW x \in HoldingsOf(E), NEW y \in HoldingsOf(F), x.id = y.id, NEW field \in Fields
      PROVE  x.copy[field] = y.copy[field]
  <2>1. PICK e \in E : TellsField(E, x.id, field, e) /\ x.copy[field] = e.told[field]
    BY FieldOfHolding
  <2>2. PICK g \in F : TellsField(F, y.id, field, g) /\ y.copy[field] = g.told[field]
    <3>1. Proper(F) /\ Strict(F)
      BY <1>4, <1>6
    <3>2. PICK g : TellsField(F, y.id, field, g) /\ y.copy[field] = g.told[field]
      BY <3>1, FieldOfHolding
    <3> QED
      BY <3>2 DEF TellsField
  <2>3. f.told[field] = None
    <3>1. Nothing[field] = None
      BY DEF Nothing
    <3> QED
      BY <1>3, <3>1
  <2>4. g \in E
    BY <1>6, <2>2, <2>3 DEF TellsField
  <2>5. g = e \/ Before(g, e)
    BY <1>9, <2>1, <2>2, <2>4 DEF TellsField
  <2>6. e = g \/ Before(e, g)
    BY <1>6, <1>9, <2>1, <2>2 DEF TellsField
  <2>7. e = g
    BY <2>4, <2>5, <2>6, BeforeOrders
  <2> QED
    BY <2>1, <2>2, <2>7
<1>10. ASSUME NEW x \in HoldingsOf(E), NEW y \in HoldingsOf(F), x.id = y.id
       PROVE  Alike(x.copy, copy) <=> Alike(y.copy, copy)
  <2>1. \A field \in Fields : x.copy[field] = y.copy[field]
    BY <1>9, <1>10
  <2>2. x.copy["card"] = y.copy["card"]
    BY <2>1 DEF Fields
  <2> QED
    BY <2>1, <2>2 DEF Alike
<1>11. OfCopy(F, copy) = OfCopy(E, copy)
  <2>1. ASSUME NEW x \in HoldingsOf(E), Alike(x.copy, copy)
        PROVE  \E y \in HoldingsOf(F) : y.id = x.id /\ Alike(y.copy, copy)
    BY <1>7, <1>10, <2>1
  <2>2. ASSUME NEW y \in HoldingsOf(F), Alike(y.copy, copy)
        PROVE  \E x \in HoldingsOf(E) : x.id = y.id /\ Alike(x.copy, copy)
    BY <1>8, <1>10, <2>2
  <2> QED
    BY <2>1, <2>2 DEF OfCopy
<1> QED
  BY <1>11 DEF F

\* Adding never makes a second holding of a kind of copy the domain has, for any number
\* of tabs that add at the same time: the transaction looks the duplicate up in the
\* domain it writes to, and what it writes replays to the same holdings.
THEOREM AddsNeverDouble == Spec => AddsJoin
<1>1. CollectionInv /\ [Next]_vars =>
        [\A e \in edits : e.type = "holding.added" /\ Commit(e) =>
           LET Same(E) == {h.id : h \in {g \in HoldingsOf(E) : Alike(g.copy, e.told)}}
           IN  Same(events[e.domain]) # {} =>
                 Same(events'[e.domain]) = Same(events[e.domain])]_vars
  <2> SUFFICES ASSUME CollectionInv, NEW e \in edits, Commit(e), e.type = "holding.added",
                      OfCopy(events[e.domain], e.told) # {}
               PROVE  OfCopy(events'[e.domain], e.told) = OfCopy(events[e.domain], e.told)
    BY Zenon DEF OfCopy
  <2>1. PICK now \in Clock : \E f \in EventsOf(events[e.domain], made + 1, e, now) :
          Write(e.tab, e.domain, events[e.domain] \cup {f})
    BY DEF Commit
  <2>2. PICK f \in EventsOf(events[e.domain], made + 1, e, now) :
          Write(e.tab, e.domain, events[e.domain] \cup {f})
    BY <2>1
  <2> DEFINE E == events[e.domain]
             id == made + 1
  <2>3. Fits(e) /\ now \in Nat
    BY ClockType DEF CollectionInv, StoreInv
  <2>4. /\ Proper(E) /\ Strict(E) /\ id \in Nat
        /\ \A g \in E : g.id # id
    <3>1. Sound(E, made) /\ made \in Nat
      BY <2>3 DEF CollectionInv, StoreInv, Fits
    <3>2. \A g \in E : g.id <= made /\ g.id \in Nat
      BY <3>1 DEF Sound, Proper, EventType
    <3> QED
      BY <3>1, <3>2 DEF Sound
  <2>5. f \in Additions(E, id, e.told, e.amount, now, NoFloor) /\ Strict(E \cup {f})
    BY DEF EventsOf
  <2>6. events'[e.domain] = E \cup {f}
    BY <2>2, <2>3 DEF Write, CollectionInv, StoreInv, Fits
  <2>7. e.amount \in Int /\ e.amount > 0 /\ e.told \in Copies
    BY <2>3 DEF Fits
  <2>8. OfCopy(E, e.told) # {}
    OBVIOUS
  <2> HIDE DEF E, id
  <2>9. OfCopy(E \cup {f}, e.told) = OfCopy(E, e.told)
    BY <2>3, <2>4, <2>5, <2>7, <2>8, AdditionJoins
  <2> QED
    BY <2>6, <2>9 DEF E
<1> QED
  BY <1>1, CollectionInvariant, PTL DEF Spec, AddsJoin

-----------------------------------------------------------------------------
(* Totals.                                                                    *)

\* The sums of some amounts over sets of holdings solve their recursive definition,
Pick(S) == CHOOSE i \in S : TRUE
Adds(amounts, D, f) ==
  f = [S \in SUBSET D |->
        IF S = {} THEN 0 ELSE amounts[Pick(S)] + f[S \ {Pick(S)}]]

\* Taking a holding out of a finite set leaves one less.
LEMMA Fewer ==
  ASSUME NEW S, IsFiniteSet(S), S # {}
  PROVE  /\ Pick(S) \in S /\ IsFiniteSet(S \ {Pick(S)})
         /\ Cardinality(S) \in Nat \ {0}
         /\ Cardinality(S \ {Pick(S)}) = Cardinality(S) - 1
<1>1. Pick(S) \in S
  BY DEF Pick
<1> HIDE DEF Pick
<1>2. IsFiniteSet(S \ {Pick(S)}) /\ Cardinality(S \ {Pick(S)}) = Cardinality(S) - 1
  BY <1>1, FS_RemoveElement
<1>3. Cardinality(S) \in Nat /\ Cardinality(S) # 0
  BY FS_CardinalityType, FS_EmptySet
<1> QED
  BY <1>1, <1>2, <1>3

\* which has a solution over a finite set.
LEMMA AddsExists ==
  ASSUME NEW amounts, NEW D, IsFiniteSet(D)
  PROVE  \E f : Adds(amounts, D, f)
<1> DEFINE Added(f, S) == IF S = {} THEN 0 ELSE amounts[Pick(S)] + f[S \ {Pick(S)}]
           Upto(f, n) == \A S \in SUBSET D : Cardinality(S) <= n => f[S] = Added(f, S)
           N == {n \in Nat : \E f : Upto(f, n)}
<1>0. \A S \in SUBSET D : /\ IsFiniteSet(S) /\ Cardinality(S) \in Nat
                          /\ Cardinality(S) <= Cardinality(D)
  BY FS_Subset, FS_CardinalityType
<1>1. 0 \in N
  <2> DEFINE f == [S \in SUBSET D |-> 0]
  <2>1. ASSUME NEW S \in SUBSET D, Cardinality(S) <= 0 PROVE f[S] = Added(f, S)
    <3>1. S = {}
      BY <1>0, <2>1, FS_EmptySet
    <3> QED
      BY <3>1
  <2>2. Upto(f, 0)
    BY <2>1
  <2> QED
    BY <2>2
<1>2. ASSUME NEW n \in Nat, n \in N PROVE n + 1 \in N
  <2>1. PICK f : Upto(f, n)
    BY <1>2
  <2> DEFINE g == [S \in SUBSET D |-> Added(f, S)]
  <2>2. ASSUME NEW S \in SUBSET D, Cardinality(S) <= n + 1 PROVE g[S] = Added(g, S)
    <3>1. CASE S = {}
      BY <3>1
    <3>2. CASE S # {}
      <4> DEFINE rest == S \ {Pick(S)}
      <4>1. Cardinality(rest) <= n /\ rest \in SUBSET D
        BY <1>0, <2>2, <3>2, Fewer
      <4>2. g[rest] = f[rest]
        BY <2>1, <4>1
      <4> QED
        BY <3>2, <4>2
    <3> QED
      BY <3>1, <3>2
  <2>3. Upto(g, n + 1)
    BY <2>2
  <2> HIDE DEF Upto, g
  <2> QED
    BY <2>3
<1>3. Cardinality(D) \in N
  <2>1. Cardinality(D) \in Nat
    BY FS_CardinalityType
  <2> HIDE DEF N
  <2> QED
    BY <1>1, <1>2, <2>1, SetInduction
<1>4. PICK f : Upto(f, Cardinality(D))
  BY <1>3
<1> DEFINE g == [S \in SUBSET D |-> f[S]]
<1>5. ASSUME NEW S \in SUBSET D PROVE g[S] = Added(g, S)
  BY <1>0, <1>4
<1>6. Adds(amounts, D, g)
  <2>1. g = [S \in SUBSET D |-> g[S]]
    OBVIOUS
  <2>2. \A S \in SUBSET D : g[S] = IF S = {} THEN 0 ELSE amounts[Pick(S)] + g[S \ {Pick(S)}]
    BY <1>5
  <2> HIDE DEF g
  <2> QED
    BY <2>1, <2>2, Zenon DEF Adds
<1> QED
  BY <1>6

\* Sum takes the solution,
LEMMA SumIs ==
  ASSUME NEW amounts
  PROVE  Sum(amounts) = (CHOOSE f : Adds(amounts, DOMAIN amounts, f))[DOMAIN amounts]
BY Zenon DEF Sum, Adds, Pick

\* so that a sum of numbers is a number, and one of differences the difference of sums.
LEMMA SumOfDifferences ==
  ASSUME NEW D, IsFiniteSet(D), NEW a \in [D -> Int], NEW b \in [D -> Int],
         NEW c \in [D -> Int], \A id \in D : c[id] = a[id] - b[id]
  PROVE  /\ Sum(a) \in Int /\ Sum(b) \in Int
         /\ Sum(c) = Sum(a) - Sum(b)
<1> DEFINE f(v) == CHOOSE g : Adds(v, D, g)
           x == f(a)
           y == f(b)
           z == f(c)
           Right(S) == x[S] \in Int /\ y[S] \in Int /\ z[S] = x[S] - y[S]
           N == {n \in Nat : \A S \in SUBSET D : Cardinality(S) = n => Right(S)}
<1>1. Sum(a) = x[D] /\ Sum(b) = y[D] /\ Sum(c) = z[D]
  BY SumIs
<1>2. Adds(a, D, x) /\ Adds(b, D, y) /\ Adds(c, D, z)
  BY AddsExists
<1> HIDE DEF x, y, z
<1>3. \A S \in SUBSET D : IsFiniteSet(S)
  BY FS_Subset
<1>4. 0 \in N
  <2>1. ASSUME NEW S \in SUBSET D, Cardinality(S) = 0 PROVE Right(S)
    <3>1. S = {}
      BY <1>3, <2>1, FS_EmptySet
    <3> QED
      BY <1>2, <3>1 DEF Adds
  <2> QED
    BY <2>1
<1>5. ASSUME NEW n \in Nat, n \in N PROVE n + 1 \in N
  <2>1. ASSUME NEW S \in SUBSET D, Cardinality(S) = n + 1 PROVE Right(S)
    <3> DEFINE id == Pick(S)
               rest == S \ {Pick(S)}
    <3>0. IsFiniteSet(S) /\ Cardinality(S) = n + 1 /\ n + 1 # 0 /\ n + 1 - 1 = n
      BY <1>3, <2>1
    <3>1. S # {}
      <4> HIDE DEF N
      <4> QED
        BY ONLY <3>0, FS_EmptySet
    <3>2. id \in D /\ rest \in SUBSET D /\ Cardinality(rest) = n
      <4>1. Pick(S) \in S /\ Cardinality(S \ {Pick(S)}) = Cardinality(S) - 1
        BY <3>0, <3>1, Fewer
      <4> HIDE DEF N
      <4> QED
        BY <3>0, <4>1
    <3>3. Right(rest)
      BY <1>5, <3>2
    <3>4. /\ x[S] = a[id] + x[rest] /\ y[S] = b[id] + y[rest]
          /\ z[S] = c[id] + z[rest]
      BY <1>2, <3>1 DEF Adds
    <3>5. a[id] \in Int /\ b[id] \in Int /\ c[id] = a[id] - b[id]
      BY <3>2
    <3> HIDE DEF id, rest
    <3> QED
      BY <3>3, <3>4, <3>5
  <2> QED
    BY <2>1
<1>6. Cardinality(D) \in N
  <2>1. Cardinality(D) \in Nat
    BY FS_CardinalityType
  <2> HIDE DEF N
  <2> QED
    BY <1>4, <1>5, <2>1, SetInduction
<1>7. Right(D)
  BY <1>6
<1> QED
  BY <1>1, <1>7

\* A copy of a known quantity whose quote and whose cost are well formed.
Countable(h) ==
  /\ h.quantity \in Int
  /\ h.quote = Missing \/ QuoteType(h.quote)
  /\ h.cost = Missing \/ h.cost.amount \in Int

\* What one holding adds to the totals of its currencies.
LEMMA WhatItBrings ==
  ASSUME NEW h, Countable(h)
  PROVE  /\ h.quote = Missing => UnitPrice(h) = Missing
         /\ UnitPrice(h) = Missing => MarketValue(h) = Missing
         /\ UnitPrice(h) # Missing => /\ UnitPrice(h) \in Int
                                      /\ MarketValue(h) = UnitPrice(h) * h.quantity
                                      /\ MarketValue(h) \in Int
         /\ h.cost # Missing => /\ h.cost.amount \in Int
                                /\ Cost(h) = h.cost.amount * h.quantity
                                /\ Cost(h) \in Int
<1>1. h.quantity \in Int
  BY DEF Countable
<1>2. UnitPrice(h) \in Int \cup {Missing} /\ (h.quote = Missing => UnitPrice(h) = Missing)
  BY DEF Countable, UnitPrice, QuoteType, Amounts
<1>3. MarketValue(h) = IF UnitPrice(h) = Missing THEN Missing ELSE UnitPrice(h) * h.quantity
  BY DEF MarketValue, ForAll
<1>4. h.cost # Missing => h.cost.amount \in Int /\ Cost(h) = h.cost.amount * h.quantity
  BY DEF Countable, Cost
<1>5. \A x, y \in Int : x * y \in Int
  OBVIOUS
<1> QED
  BY <1>1, <1>2, <1>3, <1>4, <1>5

\* The net of a currency over any finite collection is what the copies priced or paid in
\* it bring, each of which has a price and a cost in that currency; or it is not shown,
\* and then one of them is to be reviewed, has no price, or was paid in another currency.
THEOREM NetsAreHonest ==
  ASSUME NEW H, IsFiniteSet(DOMAIN H), \A id \in DOMAIN H : Countable(H[id]),
         NEW currency \in Currencies(H)
  PROVE  NetIsHonest(H, currency)
<1> DEFINE P == Priced(H, currency)
           Q == Paid(H, currency)
           m == [id \in P |-> MarketValue(H[id])]
           c == [id \in Q |-> Cost(H[id])]
           market == Total(m)
           cost == Total(c)
           net == CurrencyTotal(H, currency).net
           concerned == {id \in DOMAIN H :
             \/ H[id].quote # Missing /\ H[id].quote.currency = currency
             \/ H[id].cost # Missing /\ H[id].cost.currency = currency}
           brings == [id \in concerned |->
                        (UnitPrice(H[id]) - H[id].cost.amount) * H[id].quantity]
           Like(id) == /\ H[id].quote # Missing /\ UnitPrice(H[id]) # Missing
                       /\ H[id].cost # Missing
                       /\ H[id].cost.currency = H[id].quote.currency
           Wanting(id) == \/ Reasons(H[id], 0) # {}
                          \/ H[id].quote # Missing /\ ~Like(id)
           Comparable == P = Q /\ P # {} /\ \A id \in P : UnitPrice(H[id]) # Missing
<1>1. SUFFICES IF net # Missing THEN (\A id \in concerned : Like(id)) /\ net = Sum(brings)
               ELSE \E id \in concerned : Wanting(id)
  BY Zenon DEF NetIsHonest
<1>2. net = IF market # Missing /\ cost # Missing /\ CostCoverage(H, currency) = "complete"
            THEN market - cost ELSE Missing
  BY DEF CurrencyTotal
<1>3. /\ concerned = P \cup Q /\ P \subseteq DOMAIN H /\ Q \subseteq DOMAIN H
      /\ \A id \in DOMAIN H : /\ id \in P <=> H[id].quote # Missing /\ H[id].quote.currency = currency
                              /\ id \in Q <=> H[id].cost # Missing /\ H[id].cost.currency = currency
  BY DEF Priced, Paid
<1>4. concerned # {}
  BY <1>3 DEF Currencies
<1>5. /\ DOMAIN m = P /\ \A id \in P : m[id] = MarketValue(H[id])
      /\ DOMAIN c = Q /\ \A id \in Q : c[id] = Cost(H[id])
  OBVIOUS
<1>6. /\ \A id \in P : /\ m[id] = Missing <=> UnitPrice(H[id]) = Missing
                       /\ m[id] # Missing => m[id] \in Int
      /\ \A id \in Q : c[id] \in Int /\ c[id] # Missing
  BY <1>3, <1>5, WhatItBrings, MissingType
<1> HIDE DEF m, c, P, Q, net, concerned
<1>7. /\ market = IF P = {} \/ \E id \in P : UnitPrice(H[id]) = Missing THEN Missing ELSE Sum(m)
      /\ cost = IF Q = {} THEN Missing ELSE Sum(c)
  BY <1>5, <1>6 DEF Total
<1>8. CostCoverage(H, currency) = "complete" <=> Q # {} /\ P = Q
  BY DEF CostCoverage, P, Q
<1> HIDE DEF market, cost
<1>9. CASE Comparable
  <2>1. IsFiniteSet(P)
    BY <1>3, FS_Subset
  <2>2. m \in [P -> Int] /\ c \in [P -> Int]
    BY <1>5, <1>6, <1>9 DEF m, c
  <2>3. concerned = P /\ \A id \in P : Like(id)
    BY <1>3, <1>9
  <2>4. ASSUME NEW id \in P
        PROVE  /\ brings[id] = (UnitPrice(H[id]) - H[id].cost.amount) * H[id].quantity
               /\ brings[id] \in Int /\ brings[id] = m[id] - c[id]
    <3>1. brings[id] = (UnitPrice(H[id]) - H[id].cost.amount) * H[id].quantity
      BY <2>3
    <3>2. /\ UnitPrice(H[id]) \in Int /\ H[id].cost.amount \in Int /\ H[id].quantity \in Int
          /\ m[id] = UnitPrice(H[id]) * H[id].quantity
          /\ c[id] = H[id].cost.amount * H[id].quantity
      BY <1>3, <1>5, <1>9, <2>3, WhatItBrings DEF Countable
    <3>3. \A x, y, z \in Int : (x - y) * z = x * z - y * z /\ (x - y) * z \in Int
      OBVIOUS
    <3> HIDE DEF brings
    <3> QED
      BY <3>1, <3>2, <3>3
  <2>5. brings \in [P -> Int]
    BY <2>3, <2>4
  <2> HIDE DEF brings
  <2>6. Sum(m) \in Int /\ Sum(c) \in Int /\ Sum(brings) = Sum(m) - Sum(c)
    BY <2>1, <2>2, <2>4, <2>5, SumOfDifferences
  <2>7. net = Sum(brings) /\ net # Missing
    BY <1>2, <1>7, <1>8, <1>9, <2>6, MissingType
  <2> QED
    BY <2>3, <2>7
<1>10. CASE ~Comparable
  <2>1. net = Missing
    BY <1>2, <1>7, <1>8, <1>10
  <2>2. \E id \in concerned : \/ id \in P /\ UnitPrice(H[id]) = Missing
                              \/ id \in P \ Q \/ id \in Q \ P
    BY <1>3, <1>4, <1>10
  <2>3. PICK id \in concerned : \/ id \in P /\ UnitPrice(H[id]) = Missing
                                \/ id \in P \ Q \/ id \in Q \ P
    BY <2>2
  <2>4. CASE id \in P /\ UnitPrice(H[id]) = Missing
    BY <1>3, <2>1, <2>4
  <2>5. CASE id \in P \ Q
    BY <1>3, <2>1, <2>5
  <2>6. CASE id \in Q \ P
    <3>1. CASE H[id].quote = Missing
      <4>1. "missing-price" \in Reasons(H[id], 0)
        BY <3>1 DEF Reasons
      <4> QED
        BY <2>1, <2>3, <4>1
    <3>2. CASE H[id].quote # Missing
      BY <1>3, <2>1, <2>6, <3>2
    <3> QED
      BY <3>1, <3>2
  <2> QED
    BY <2>3, <2>4, <2>5, <2>6
<1> QED
  BY <1>9, <1>10

-----------------------------------------------------------------------------
(* What the holdings are worth.                                               *)

\* A domain has finitely many holdings, one of an identifier.
LEMMA FewHoldings ==
  ASSUME NEW E, Proper(E)
  PROVE  /\ IsFiniteSet(HoldingsOf(E))
         /\ \A g, h \in HoldingsOf(E) : g.id = h.id => g = h
<1>1. ASSUME NEW g \in HoldingsOf(E), NEW h \in HoldingsOf(E), g.id = h.id
      PROVE  g = h
  BY <1>1, ActiveHolding
<1> DEFINE S == {HoldingAt(E, e.holding) : e \in E}
<1>2. IsFiniteSet(S)
  <2> DEFINE f == [e \in E |-> HoldingAt(E, e.holding)]
  <2>1. IsFiniteSet(E)
    BY DEF Proper
  <2>2. f \in Surjection(E, S)
    <3>1. f \in [E -> S] /\ \A e \in E : f[e] = HoldingAt(E, e.holding)
      OBVIOUS
    <3>2. \A x \in S : \E e \in E : f[e] = x
      BY <3>1
    <3> HIDE DEF f, S
    <3> QED
      BY <3>1, <3>2, Zenon DEF Surjection
  <2> HIDE DEF f, S
  <2> QED
    BY <2>1, <2>2, FS_Surjection
<1>3. HoldingsOf(E) \subseteq S
  <2> SUFFICES ASSUME NEW x \in HoldingsOf(E) PROVE x \in S
    OBVIOUS
  <2>1. x = HoldingAt(E, x.id) /\ \E e \in E : e.holding = x.id
    BY ActiveHolding
  <2> QED
    BY <2>1
<1> HIDE DEF S
<1> QED
  BY <1>1, <1>2, <1>3, FS_Subset

\* The quote of a holding is one its last correction of finish or condition, or its
\* addition, selected for what it made of it.
LEMMA QuoteSuits ==
  ASSUME NEW E, Proper(E), Strict(E), NEW x \in HoldingsOf(E)
  PROVE  Suits(x.copy["quote"],
               LastOf({e \in E : /\ e.holding = x.id
                                 /\ e.told.finish # None \/ e.told.condition # None}).told)
<1> DEFINE S == {e \in E : /\ e.holding = x.id
                           /\ e.told.finish # None \/ e.told.condition # None}
<1>1. "quote" \in Fields
  BY DEF Fields
<1>2. PICK e \in E : /\ TellsField(E, x.id, "quote", e) /\ x.copy["quote"] = e.told["quote"]
                     /\ e = LastOf({g \in E : g.holding = x.id /\ g.told["quote"] # None})
  BY <1>1, FieldOfHolding
<1>3. \A g \in E : g.told \in Payloads
  BY DEF Proper, EventType
<1>4. \A g \in E : g.told.finish # None \/ g.told.condition # None <=> g.told["quote"] # None
  BY <1>3, ToldFields
<1>5. S = {g \in E : g.holding = x.id /\ g.told["quote"] # None}
  BY <1>4
<1>6. e.told.quote # None => Suits(e.told.quote, e.told)
  BY <1>3, ToldFields
<1>7. e.told["quote"] # None
  BY <1>2 DEF TellsField
<1> HIDE DEF S
<1>8. e = LastOf(S)
  BY <1>2, <1>5
<1> QED
  BY <1>2, <1>6, <1>7, <1>8 DEF S

\* However corrections overlap, a holding keeps no quote for another finish or condition
\* than its last correction made it, and over any number of holdings the totals of a
\* domain show no net that is not theirs.
THEOREM WorthIsHonest == Spec => []HeldWorthIsHonest
<1>1. CollectionInv => HeldWorthIsHonest
  <2> SUFFICES ASSUME CollectionInv, NEW d \in Domains
               PROVE  LET E == events[d]
                          worth == [h \in HoldingsOf(E) |->
                                      [quantity |-> h.quantity, quote |-> h.copy["quote"],
                                       cost |-> h.copy["cost"]]]
                          Graded(h) ==
                            {e \in E : /\ e.holding = h
                                       /\ e.told.finish # None \/ e.told.condition # None}
                      IN  /\ \A h \in HoldingsOf(E) :
                               Suits(h.copy["quote"], LastOf(Graded(h.id)).told)
                          /\ \A currency \in Currencies(worth) : NetIsHonest(worth, currency)
    BY DEF HeldWorthIsHonest
  <2> DEFINE E == events[d]
             worth == [h \in HoldingsOf(E) |->
                         [quantity |-> h.quantity, quote |-> h.copy["quote"],
                          cost |-> h.copy["cost"]]]
  <2>1. Proper(E) /\ Strict(E)
    BY DEF CollectionInv, StoreInv, Sound
  <2> HIDE DEF E
  <2>2. \A h \in HoldingsOf(E) :
          Suits(h.copy["quote"],
                LastOf({e \in E : /\ e.holding = h.id
                                  /\ e.told.finish # None \/ e.told.condition # None}).told)
    BY <2>1, QuoteSuits
  <2>3. DOMAIN worth = HoldingsOf(E) /\ IsFiniteSet(DOMAIN worth)
    BY <2>1, FewHoldings
  <2>4. ASSUME NEW h \in DOMAIN worth
        PROVE  Countable(worth[h])
    <3>1. h \in HoldingsOf(E) /\ CopyType(h.copy) /\ h.quantity \in Int
      BY <2>1, ActiveHolding, CopyOfHolding
    <3>2. h.copy["quote"] = Missing \/ QuoteType(h.copy["quote"])
      BY <3>1, CopiesType DEF CopyType, Quotes, QuotesType
    <3>3. h.copy["cost"] = Missing \/ h.copy["cost"].amount \in Int
      BY <3>1, CopiesType DEF CopyType
    <3> DEFINE w == [quantity |-> h.quantity, quote |-> h.copy["quote"],
                     cost |-> h.copy["cost"]]
    <3>4. w.quantity = h.quantity /\ w.quote = h.copy["quote"] /\ w.cost = h.copy["cost"]
      OBVIOUS
    <3>5. worth[h] = w
      OBVIOUS
    <3> HIDE DEF w
    <3>6. Countable(w)
      BY <3>1, <3>2, <3>3, <3>4 DEF Countable
    <3> QED
      BY <3>5, <3>6
  <2> HIDE DEF worth
  <2>5. \A currency \in Currencies(worth) : NetIsHonest(worth, currency)
    BY <2>3, <2>4, NetsAreHonest
  <2> QED
    BY <2>2, <2>5, Zenon DEF E, worth
<1> QED
  BY <1>1, CollectionInvariant, PTL

================================================================================
