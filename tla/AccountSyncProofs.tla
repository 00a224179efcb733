--------------------------- MODULE AccountSyncProofs ---------------------------
(* What holds of AccountSync for any devices, tabs, operations and bounds.      *)
EXTENDS AccountSync, HoldingLogProofs, SequenceTheorems

(* The inductive invariant.  What is known of the service, of a device, of a    *)
(* session by how far it is, of a deletion and of a request.                   *)

\* From here on a session knows a generation, a cursor, a response.
HasGeneration == {"cursor", "queue", "wait", "apply", "import", "mark", "advance",
                  "clear", "invalid"}
HasCursor == HasGeneration \ {"cursor"}
HasPage == {"apply", "import", "mark", "advance"}
Phases == HasGeneration \cup {"idle", "attempt", "generation"}

Issued == 0..issued

ServerInv ==
  /\ issued \in Nat /\ epoch \in {Unknown, issued} /\ first \in Nat
  /\ log \in Seq(Operations) /\ IsInjective(log)
  /\ epoch = Unknown => log = <<>>
  /\ born \in [Operations -> Issued]
  /\ \A op \in ToSet(log) : born[op] # Unknown

DeviceInv(d) ==
  /\ generation[d] \in Issued /\ cursor[d] \in Nat
  /\ queue[d] \in Seq(Edits[d]) /\ IsInjective(queue[d])
  /\ acked[d] \subseteq Ops(d)
  /\ \A op \in Ops(d) : born[op] = generation[d] /\ born[op] # Unknown
  /\ \A row \in base[d] : row.op \notin Ops(d)
  /\ generation[d] = Unknown => base[d] = {} /\ cursor[d] = 0
  /\ lock[d] \in {NoTab} \cup {t \in Tabs : DeviceOf[t] = d}

SessionInv(t) ==
  LET s == session[t]
  IN  /\ s.pc \in Phases /\ "pc" \in DOMAIN s
      /\ s.pc # "idle" => "attempt" \in DOMAIN s
      /\ s.pc \notin {"idle", "attempt"} => "stale" \in DOMAIN s /\ s.stale \in Issued
      /\ s.pc \in HasGeneration => "generation" \in DOMAIN s /\ s.generation \in Issued
      /\ s.pc \in HasCursor => /\ {"cursor", "page", "more"} \subseteq DOMAIN s
                               /\ s.cursor \in Nat
      /\ s.pc = "queue" /\ s.page > 0 => s.generation # Unknown
      /\ s.pc = "wait" =>
           /\ s.request.generation = s.generation
           /\ s.request.cursor = IF s.generation = Unknown THEN 0 ELSE s.cursor
      /\ s.pc \in HasPage =>
           /\ {"sent", "reply", "rows", "next"} \subseteq DOMAIN s
           /\ s.reply \in Issued \ {Unknown} /\ s.next \in Nat
           /\ s.generation \in {Unknown, s.reply}
           /\ s.pc # "apply" => s.generation = s.reply
      /\ s.pc = "clear" => /\ "reply" \in DOMAIN s /\ s.reply \in Issued
                           /\ s.reply > s.generation

DeletionInv(t) ==
  /\ deletion[t].pc \in {"none", "drain", "wait", "clear"}
  /\ deletion[t].pc \in {"wait", "clear"} => session[t].pc = "idle"
  /\ deletion[t].pc = "clear" => deletion[t].reply \in Issued \ {Unknown}

RequestInv(r) ==
  /\ r.tab \in Tabs
  /\ r.kind = "sync" =>
       /\ r.generation \in Issued /\ r.cursor \in Nat
       /\ r.ops \in Seq(Edits[DeviceOf[r.tab]]) /\ IsInjective(r.ops)
       /\ \A op \in ToSet(r.ops) : born[op] # Unknown
       /\ r.generation = Unknown => r.ops = <<>>

FunctionsOK ==
  /\ DOMAIN session = Tabs /\ DOMAIN deletion = Tabs /\ wanted \in [Tabs -> BOOLEAN]
  /\ DOMAIN generation = Devices /\ DOMAIN cursor = Devices /\ DOMAIN base = Devices
  /\ DOMAIN queue = Devices /\ DOMAIN acked = Devices /\ DOMAIN lock = Devices
  /\ breached \subseteq Devices

Inv ==
  /\ ServerInv /\ FunctionsOK
  /\ \A d \in Devices : DeviceInv(d)
  /\ \A t \in Tabs : SessionInv(t) /\ DeletionInv(t)
  /\ \A r \in requests : RequestInv(r)

\* The rows anyone holds of a generation, and the operations anyone takes for
\* acknowledged in it.
RowsOf(g) ==
  (IF g = epoch THEN Rows ELSE {})
  \cup (UNION {base[d] : d \in {e \in Devices : generation[e] = g}})
  \cup (UNION {session[t].rows : t \in {u \in Tabs : session[u].pc \in HasPage
                                                     /\ session[u].reply = g}})

AcksOf(g) ==
  (UNION {acked[d] : d \in {e \in Devices : generation[e] = g}})
  \cup (UNION {ToSet(session[t].sent) : t \in {u \in Tabs : session[u].pc \in HasPage
                                                           /\ session[u].reply = g}})

RowsInv ==
  \A g \in Issued :
    /\ \A r, s \in RowsOf(g) : r.op = s.op => r = s
    /\ \A r \in RowsOf(g) : r \in [seq : Nat, op : Operations] /\ born[r.op] # Unknown
    /\ g = epoch /\ g # Unknown => RowsOf(g) \subseteq Rows /\ AcksOf(g) \subseteq ToSet(log)

\* What holds of a device whose deletions kept their lock, and of its tabs: the
\* lock is that of the deletion in progress, and the device's generation is at
\* least what its sessions have seen.
TabFence(t) ==
  LET d == DeviceOf[t]
  IN  /\ deletion[t].pc # "none" <=> lock[d] = t
      /\ deletion[t].pc = "clear" => generation[d] < deletion[t].reply
      /\ session[t].pc \notin {"idle", "attempt"} => session[t].stale <= generation[d]
      /\ session[t].pc \in HasGeneration => /\ session[t].stale <= session[t].generation
                                            /\ session[t].generation <= generation[d]

FenceInv(d) ==
  /\ \A t \in Tabs : DeviceOf[t] = d => TabFence(t)
  /\ \A r \in requests : r.kind = "sync" /\ DeviceOf[r.tab] = d =>
       \A op \in ToSet(r.ops) : born[op] >= r.generation
  /\ \A op \in ToSet(log) : op \in Edits[d] => born[op] = epoch

Fences == \A d \in Devices \ breached : FenceInv(d)

\* The rows up to a number.
Upto(rows, c) == {row \in rows : row.seq <= c}
Newest == first + Len(log)

\* A device in the service's generation has the rows up to its cursor, and so
\* has a session that goes on from there; one with a page of that generation
\* lacks at most the rows of the page.
TabCursor(t) ==
  LET s == session[t]
      d == DeviceOf[t]
  IN  /\ generation[d] = epoch /\ epoch # Unknown =>
           /\ s.pc \in HasCursor /\ s.generation = epoch =>
                s.cursor <= Newest /\ Upto(Rows, s.cursor) \subseteq base[d]
           /\ s.pc \in HasPage /\ s.reply = epoch /\ s.generation = epoch =>
                s.next <= Newest /\ Upto(Rows, s.next) \subseteq base[d] \cup s.rows
           /\ s.pc \in {"mark", "advance"} /\ s.reply = epoch =>
                Upto(Rows, s.next) \subseteq base[d]
      /\ generation[d] = Unknown /\ s.pc \in HasCursor => s.cursor = 0

CursorInv(d) ==
  /\ generation[d] = epoch /\ epoch # Unknown =>
       cursor[d] <= Newest /\ Upto(Rows, cursor[d]) \subseteq base[d]
  /\ \A t \in Tabs : DeviceOf[t] = d => TabCursor(t)

\* The first page of a generation a session did not know has its first rows.
FirstPage ==
  \A t \in Tabs :
    LET s == session[t]
    IN  s.pc = "apply" /\ s.reply = epoch /\ s.generation = Unknown =>
          s.next <= Newest /\ Upto(Rows, s.next) \subseteq s.rows

Cursors == FirstPage /\ \A d \in Devices \ breached : CursorInv(d)

-----------------------------------------------------------------------------
(* The operators of AccountSync.                                               *)

\* An updated record has the new fields, and the old ones it does not replace.
LEMMA UpdatedIs ==
  ASSUME NEW record, NEW fields
  PROVE  /\ DOMAIN Updated(record, fields) = DOMAIN record \cup DOMAIN fields
         /\ \A f \in DOMAIN fields : Updated(record, fields)[f] = fields[f]
         /\ \A f \in DOMAIN record \ DOMAIN fields :
              Updated(record, fields)[f] = record[f]
BY DEF Updated

\* A sequence without some members is a sequence of the others, each as often.
LEMMA WithoutIs ==
  ASSUME NEW T, NEW seq \in Seq(T), NEW S
  PROVE  /\ Without(seq, S) \in Seq(T)
         /\ ToSet(Without(seq, S)) = ToSet(seq) \ S
         /\ IsInjective(seq) => IsInjective(Without(seq, S))
<1> DEFINE kept == {i \in DOMAIN seq : seq[i] \notin S}
           at(n) == CHOOSE i \in kept : Rank(kept, i) = n
<1>1. /\ DOMAIN seq = 1..Len(seq) /\ Len(seq) \in Nat
      /\ \A i \in DOMAIN seq : seq[i] \in T
  BY ElementOfSeq
<1>2. kept \in SUBSET Int /\ IsFiniteSet(kept) /\ Cardinality(kept) \in Nat
  <2>1. IsFiniteSet(1..Len(seq))
    BY <1>1, FS_Interval
  <2>2. kept \in SUBSET (1..Len(seq))
    BY <1>1
  <2> QED
    BY <2>1, <2>2, FS_Subset, FS_CardinalityType
<1>3. Without(seq, S) = [n \in 1..Cardinality(kept) |-> seq[at(n)]]
  BY DEF Without
<1>4. \A i \in kept : i \in DOMAIN seq /\ seq[i] \notin S /\ seq[i] \in T
  BY <1>1
<1>5. ToSet(seq) \ S = {seq[i] : i \in kept}
  BY DEF ToSet
<1> HIDE DEF kept
<1>6. \A n \in 1..Cardinality(kept) : at(n) \in kept /\ Rank(kept, at(n)) = n
  BY <1>2, RankReached
<1>7. \A i \in kept : /\ Rank(kept, i) \in 1..Cardinality(kept)
                      /\ at(Rank(kept, i)) = i
  <2> SUFFICES ASSUME NEW i \in kept
               PROVE  /\ Rank(kept, i) \in 1..Cardinality(kept)
                      /\ at(Rank(kept, i)) = i
    OBVIOUS
  <2>1. Rank(kept, i) \in 1..Cardinality(kept)
    BY <1>2, RankRange
  <2> DEFINE j == at(Rank(kept, i))
  <2>2. j \in kept /\ Rank(kept, j) = Rank(kept, i) /\ i \in Int /\ j \in Int
    BY <1>2, <1>6, <2>1
  <2>3. ~(i < j) /\ ~(j < i)
    <3> HIDE DEF j
    <3>1. Rank(kept, i) \in Int
      BY <2>1
    <3> QED
      BY <1>2, <2>2, <3>1, RankGrows
  <2> HIDE DEF j
  <2>4. i = j
    BY <2>2, <2>3
  <2> QED
    BY <2>1, <2>4 DEF j
<1> HIDE DEF at
<1>8. Without(seq, S) \in Seq(T)
  <2>1. \A n \in 1..Cardinality(kept) : seq[at(n)] \in T
    BY <1>4, <1>6
  <2> QED
    BY <1>2, <1>3, <2>1, IsASeq
<1>9. ToSet(Without(seq, S)) = {seq[i] : i \in kept}
  <2>1. ToSet(Without(seq, S)) = {seq[at(n)] : n \in 1..Cardinality(kept)}
    BY <1>3 DEF ToSet
  <2> QED
    BY <1>6, <1>7, <2>1
<1>10. ASSUME IsInjective(seq) PROVE IsInjective(Without(seq, S))
  <2> SUFFICES ASSUME NEW m \in 1..Cardinality(kept), NEW n \in 1..Cardinality(kept),
                      seq[at(m)] = seq[at(n)]
               PROVE  m = n
    BY <1>3 DEF IsInjective
  <2>1. at(m) = at(n)
    BY <1>4, <1>6, <1>10 DEF IsInjective
  <2> QED
    BY <1>6, <2>1
<1> QED
  BY <1>5, <1>8, <1>9, <1>10

\* What is appended to a sequence without its members.
LEMMA ConcatIs ==
  ASSUME NEW T, NEW seq \in Seq(T), NEW more \in Seq(T)
  PROVE  /\ seq \o more \in Seq(T)
         /\ ToSet(seq \o more) = ToSet(seq) \cup ToSet(more)
         /\ \A i \in DOMAIN seq : i \in DOMAIN (seq \o more) /\ (seq \o more)[i] = seq[i]
         /\ IsInjective(seq) /\ IsInjective(more) /\ ToSet(seq) \cap ToSet(more) = {}
              => IsInjective(seq \o more)
<1>1. /\ seq \o more \in Seq(T) /\ Len(seq) \in Nat /\ Len(more) \in Nat
      /\ Len(seq \o more) = Len(seq) + Len(more)
      /\ \A i \in 1..Len(seq) + Len(more) :
           (seq \o more)[i] = IF i <= Len(seq) THEN seq[i] ELSE more[i - Len(seq)]
      /\ DOMAIN seq = 1..Len(seq) /\ DOMAIN more = 1..Len(more)
      /\ DOMAIN (seq \o more) = 1..Len(seq) + Len(more)
  BY ConcatProperties, ElementOfSeq
<1> DEFINE both == seq \o more
<1>2. /\ \A i \in DOMAIN seq : i \in DOMAIN both /\ both[i] = seq[i]
      /\ \A i \in DOMAIN more : Len(seq) + i \in DOMAIN both /\ both[Len(seq) + i] = more[i]
      /\ \A i \in DOMAIN both : i \in DOMAIN seq
                                \/ (i - Len(seq) \in DOMAIN more /\ i = Len(seq) + (i - Len(seq)))
  BY <1>1
<1>3. Len(seq) \in Int /\ \A i \in DOMAIN both : i \in Int
  BY <1>1
<1> HIDE DEF both
<1>4. ToSet(both) = ToSet(seq) \cup ToSet(more)
  <2>1. ASSUME NEW x \in ToSet(both) PROVE x \in ToSet(seq) \cup ToSet(more)
    BY <1>2, <2>1 DEF ToSet
  <2>2. ASSUME NEW x \in ToSet(seq) \cup ToSet(more) PROVE x \in ToSet(both)
    BY <1>2, <2>2 DEF ToSet
  <2> QED
    BY <2>1, <2>2
<1>5. ASSUME IsInjective(seq), IsInjective(more), ToSet(seq) \cap ToSet(more) = {}
      PROVE  IsInjective(both)
  <2> SUFFICES ASSUME NEW i \in DOMAIN both, NEW j \in DOMAIN both, both[i] = both[j]
               PROVE  i = j
    BY DEF IsInjective
  <2>1. \A k \in DOMAIN both : /\ k \in DOMAIN seq => both[k] \in ToSet(seq)
                               /\ k \notin DOMAIN seq => both[k] \in ToSet(more)
    <3> SUFFICES ASSUME NEW k \in DOMAIN both
                 PROVE  /\ k \in DOMAIN seq => both[k] \in ToSet(seq)
                        /\ k \notin DOMAIN seq => both[k] \in ToSet(more)
      OBVIOUS
    <3>1. k \in DOMAIN seq => both[k] = seq[k]
      BY <1>2
    <3>2. k \notin DOMAIN seq => \E m \in DOMAIN more : both[k] = more[m]
      BY <1>2
    <3> QED
      BY <3>1, <3>2 DEF ToSet
  <2>2. \A x \in ToSet(seq) : x \notin ToSet(more)
    BY <1>5
  <2>3. CASE i \in DOMAIN seq /\ j \in DOMAIN seq
    BY <1>2, <1>5, <2>3 DEF IsInjective
  <2>4. CASE i \in DOMAIN seq /\ j \notin DOMAIN seq
    BY <2>1, <2>2, <2>4
  <2>5. CASE i \notin DOMAIN seq /\ j \in DOMAIN seq
    BY <2>1, <2>2, <2>5
  <2>6. CASE i \notin DOMAIN seq /\ j \notin DOMAIN seq
    <3>1. i - Len(seq) = j - Len(seq)
      BY <1>2, <1>5, <2>6 DEF IsInjective
    <3> QED
      BY <1>3, <3>1
  <2> QED
    BY <2>3, <2>4, <2>5, <2>6
<1> QED
  BY <1>1, <1>2, <1>4, <1>5 DEF both

LEMMA AppendIs ==
  ASSUME NEW T, NEW seq \in Seq(T), NEW e \in T
  PROVE  /\ Append(seq, e) \in Seq(T)
         /\ ToSet(Append(seq, e)) = ToSet(seq) \cup {e}
         /\ IsInjective(seq) /\ e \notin ToSet(seq) => IsInjective(Append(seq, e))
<1> DEFINE one == <<e>>
           more == Append(seq, e)
<1>1. more = seq \o one
  BY AppendIsConcat
<1>2. one \in Seq(T) /\ DOMAIN one = {1} /\ one[1] = e
  OBVIOUS
<1> HIDE DEF one, more
<1>3. ToSet(one) = {e} /\ IsInjective(one)
  BY <1>2 DEF ToSet, IsInjective
<1>4. /\ more \in Seq(T) /\ ToSet(more) = ToSet(seq) \cup {e}
      /\ IsInjective(seq) /\ e \notin ToSet(seq) => IsInjective(more)
  BY <1>1, <1>2, <1>3, ConcatIs
<1> QED
  BY <1>4 DEF more

\* The first members of a sequence.
LEMMA PrefixIs ==
  ASSUME NEW T, NEW seq \in Seq(T), NEW n \in Nat, n <= Len(seq)
  PROVE  /\ SubSeq(seq, 1, n) \in Seq(T)
         /\ ToSet(SubSeq(seq, 1, n)) \subseteq ToSet(seq)
         /\ IsInjective(seq) => IsInjective(SubSeq(seq, 1, n))
<1> DEFINE some == SubSeq(seq, 1, n)
<1>1. /\ some \in Seq(T) /\ DOMAIN some = 1..n /\ DOMAIN seq = 1..Len(seq)
      /\ \A i \in 1..n : i \in DOMAIN seq /\ some[i] = seq[i]
  <2>1. Len(seq) \in Nat /\ DOMAIN seq = 1..Len(seq)
    BY ElementOfSeq
  <2>2. CASE n = 0
    BY <2>1, <2>2, SubSeqProperties, SubSeqEmpty
  <2>3. CASE n # 0
    BY <2>1, <2>3, SubSeqProperties
  <2> QED
    BY <2>2, <2>3
<1> HIDE DEF some
<1>2. ToSet(some) \subseteq ToSet(seq)
  BY <1>1 DEF ToSet
<1>3. IsInjective(seq) => IsInjective(some)
  BY <1>1 DEF IsInjective
<1> QED
  BY <1>1, <1>2, <1>3 DEF some

\* A batch is some of the operations of the queue that are not acknowledged.
LEMMA BatchIs ==
  ASSUME NEW t \in Tabs, DeviceOf[t] \in Devices, DeviceInv(DeviceOf[t])
  PROVE  /\ Batch(t) \in Seq(Edits[DeviceOf[t]]) /\ IsInjective(Batch(t))
         /\ ToSet(Batch(t)) \subseteq Ops(DeviceOf[t]) \ acked[DeviceOf[t]]
<1> DEFINE d == DeviceOf[t]
           pending == Pending(d)
           n == IF Len(pending) < BatchSize THEN Len(pending) ELSE BatchSize
<1>1. queue[d] \in Seq(Edits[d]) /\ IsInjective(queue[d])
  BY DEF DeviceInv
<1>2. /\ pending \in Seq(Edits[d]) /\ IsInjective(pending)
      /\ ToSet(pending) = Ops(d) \ acked[d]
  BY <1>1, WithoutIs DEF Pending, Ops
<1> HIDE DEF pending
<1>3. n \in Nat /\ n <= Len(pending)
  BY <1>2, BoundType
<1>4. Batch(t) = SubSeq(pending, 1, n)
  BY DEF Batch, pending
<1> HIDE DEF n, d
<1>5. /\ SubSeq(pending, 1, n) \in Seq(Edits[d]) /\ IsInjective(SubSeq(pending, 1, n))
      /\ ToSet(SubSeq(pending, 1, n)) \subseteq ToSet(pending)
  BY <1>2, <1>3, PrefixIs
<1> QED
  BY <1>2, <1>4, <1>5 DEF d

\* The rows of a log that begins behind a number.
RowsFrom(n, l) == {[seq |-> n + i, op |-> l[i]] : i \in DOMAIN l}

\* They are numbered without a gap, and each has its operation alone.
LEMMA RowsAre ==
  ASSUME NEW n \in Nat, NEW l \in Seq(Operations), IsInjective(l)
  PROVE  LET rows == RowsFrom(n, l)
         IN  /\ \A row \in rows : /\ row \in [seq : Nat, op : Operations]
                                  /\ row.seq \in n+1..n+Len(l) /\ row.op \in ToSet(l)
             /\ \A r, s \in rows : (r.op = s.op \/ r.seq = s.seq) => r = s
             /\ IsFiniteSet(rows)
             /\ {row.op : row \in rows} = ToSet(l)
<1>1. /\ DOMAIN l = 1..Len(l) /\ Len(l) \in Nat
      /\ \A i \in DOMAIN l : l[i] \in Operations
  BY ElementOfSeq
<1> DEFINE row(i) == [seq |-> n + i, op |-> l[i]]
           rows == RowsFrom(n, l)
<1>2. rows = {row(i) : i \in DOMAIN l}
  BY DEF RowsFrom
<1>3. \A i \in DOMAIN l : /\ row(i) \in [seq : Nat, op : Operations]
                          /\ row(i).seq = n + i /\ row(i).op = l[i]
  BY <1>1
<1>4. \A i, j \in DOMAIN l : (row(i).op = row(j).op \/ row(i).seq = row(j).seq) => i = j
  BY <1>1 DEF IsInjective
<1> HIDE DEF rows, row
<1>5. IsFiniteSet(rows)
  <2>1. IsFiniteSet(DOMAIN l)
    BY <1>1, FS_Interval
  <2> DEFINE f == [i \in DOMAIN l |-> row(i)]
  <2>2. f \in Surjection(DOMAIN l, rows)
    BY <1>2 DEF Surjection
  <2> HIDE DEF f
  <2> QED
    BY <2>1, <2>2, FS_Surjection
<1>6. \A i \in DOMAIN l : n + i \in n+1..n+Len(l)
  BY <1>1
<1>7. \A r, s \in rows : (r.op = s.op \/ r.seq = s.seq) => r = s
  BY <1>2, <1>4
<1>8. {r.op : r \in rows} = ToSet(l)
  BY <1>2, <1>3 DEF ToSet
<1>9. \A r \in rows : /\ r \in [seq : Nat, op : Operations]
                      /\ r.seq \in n+1..n+Len(l) /\ r.op \in ToSet(l)
  BY <1>2, <1>3, <1>6 DEF ToSet
<1> QED
  BY <1>5, <1>7, <1>8, <1>9 DEF rows

\* What is appended to a log gets rows behind those it has.
LEMMA RowsGrow ==
  ASSUME NEW n \in Nat, NEW l \in Seq(Operations), NEW more \in Seq(Operations)
  PROVE  /\ RowsFrom(n, l) \subseteq RowsFrom(n, l \o more)
         /\ \A row \in RowsFrom(n, l \o more) \ RowsFrom(n, l) :
              row.seq > n + Len(l) /\ row.op \in ToSet(more)
         /\ Len(l \o more) = Len(l) + Len(more)
<1> DEFINE both == l \o more
<1>1. /\ Len(l) \in Nat /\ Len(more) \in Nat /\ Len(both) = Len(l) + Len(more)
      /\ \A i \in 1..Len(l) + Len(more) :
           both[i] = IF i <= Len(l) THEN l[i] ELSE more[i - Len(l)]
      /\ DOMAIN l = 1..Len(l) /\ DOMAIN more = 1..Len(more)
      /\ DOMAIN both = 1..Len(l) + Len(more)
  BY ConcatProperties, ElementOfSeq
<1> HIDE DEF both
<1>2. \A i \in DOMAIN l : i \in DOMAIN both /\ both[i] = l[i]
  BY <1>1
<1>3. \A i \in DOMAIN both \ DOMAIN l : n + i > n + Len(l) /\ both[i] \in ToSet(more)
  <2> SUFFICES ASSUME NEW i \in DOMAIN both \ DOMAIN l
               PROVE  n + i > n + Len(l) /\ both[i] \in ToSet(more)
    OBVIOUS
  <2>1. i \in Int /\ i > Len(l) /\ both[i] = more[i - Len(l)] /\ i - Len(l) \in DOMAIN more
    BY <1>1
  <2> QED
    BY <1>1, <2>1 DEF ToSet
<1>4. RowsFrom(n, l) \subseteq RowsFrom(n, both)
  BY <1>2 DEF RowsFrom
<1>5. ASSUME NEW row \in RowsFrom(n, both) \ RowsFrom(n, l)
      PROVE  row.seq > n + Len(l) /\ row.op \in ToSet(more)
  <2>1. PICK i \in DOMAIN both : row = [seq |-> n + i, op |-> both[i]]
    BY DEF RowsFrom
  <2>2. i \notin DOMAIN l
    BY <1>2, <2>1 DEF RowsFrom
  <2>3. row.seq = n + i /\ row.op = both[i]
    BY <2>1
  <2> QED
    BY <1>3, <2>2, <2>3
<1> QED
  BY <1>1, <1>4, <1>5 DEF both

\* Some finitely many numbers have a greatest one.
LEMMA GreatestIs ==
  ASSUME NEW S \in SUBSET Int, IsFiniteSet(S), S # {}
  PROVE  Max(S) \in S /\ \A x \in S : x <= Max(S)
<1>1. Cardinality(S) \in Nat /\ Cardinality(S) # 0
  BY FS_CardinalityType, FS_EmptySet
<1>2. PICK m \in S : Rank(S, m) = Cardinality(S)
  BY <1>1, RankReached
<1>3. ASSUME NEW x \in S PROVE x <= m
  <2>1. CASE m < x
    <3>1. Rank(S, m) < Rank(S, x) /\ Rank(S, x) \in 1..Cardinality(S)
      BY <2>1, RankGrows, RankRange
    <3> QED
      BY <1>1, <1>2, <3>1
  <2>2. x \in Int /\ m \in Int
    OBVIOUS
  <2> QED
    BY <2>1, <2>2
<1>4. \E y \in S : \A x \in S : y >= x
  <2>1. \A x \in S : m \in Int /\ x \in Int
    OBVIOUS
  <2> QED
    BY <1>3, <2>1
<1>5. Max(S) \in S /\ \A x \in S : Max(S) >= x
  BY <1>4 DEF Max
<1>6. \A x \in S : Max(S) \in Int /\ x \in Int
  BY <1>5
<1> QED
  BY <1>5, <1>6

\* The first of the rows behind a number.
Following(rows, c) ==
  {row \in rows : row.seq > c /\ Cardinality({r \in rows : r.seq \in (c+1)..row.seq})
                                   <= PageLimit}

\* A page is what follows the cursor without a gap, up to its last row.
LEMMA PageIs ==
  ASSUME NEW rows, IsFiniteSet(rows), \A r \in rows : r.seq \in Nat, NEW c \in Nat,
         NEW page, page = Following(rows, c)
  PROVE  /\ LastOf(page, c) \in Nat
         /\ LastOf(page, c) = c \/ \E row \in page : row.seq = LastOf(page, c)
         /\ \A row \in rows : row.seq <= LastOf(page, c) => row.seq <= c \/ row \in page
<1> DEFINE S == {row.seq : row \in page}
           upTo(n) == {r \in rows : r.seq \in (c+1)..n}
<1>0. page = {row \in rows : row.seq > c /\ Cardinality(upTo(row.seq)) <= PageLimit}
  BY DEF Following
<1>1. page \subseteq rows
  BY <1>0
<1>2. CASE page = {}
  BY <1>2 DEF LastOf
<1>3. CASE page # {}
  <2>1. S \in SUBSET Int /\ IsFiniteSet(S) /\ S # {}
    <3>1. IsFiniteSet(page)
      BY <1>1, FS_Subset
    <3> DEFINE f == [row \in page |-> row.seq]
    <3>2. f \in Surjection(page, S)
      BY DEF Surjection
    <3> HIDE DEF f, S
    <3>3. IsFiniteSet(S)
      BY <3>1, <3>2, FS_Surjection
    <3>4. \A row \in page : row.seq \in Nat
      BY <1>1
    <3>5. S \in SUBSET Int
      <4>1. ASSUME NEW n \in S PROVE n \in Int
        <5>1. PICK row \in page : n = row.seq
          BY DEF S
        <5> QED
          BY <3>4, <5>1
      <4> QED
        BY <4>1
    <3>6. \E n : n \in S
      <4>1. PICK row \in page : TRUE
        BY <1>3
      <4> QED
        BY <4>1 DEF S
    <3> QED
      BY <3>3, <3>5, <3>6
  <2>2. LastOf(page, c) = Max(S)
    BY <1>3 DEF LastOf
  <2> HIDE DEF S
  <2>3. Max(S) \in S
    BY <2>1, GreatestIs
  <2>4. PICK last \in page : last.seq = Max(S)
    BY <2>3 DEF S
  <2>5. Cardinality(upTo(last.seq)) <= PageLimit /\ last.seq \in Nat
    BY <1>0, <1>1
  <2>6. ASSUME NEW row \in rows, row.seq <= last.seq, ~(row.seq <= c)
        PROVE  row \in page
    <3>1. row.seq \in Nat /\ row.seq > c
      BY <2>6
    <3>2. upTo(row.seq) \in SUBSET upTo(last.seq)
      BY <2>5, <2>6, <3>1
    <3>3. upTo(last.seq) \in SUBSET rows
      OBVIOUS
    <3> HIDE DEF upTo
    <3>4. IsFiniteSet(upTo(last.seq)) /\ IsFiniteSet(upTo(row.seq))
      BY <3>2, <3>3, FS_Subset
    <3>5. Cardinality(upTo(row.seq)) <= Cardinality(upTo(last.seq))
      BY <3>2, <3>4, FS_Subset
    <3>6. Cardinality(upTo(row.seq)) \in Nat /\ Cardinality(upTo(last.seq)) \in Nat
      BY <3>4, FS_CardinalityType
    <3>7. Cardinality(upTo(row.seq)) <= PageLimit
      BY <2>5, <3>5, <3>6, BoundType
    <3> QED
      BY <1>0, <3>1, <3>7
  <2> QED
    BY <2>2, <2>4, <2>5, <2>6
<1> QED
  BY <1>2, <1>3

-----------------------------------------------------------------------------
(* The steps, sorted by what they do.                                          *)

\* A sync or a deletion of the tab ends and nothing else happens.
Stops(t) ==
  /\ session' \in {session, [session EXCEPT ![t] = Idle]}
  /\ \/ UNCHANGED <<deletion, lock>>
     \/ Release(t)
  /\ wanted' \in [Tabs -> BOOLEAN]
  /\ requests' \subseteq requests
  /\ UNCHANGED <<server, store, born, breached>>

\* The next generation is tried.
Tries(t) ==
  /\ session[t].pc = "attempt"
  /\ Move(t, [pc |-> "generation", attempt |-> session[t].attempt + 1,
              stale |-> generation[DeviceOf[t]]])
  /\ UNCHANGED <<server, store, requests, born, breached>>

\* A batch is sent.
Sends(t) ==
  LET s == session[t]
      request == [kind |-> "sync", tab |-> t, generation |-> s.generation,
                  cursor |-> IF s.generation = Unknown THEN 0 ELSE s.cursor,
                  ops |-> Batch(t)]
  IN  /\ s.pc = "queue" /\ deletion[t].pc = "none"
      /\ ~(s.page > 0) /\ s.generation = Unknown => Batch(t) = <<>>
      /\ Move(t, [pc |-> "wait", request |-> request])
      /\ requests' = requests \cup {request}
      /\ UNCHANGED <<server, store, born, breached>>

TabSteps(t) ==
  \/ Stops(t) \/ StartSync(t) \/ Tries(t) \/ ReadGeneration(t) \/ ReadCursor(t)
  \/ Sends(t) \/ SetGeneration(t) \/ ImportPage(t) \/ MarkSynced(t) \/ SetCursor(t)
  \/ ClearStale(t) \/ BeginDelete(t) \/ SendDelete(t) \/ ClearDeleted(t)
  \/ \E op \in Operations : Edit(t, op)

ServiceSteps(r) == Serve(r) \/ ServeDelete(r)

\* A sync that ends only stops.
LEMMA EndStops ==
  ASSUME Inv, NEW t \in Tabs, NEW outcome \in {"ok", "retry", "error", "aborted"},
         End(t, outcome), requests' \subseteq requests,
         UNCHANGED <<server, store, born, breached>>
  PROVE  Stops(t)
<1>1. wanted \in [Tabs -> BOOLEAN]
  BY DEF Inv, FunctionsOK
<1>2. wanted' \in [Tabs -> BOOLEAN]
  BY <1>1 DEF End
<1>3. UNCHANGED <<deletion, lock>> \/ Release(t)
  BY DEF End, Release
<1>4. session' = [session EXCEPT ![t] = Idle]
  BY DEF End
<1> QED
  BY <1>2, <1>3, <1>4 DEF Stops

\* Every step is one of these.
LEMMA StepsAre ==
  ASSUME Inv, Next
  PROVE  \/ \E t \in Tabs : TabSteps(t)
         \/ \E r \in requests : ServiceSteps(r)
         \/ Forget
<1>0. wanted \in [Tabs -> BOOLEAN]
  BY DEF Inv, FunctionsOK
<1>1. ASSUME NEW t \in Tabs, SyncStep(t)
      PROVE  TabSteps(t)
  <2>1. ASSUME BeginAttempt(t) PROVE TabSteps(t)
    <3>1. CASE session[t].attempt = MaxAttempts
      BY <2>1, <3>1, EndStops DEF BeginAttempt, TabSteps
    <3>2. CASE session[t].attempt # MaxAttempts
      BY <2>1, <3>2 DEF BeginAttempt, TabSteps, Tries
    <3> QED
      BY <3>1, <3>2
  <2>2. ASSUME ReadQueue(t) PROVE TabSteps(t)
    <3>1. CASE \E outcome \in {"ok", "error", "aborted"} :
                 End(t, outcome) /\ UNCHANGED requests
      BY <2>2, <3>1, EndStops DEF ReadQueue, TabSteps
    <3>2. CASE ~\E outcome \in {"ok", "error", "aborted"} :
                 End(t, outcome) /\ UNCHANGED requests
      <4>1. Sends(t)
        BY <2>2, <3>2 DEF ReadQueue, Sends
      <4> QED
        BY <4>1 DEF TabSteps
    <3> QED
      BY <3>1, <3>2
  <2>3. ASSUME Refused(t) \/ Blocked(t) \/ RejectPage(t) PROVE TabSteps(t)
    BY <2>3, EndStops DEF Refused, Blocked, RejectPage, TabSteps
  <2> QED
    BY <1>1, <2>1, <2>2, <2>3 DEF SyncStep, TabSteps
<1>2. ASSUME NEW t \in Tabs, DeleteStep(t)
      PROVE  TabSteps(t)
  BY <1>2, EndStops DEF DeleteStep, AbortSync, TabSteps
<1>3. ASSUME NEW t \in Tabs, Timeout(t)
      PROVE  TabSteps(t)
  <2>1. CASE End(t, "retry") /\ UNCHANGED requests
    BY <1>3, <2>1, EndStops DEF Timeout, TabSteps
  <2>2. CASE ~(End(t, "retry") /\ UNCHANGED requests)
    <3>1. Release(t) /\ UNCHANGED session /\ UNCHANGED requests /\ wanted' = wanted
      BY <1>3, <2>2, Zenon DEF Timeout
    <3>2. Stops(t)
      BY <1>0, <1>3, <3>1 DEF Timeout, Stops
    <3> QED
      BY <3>2 DEF TabSteps
  <2> QED
    BY <2>1, <2>2
<1>4. ASSUME NEW t \in Tabs, Crash(t)
      PROVE  TabSteps(t)
  <2>1. wanted' \in [Tabs -> BOOLEAN]
    BY <1>0, <1>4 DEF Crash
  <2> QED
    BY <1>4, <2>1 DEF Crash, Stops, TabSteps
<1>5. ASSUME NEW r \in requests, Lose(r)
      PROVE  \E t \in Tabs : TabSteps(t)
  <2> DEFINE t == r.tab
  <2>1. t \in Tabs
    BY DEF Inv, RequestInv
  <2>2. requests' \subseteq requests /\ UNCHANGED <<server, store, born, breached>>
    BY <1>5 DEF Lose
  <2>3. CASE End(t, "retry")
    BY <2>1, <2>2, <2>3, EndStops DEF TabSteps
  <2>4. CASE ~End(t, "retry")
    <3>1. Release(t) /\ UNCHANGED session /\ wanted' = wanted
      BY <1>5, <2>4, Zenon DEF Lose
    <3>2. Stops(t)
      BY <1>0, <2>2, <3>1 DEF Stops
    <3> QED
      BY <2>1, <3>2 DEF TabSteps
  <2> QED
    BY <2>3, <2>4
<1> QED
  BY <1>1, <1>2, <1>3, <1>4, <1>5 DEF Next, TabSteps, ServiceSteps

-----------------------------------------------------------------------------
(* The invariant of layer one: who can hold what.                              *)

\* Generations are not taken back, and an operation keeps the one it was made in.
Grows ==
  /\ issued' \in Nat /\ issued <= issued'
  /\ \A op \in Operations : born[op] # Unknown => born'[op] = born[op]

\* A generation that was issued stays issued.
LEMMA IssuedGrows ==
  ASSUME issued \in Nat, Grows
  PROVE  Issued \subseteq Issued'
BY DEF Issued, Grows

\* What a step leaves alone stays as the invariant says.
LEMMA DeviceKept ==
  ASSUME issued \in Nat, Grows, NEW d \in Devices, DeviceInv(d), UNCHANGED <<generation[d],
         cursor[d], queue[d], acked[d], base[d], lock[d]>>
  PROVE  DeviceInv(d)'
<1>1. Issued \subseteq Issued'
  BY IssuedGrows
<1>2. Ops(d)' = Ops(d)
  BY DEF Ops
<1>3. \A op \in Ops(d) : op \in Operations
  <2>1. \A i \in DOMAIN queue[d] : queue[d][i] \in Edits[d]
    BY ElementOfSeq DEF DeviceInv
  <2>2. Edits[d] \subseteq Operations
    BY DeviceType
  <2> QED
    BY <2>1, <2>2 DEF Ops, ToSet
<1>4. \A op \in Ops(d)' : born'[op] = generation'[d] /\ born'[op] # Unknown
  BY <1>2, <1>3 DEF DeviceInv, Grows
<1>5. \A row \in base'[d] : row.op \notin Ops(d)'
  BY <1>2 DEF DeviceInv
<1>6. acked'[d] \subseteq Ops(d)'
  BY <1>2 DEF DeviceInv
<1> QED
  BY <1>1, <1>4, <1>5, <1>6 DEF DeviceInv

\* A session is as good after a step that leaves it and its generation alone.
LEMMA SessionKept ==
  ASSUME issued \in Nat, Grows, NEW t \in Tabs, SessionInv(t), session'[t] = session[t]
  PROVE  SessionInv(t)'
<1>1. Issued \subseteq Issued'
  BY IssuedGrows
<1> QED
  BY <1>1 DEF SessionInv

\* So is a deletion,
LEMMA DeletionKept ==
  ASSUME issued \in Nat, Grows, NEW t \in Tabs, DeletionInv(t), deletion'[t] = deletion[t],
         session'[t].pc = session[t].pc \/ session'[t].pc = "idle"
  PROVE  DeletionInv(t)'
<1>1. Issued \subseteq Issued'
  BY IssuedGrows
<1> QED
  BY <1>1 DEF DeletionInv

\* and a request or response under way.
LEMMA RequestKept ==
  ASSUME issued \in Nat, Grows, NEW r, RequestInv(r)
  PROVE  RequestInv(r)'
<1>1. Issued \subseteq Issued'
  BY IssuedGrows
<1>2. ASSUME r.kind = "sync", NEW op \in ToSet(r.ops)
      PROVE  born'[op] # Unknown
  <2>1. DeviceOf[r.tab] \in Devices
    BY DeviceType DEF RequestInv
  <2>2. \A i \in DOMAIN r.ops : r.ops[i] \in Edits[DeviceOf[r.tab]]
    BY <1>2, ElementOfSeq DEF RequestInv
  <2>3. op \in Operations
    BY <1>2, <2>1, <2>2, DeviceType DEF ToSet
  <2> QED
    BY <1>2, <2>3 DEF RequestInv, Grows
<1> QED
  BY <1>1, <1>2 DEF RequestInv

\* A step of a tab touches the tab, its device and the requests.
LEMMA TabFrame ==
  ASSUME Inv, NEW t \in Tabs, Grows, ServerInv', FunctionsOK',
         \A u \in Tabs \ {t} : session'[u] = session[u] /\ deletion'[u] = deletion[u],
         \A d \in Devices \ {DeviceOf[t]} :
           UNCHANGED <<generation[d], cursor[d], queue[d], acked[d], base[d], lock[d]>>,
         SessionInv(t)', DeletionInv(t)', DeviceInv(DeviceOf[t])',
         \A r \in requests' \ requests : RequestInv(r)'
  PROVE  Inv'
<1>0. issued \in Nat
  BY DEF Inv, ServerInv
<1>1. ASSUME NEW d \in Devices PROVE DeviceInv(d)'
  <2>1. CASE d = DeviceOf[t]
    BY <2>1
  <2>2. CASE d # DeviceOf[t]
    BY <1>0, <2>2, DeviceKept DEF Inv
  <2> QED
    BY <2>1, <2>2
<1>2. ASSUME NEW u \in Tabs PROVE SessionInv(u)' /\ DeletionInv(u)'
  <2>1. CASE u = t
    BY <2>1
  <2>2. CASE u # t
    BY <1>0, <2>2, SessionKept, DeletionKept DEF Inv
  <2> QED
    BY <2>1, <2>2
<1>3. ASSUME NEW r \in requests' PROVE RequestInv(r)'
  BY <1>0, <1>3, RequestKept DEF Inv
<1> QED
  BY <1>1, <1>2, <1>3 DEF Inv

\* Nothing of the server and no birth: both parts of the frame at once.
LEMMA ServerKept ==
  ASSUME Inv, UNCHANGED <<server, born>>
  PROVE  Grows /\ ServerInv' /\ issued' = issued /\ Issued' = Issued
<1>1. issued' = issued /\ epoch' = epoch /\ first' = first /\ log' = log /\ born' = born
  BY DEF server
<1>2. issued \in Nat
  BY DEF Inv, ServerInv
<1> QED
  BY <1>1, <1>2 DEF Inv, ServerInv, Grows, Issued

\* A step that changes one session, and perhaps sends something.
LEMMA SessionFrame ==
  ASSUME Inv, NEW t \in Tabs, NEW s, session' = [session EXCEPT ![t] = s],
         UNCHANGED <<server, store, lock, deletion, born, breached>>,
         wanted' \in [Tabs -> BOOLEAN], SessionInv(t)',
         deletion[t].pc \in {"wait", "clear"} => s.pc = "idle",
         \A r \in requests' \ requests : RequestInv(r)'
  PROVE  Inv'
<1>1. Grows /\ ServerInv' /\ Issued' = Issued /\ issued \in Nat
  BY ServerKept DEF Inv, ServerInv
<1>2. /\ generation' = generation /\ cursor' = cursor /\ queue' = queue
      /\ acked' = acked /\ base' = base
  BY DEF store
<1>3. FunctionsOK'
  BY <1>2 DEF Inv, FunctionsOK
<1>4. DeviceOf[t] \in Devices
  BY DeviceType
<1>5. DeviceInv(DeviceOf[t])'
  BY <1>1, <1>2, <1>4, DeviceKept DEF Inv
<1>6. DeletionInv(t)'
  <2>1. session'[t] = s
    BY DEF Inv, FunctionsOK
  <2> QED
    BY <1>1, <2>1 DEF Inv, DeletionInv
<1>7. \A u \in Tabs \ {t} : session'[u] = session[u]
  BY DEF Inv, FunctionsOK
<1> QED
  BY <1>1, <1>2, <1>3, <1>5, <1>6, <1>7, TabFrame

\* A sync that ends, however it ends, leaves everything else alone.
LEMMA StopsKeeps ==
  ASSUME Inv, NEW t \in Tabs, Stops(t)
  PROVE  Inv'
<1>1. Grows /\ ServerInv' /\ Issued' = Issued /\ issued \in Nat
  BY ServerKept DEF Inv, ServerInv, Stops
<1>2. /\ generation' = generation /\ cursor' = cursor /\ queue' = queue
      /\ acked' = acked /\ base' = base /\ born' = born /\ breached' = breached
  BY DEF Stops, store
<1>3. DeviceOf[t] \in Devices
  BY DeviceType
<1>4. /\ session' \in {session, [session EXCEPT ![t] = Idle]} /\ DOMAIN session = Tabs
      /\ DOMAIN deletion = Tabs /\ DOMAIN lock = Devices
  BY DEF Stops, Inv, FunctionsOK
<1>5. /\ \A u \in Tabs \ {t} : session'[u] = session[u] /\ deletion'[u] = deletion[u]
      /\ session'[t] = session[t] \/ session'[t] = Idle
      /\ deletion'[t] = deletion[t] \/ deletion'[t] = NoDeletion
      /\ \A d \in Devices \ {DeviceOf[t]} : lock'[d] = lock[d]
      /\ lock'[DeviceOf[t]] \in {lock[DeviceOf[t]], NoTab}
      /\ DOMAIN session' = Tabs /\ DOMAIN deletion' = Tabs /\ DOMAIN lock' = Devices
  BY <1>3, <1>4 DEF Stops, Release
<1>6. FunctionsOK'
  BY <1>2, <1>5 DEF Inv, FunctionsOK, Stops
<1>7. SessionInv(t)'
  <2>1. CASE session'[t] = session[t]
    BY <1>1, <2>1, SessionKept DEF Inv
  <2>2. CASE session'[t] = Idle
    BY <2>2 DEF SessionInv, Idle, Phases, HasGeneration, HasCursor, HasPage
  <2> QED
    BY <1>5, <2>1, <2>2
<1>8. DeletionInv(t)'
  BY <1>1, <1>5 DEF Inv, DeletionInv, Idle, NoDeletion
<1>9. DeviceInv(DeviceOf[t])'
  BY <1>1, <1>2, <1>3, <1>5 DEF Inv, DeviceInv, Ops
<1>10. requests' \subseteq requests
  BY DEF Stops
<1> QED
  BY <1>1, <1>2, <1>5, <1>6, <1>7, <1>8, <1>9, <1>10, TabFrame

\* The steps of a sync that change nothing but its session.
LEMMA SyncKeeps ==
  ASSUME Inv, NEW t \in Tabs,
         StartSync(t) \/ Tries(t) \/ ReadGeneration(t) \/ ReadCursor(t) \/ Sends(t)
  PROVE  Inv'
<1> USE DEF Phases, HasGeneration, HasCursor, HasPage
<1>1. /\ SessionInv(t) /\ DeletionInv(t) /\ DeviceOf[t] \in Devices
      /\ DeviceInv(DeviceOf[t]) /\ DOMAIN session = Tabs /\ wanted \in [Tabs -> BOOLEAN]
      /\ issued \in Nat
  BY DeviceType DEF Inv, FunctionsOK, ServerInv
<1>2. CASE StartSync(t)
  <2> DEFINE s == [pc |-> "attempt", attempt |-> 0]
  <2>1. /\ session' = [session EXCEPT ![t] = s] /\ wanted' \in [Tabs -> BOOLEAN]
        /\ UNCHANGED <<server, store, lock, deletion, born, breached, requests>>
        /\ deletion[t].pc = "none"
    BY <1>1, <1>2 DEF StartSync
  <2>2. session'[t] = s
    BY <1>1, <2>1
  <2>3. SessionInv(t)'
    BY <2>2 DEF SessionInv
  <2> QED
    BY <2>1, <2>3, SessionFrame
<1>3. CASE Tries(t)
  <2> DEFINE s == Updated(session[t], [pc |-> "generation",
                          attempt |-> session[t].attempt + 1,
                          stale |-> generation[DeviceOf[t]]])
  <2>1. /\ session' = [session EXCEPT ![t] = s]
        /\ UNCHANGED <<server, store, lock, wanted, deletion, born, breached, requests>>
        /\ session[t].pc = "attempt"
    BY <1>3 DEF Tries, Move
  <2>2. session'[t] = s /\ Issued' = Issued
    BY <1>1, <2>1, ServerKept
  <2>3. s.pc = "generation" /\ s.stale = generation[DeviceOf[t]]
        /\ {"pc", "attempt", "stale"} \subseteq DOMAIN s
    BY DEF Updated
  <2> HIDE DEF s
  <2>4. SessionInv(t)'
    BY <1>1, <2>2, <2>3 DEF SessionInv, DeviceInv
  <2>5. deletion[t].pc \in {"wait", "clear"} => s.pc = "idle"
    BY <1>1, <2>1 DEF DeletionInv
  <2> QED
    BY <1>1, <2>1, <2>4, <2>5, SessionFrame
<1>4. CASE ReadGeneration(t)
  <2> DEFINE s == Updated(session[t], [pc |-> "cursor",
                          generation |-> generation[DeviceOf[t]]])
  <2>1. /\ session' = [session EXCEPT ![t] = s]
        /\ UNCHANGED <<server, store, lock, wanted, deletion, born, breached, requests>>
        /\ session[t].pc = "generation"
    BY <1>4 DEF ReadGeneration, Move
  <2>2. session'[t] = s /\ Issued' = Issued
    BY <1>1, <2>1, ServerKept
  <2>3. /\ s.pc = "cursor" /\ s.generation = generation[DeviceOf[t]]
        /\ {"pc", "attempt", "stale", "generation"} \subseteq DOMAIN s
        /\ s.stale = session[t].stale
    BY <1>1, <2>1 DEF Updated, SessionInv
  <2> HIDE DEF s
  <2>4. SessionInv(t)'
    BY <1>1, <2>1, <2>2, <2>3 DEF SessionInv, DeviceInv
  <2>5. deletion[t].pc \in {"wait", "clear"} => s.pc = "idle"
    BY <1>1, <2>1 DEF DeletionInv
  <2> QED
    BY <1>1, <2>1, <2>4, <2>5, SessionFrame
<1>5. CASE ReadCursor(t)
  <2> DEFINE s == Updated(session[t], [pc |-> "queue", cursor |-> cursor[DeviceOf[t]],
                          page |-> 0, more |-> FALSE])
  <2>1. /\ session' = [session EXCEPT ![t] = s]
        /\ UNCHANGED <<server, store, lock, wanted, deletion, born, breached, requests>>
        /\ session[t].pc = "cursor"
    BY <1>5 DEF ReadCursor, Move
  <2>2. session'[t] = s /\ Issued' = Issued
    BY <1>1, <2>1, ServerKept
  <2>3. /\ s.pc = "queue" /\ s.cursor = cursor[DeviceOf[t]] /\ s.page = 0
        /\ {"pc", "attempt", "stale", "generation", "cursor", "page", "more"} \subseteq DOMAIN s
        /\ s.stale = session[t].stale /\ s.generation = session[t].generation
    BY <1>1, <2>1 DEF Updated, SessionInv
  <2> HIDE DEF s
  <2>4. SessionInv(t)'
    BY <1>1, <2>1, <2>2, <2>3 DEF SessionInv, DeviceInv
  <2>5. deletion[t].pc \in {"wait", "clear"} => s.pc = "idle"
    BY <1>1, <2>1 DEF DeletionInv
  <2> QED
    BY <1>1, <2>1, <2>4, <2>5, SessionFrame
<1>6. CASE Sends(t)
  <2>0. PICK request : request = [kind |-> "sync", tab |-> t,
                                  generation |-> session[t].generation,
                                  cursor |-> IF session[t].generation = Unknown THEN 0
                                             ELSE session[t].cursor,
                                  ops |-> Batch(t)]
    OBVIOUS
  <2> DEFINE s == Updated(session[t], [pc |-> "wait", request |-> request])
  <2>1. /\ session' = [session EXCEPT ![t] = s] /\ requests' = requests \cup {request}
        /\ UNCHANGED <<server, store, lock, wanted, deletion, born, breached>>
        /\ session[t].pc = "queue" /\ deletion[t].pc = "none"
        /\ ~(session[t].page > 0) /\ session[t].generation = Unknown => Batch(t) = <<>>
    BY <1>6, <2>0 DEF Sends, Move
  <2>2. session'[t] = s /\ Issued' = Issued
    BY <1>1, <2>1, ServerKept
  <2>3. /\ request.kind = "sync" /\ request.tab = t
        /\ request.generation = session[t].generation
        /\ request.cursor = IF session[t].generation = Unknown THEN 0 ELSE session[t].cursor
        /\ request.ops = Batch(t)
    BY <2>0
  <2>4. /\ s.pc = "wait" /\ s.request = request
        /\ {"pc", "attempt", "stale", "generation", "cursor", "page", "more", "request"}
             \subseteq DOMAIN s
        /\ s.stale = session[t].stale /\ s.generation = session[t].generation
        /\ s.cursor = session[t].cursor
    BY <1>1, <2>1 DEF Updated, SessionInv
  <2> HIDE DEF s
  <2>5. SessionInv(t)'
    BY <1>1, <2>1, <2>2, <2>3, <2>4 DEF SessionInv
  <2>6. RequestInv(request)'
    <3>1. /\ Batch(t) \in Seq(Edits[DeviceOf[t]]) /\ IsInjective(Batch(t))
          /\ ToSet(Batch(t)) \subseteq Ops(DeviceOf[t])
      BY <1>1, BatchIs
    <3>2. request.generation \in Issued' /\ request.cursor \in Nat
      BY <1>1, <2>1, <2>2, <2>3 DEF SessionInv
    <3>3. \A op \in ToSet(request.ops) : born'[op] # Unknown
      BY <1>1, <2>1, <2>3, <3>1 DEF DeviceInv
    <3>4. request.generation = Unknown => request.ops = <<>>
      BY <1>1, <2>1, <2>3 DEF SessionInv
    <3>5. request.ops \in Seq(Edits[DeviceOf[request.tab]]) /\ IsInjective(request.ops)
      BY <2>3, <3>1
    <3> QED
      BY <2>3, <3>2, <3>3, <3>4, <3>5 DEF RequestInv
  <2>7. deletion[t].pc \in {"wait", "clear"} => s.pc = "idle"
    BY <2>1
  <2>8. \A r \in requests' \ requests : RequestInv(r)'
    <3>1. \A r \in requests' \ requests : r = request
      BY <2>1
    <3> QED
      BY <2>6, <3>1
  <2> QED
    BY <1>1, <2>1, <2>5, <2>7, <2>8, SessionFrame
<1> QED
  BY <1>2, <1>3, <1>4, <1>5, <1>6

\* What a fenced transaction of a session may rely on.
LEMMA PageOf ==
  ASSUME Inv, NEW t \in Tabs, session[t].pc \in HasPage, ~Fenced(t)
  PROVE  /\ DeviceOf[t] \in Devices /\ DeviceInv(DeviceOf[t]) /\ SessionInv(t) /\ DeletionInv(t)
         /\ generation[DeviceOf[t]] = session[t].generation
         /\ deletion[t].pc \notin {"wait", "clear"}
         /\ generation[DeviceOf[t]] = Unknown =>
              base[DeviceOf[t]] = {} /\ acked[DeviceOf[t]] = {} /\ Ops(DeviceOf[t]) = {}
<1>1. /\ DeviceOf[t] \in Devices /\ DeviceInv(DeviceOf[t]) /\ SessionInv(t) /\ DeletionInv(t)
  BY DeviceType DEF Inv
<1>2. generation[DeviceOf[t]] = session[t].generation
  BY DEF Fenced, HasPage
<1>3. deletion[t].pc \notin {"wait", "clear"}
  BY <1>1 DEF DeletionInv, HasPage
<1> QED
  BY <1>1, <1>2, <1>3 DEF DeviceInv

\* Recording a page.
LEMMA RecordKeeps ==
  ASSUME Inv, NEW t \in Tabs,
         SetGeneration(t) \/ ImportPage(t) \/ MarkSynced(t) \/ SetCursor(t)
  PROVE  Inv'
<1> USE DEF Phases, HasGeneration, HasCursor, HasPage
<1> DEFINE d == DeviceOf[t]
<1>1. /\ session[t].pc \in HasPage /\ ~Fenced(t) /\ UNCHANGED <<server, born>>
      /\ UNCHANGED <<lock, deletion, requests, breached, wanted>>
  BY DEF SetGeneration, ImportPage, MarkSynced, SetCursor, Move
<1>2. /\ d \in Devices /\ DeviceInv(d) /\ SessionInv(t) /\ DeletionInv(t)
      /\ generation[d] = session[t].generation
      /\ deletion[t].pc \notin {"wait", "clear"}
      /\ generation[d] = Unknown => base[d] = {} /\ acked[d] = {} /\ Ops(d) = {}
  BY <1>1, PageOf
<1>3. Grows /\ ServerInv' /\ Issued' = Issued /\ issued \in Nat
  BY <1>1, ServerKept DEF Inv, ServerInv
<1>4. /\ DOMAIN session = Tabs /\ DOMAIN deletion = Tabs /\ wanted \in [Tabs -> BOOLEAN]
      /\ DOMAIN generation = Devices /\ DOMAIN cursor = Devices /\ DOMAIN base = Devices
      /\ DOMAIN queue = Devices /\ DOMAIN acked = Devices /\ DOMAIN lock = Devices
      /\ breached \subseteq Devices
  BY DEF Inv, FunctionsOK
\* It is enough that the session and the device are as they should be.
<1>5. ASSUME NEW s, session' = [session EXCEPT ![t] = s], SessionInv(t)', DeviceInv(d)',
             DOMAIN generation' = Devices, DOMAIN cursor' = Devices, DOMAIN base' = Devices,
             DOMAIN queue' = Devices, DOMAIN acked' = Devices,
             \A e \in Devices \ {d} : UNCHANGED <<generation[e], cursor[e], queue[e],
                                                  acked[e], base[e]>>
      PROVE  Inv'
  <2>1. FunctionsOK'
    BY <1>1, <1>4, <1>5 DEF FunctionsOK
  <2>2. DeletionInv(t)'
    BY <1>1, <1>2, <1>3 DEF DeletionInv
  <2>3. \A u \in Tabs \ {t} : session'[u] = session[u] /\ deletion'[u] = deletion[u]
    BY <1>1, <1>4, <1>5
  <2> QED
    BY <1>1, <1>3, <1>5, <2>1, <2>2, <2>3, TabFrame
<1>6. CASE SetGeneration(t)
  <2> DEFINE s == Updated(session[t],
                    [pc |-> IF session[t].rows # {} THEN "import" ELSE AfterImport(t),
                     generation |-> session[t].reply])
  <2>1. /\ session' = [session EXCEPT ![t] = s]
        /\ generation' = [generation EXCEPT ![d] = session[t].reply]
        /\ UNCHANGED <<cursor, base, queue, acked>>
        /\ session[t].pc = "apply"
    BY <1>6 DEF SetGeneration, Move
  <2>2. session'[t] = s
    BY <1>4, <2>1
  <2>3. /\ s.pc \in {"import", "mark", "advance"} /\ s.generation = session[t].reply
        /\ DOMAIN session[t] \subseteq DOMAIN s /\ s.stale = session[t].stale
        /\ s.cursor = session[t].cursor /\ s.reply = session[t].reply /\ s.next = session[t].next
    BY <1>2, <2>1 DEF Updated, AfterImport, SessionInv
  <2> HIDE DEF s
  <2>4. SessionInv(t)'
    BY <1>2, <1>3, <2>1, <2>2, <2>3 DEF SessionInv
  <2>5. DeviceInv(d)'
    <3>1. generation'[d] = session[t].reply /\ session[t].reply \in Issued \ {Unknown}
          /\ session[t].generation \in {Unknown, session[t].reply}
      BY <1>2, <1>4, <2>1 DEF SessionInv
    <3>2. Ops(d)' = Ops(d)
      BY <2>1 DEF Ops
    <3>3. CASE generation[d] = Unknown
      BY <1>1, <1>2, <1>3, <2>1, <3>1, <3>2, <3>3 DEF DeviceInv
    <3>4. CASE generation[d] # Unknown
      <4>1. generation'[d] = generation[d]
        BY <1>2, <3>1, <3>4
      <4> QED
        BY <1>1, <1>2, <1>3, <2>1, <4>1, DeviceKept
    <3> QED
      BY <3>3, <3>4
  <2>6. /\ DOMAIN generation' = Devices
        /\ \A e \in Devices \ {d} : generation'[e] = generation[e]
    BY <1>4, <2>1
  <2> QED
    BY <1>4, <1>5, <2>1, <2>4, <2>5, <2>6
<1>7. CASE ImportPage(t)
  <2> DEFINE s == Updated(session[t], [pc |-> AfterImport(t)])
             imported == {row.op : row \in session[t].rows}
             own == Without(queue[d], imported)
  <2>1. /\ session' = [session EXCEPT ![t] = s]
        /\ base' = [base EXCEPT ![d] = base[d] \cup session[t].rows]
        /\ queue' = [queue EXCEPT ![d] = own]
        /\ acked' = [acked EXCEPT ![d] = @ \cap ToSet(queue'[d])]
        /\ UNCHANGED <<generation, cursor>>
        /\ session[t].pc = "import"
    BY <1>7 DEF ImportPage, Move, Prospective
  <2>2. session'[t] = s
    BY <1>4, <2>1
  <2>3. /\ s.pc \in {"mark", "advance"} /\ s.generation = session[t].generation
        /\ DOMAIN session[t] \subseteq DOMAIN s /\ s.stale = session[t].stale
        /\ s.cursor = session[t].cursor /\ s.reply = session[t].reply /\ s.next = session[t].next
    BY <1>2, <2>1 DEF Updated, AfterImport, SessionInv
  <2> HIDE DEF s
  <2>4. SessionInv(t)'
    BY <1>2, <1>3, <2>1, <2>2, <2>3 DEF SessionInv
  <2>5. DeviceInv(d)'
    <3>1. /\ base'[d] = base[d] \cup session[t].rows /\ queue'[d] = own
          /\ acked'[d] = acked[d] \cap ToSet(own)
      BY <1>2, <1>4, <2>1
    <3>2. /\ own \in Seq(Edits[d]) /\ ToSet(own) = Ops(d) \ imported
          /\ IsInjective(own)
      <4>1. queue[d] \in Seq(Edits[d]) /\ IsInjective(queue[d])
        BY <1>2 DEF DeviceInv
      <4> QED
        BY <4>1, WithoutIs DEF Ops
    <3>3. \A row \in session[t].rows : row.op \in imported
      OBVIOUS
    <3> HIDE DEF own, imported
    <3>4. Ops(d)' = Ops(d) \ imported
      BY <3>1, <3>2 DEF Ops
    <3>5. generation[d] # Unknown
      BY <1>2, <2>1 DEF SessionInv
    <3> QED
      BY <1>1, <1>2, <1>3, <2>1, <3>1, <3>2, <3>3, <3>4, <3>5 DEF DeviceInv
  <2>6. /\ DOMAIN base' = Devices /\ DOMAIN queue' = Devices /\ DOMAIN acked' = Devices
        /\ \A e \in Devices \ {d} : UNCHANGED <<queue[e], acked[e], base[e]>>
    BY <1>4, <2>1
  <2> QED
    BY <1>4, <1>5, <2>1, <2>4, <2>5, <2>6
<1>8. CASE MarkSynced(t)
  <2> DEFINE s == Updated(session[t], [pc |-> "advance"])
  <2>1. /\ session' = [session EXCEPT ![t] = s]
        /\ acked' = [acked EXCEPT ![d] = @ \cup (ToSet(session[t].sent) \cap Ops(d))]
        /\ UNCHANGED <<generation, cursor, base, queue>>
        /\ session[t].pc = "mark"
    BY <1>8 DEF MarkSynced, Move
  <2>2. session'[t] = s
    BY <1>4, <2>1
  <2>3. /\ s.pc = "advance" /\ s.generation = session[t].generation
        /\ DOMAIN session[t] \subseteq DOMAIN s /\ s.stale = session[t].stale
        /\ s.cursor = session[t].cursor /\ s.reply = session[t].reply /\ s.next = session[t].next
    BY <1>2, <2>1 DEF Updated, SessionInv
  <2> HIDE DEF s
  <2>4. SessionInv(t)'
    BY <1>2, <1>3, <2>1, <2>2, <2>3 DEF SessionInv
  <2>5. Ops(d)' = Ops(d)
    BY <2>1 DEF Ops
  <2>6. acked'[d] = acked[d] \cup (ToSet(session[t].sent) \cap Ops(d))
    BY <1>2, <1>4, <2>1
  <2>7. DeviceInv(d)'
    BY <1>1, <1>2, <1>3, <2>1, <2>5, <2>6 DEF DeviceInv
  <2>8. DOMAIN acked' = Devices /\ \A e \in Devices \ {d} : acked'[e] = acked[e]
    BY <1>4, <2>1
  <2> QED
    BY <1>4, <1>5, <2>1, <2>4, <2>7, <2>8
<1>9. CASE SetCursor(t)
  <2> DEFINE s == [pc |-> "queue", attempt |-> session[t].attempt, stale |-> session[t].stale,
                   generation |-> session[t].generation, cursor |-> session[t].next,
                   page |-> session[t].page + 1, more |-> session[t].more]
  <2>1. /\ session' = [session EXCEPT ![t] = s]
        /\ cursor' = [cursor EXCEPT ![d] = session[t].next]
        /\ UNCHANGED <<generation, acked, base, queue>>
        /\ session[t].pc = "advance"
    BY <1>9, <1>4 DEF SetCursor
  <2>2. session'[t] = s
    BY <1>4, <2>1
  <2>3. SessionInv(t)'
    BY <1>2, <1>3, <2>1, <2>2 DEF SessionInv
  <2>4. Ops(d)' = Ops(d)
    BY <2>1 DEF Ops
  <2>5. cursor'[d] = session[t].next /\ session[t].next \in Nat /\ generation[d] # Unknown
    BY <1>2, <1>4, <2>1 DEF SessionInv
  <2>6. DeviceInv(d)'
    BY <1>1, <1>2, <1>3, <2>1, <2>4, <2>5 DEF DeviceInv
  <2>7. DOMAIN cursor' = Devices /\ \A e \in Devices \ {d} : cursor'[e] = cursor[e]
    BY <1>4, <2>1
  <2> QED
    BY <1>4, <1>5, <2>1, <2>3, <2>6, <2>7
<1> QED
  BY <1>6, <1>7, <1>8, <1>9

\* A device that is cleared holds nothing.
LEMMA ClearedIs ==
  ASSUME Inv, NEW d \in Devices, NEW g, Clear(d, g), issued \in Nat
  PROVE  /\ generation'[d] = g /\ cursor'[d] = 0 /\ base'[d] = {} /\ queue'[d] = <<>>
         /\ acked'[d] = {} /\ Ops(d)' = {}
         /\ DOMAIN generation' = Devices /\ DOMAIN cursor' = Devices
         /\ DOMAIN base' = Devices /\ DOMAIN queue' = Devices /\ DOMAIN acked' = Devices
         /\ \A e \in Devices \ {d} :
              UNCHANGED <<generation[e], cursor[e], queue[e], acked[e], base[e]>>
         /\ g \in Issued' /\ lock'[d] \in {NoTab} \cup {t \in Tabs : DeviceOf[t] = d}
              => DeviceInv(d)'
<1>1. /\ DOMAIN generation = Devices /\ DOMAIN cursor = Devices /\ DOMAIN base = Devices
      /\ DOMAIN queue = Devices /\ DOMAIN acked = Devices
  BY DEF Inv, FunctionsOK
<1>2. /\ generation'[d] = g /\ cursor'[d] = 0 /\ base'[d] = {} /\ queue'[d] = <<>>
      /\ acked'[d] = {}
  BY <1>1 DEF Clear
<1>3. /\ DOMAIN generation' = Devices /\ DOMAIN cursor' = Devices
      /\ DOMAIN base' = Devices /\ DOMAIN queue' = Devices /\ DOMAIN acked' = Devices
      /\ \A e \in Devices \ {d} :
           UNCHANGED <<generation[e], cursor[e], queue[e], acked[e], base[e]>>
  BY <1>1 DEF Clear
<1>4. Ops(d)' = {}
  BY <1>2 DEF Ops, ToSet
<1>5. queue'[d] \in Seq(Edits[d]) /\ IsInjective(queue'[d])
  BY <1>2 DEF IsInjective
<1>6. ASSUME g \in Issued', lock'[d] \in {NoTab} \cup {t \in Tabs : DeviceOf[t] = d}
      PROVE  DeviceInv(d)'
  BY <1>2, <1>4, <1>5, <1>6 DEF DeviceInv
<1> QED
  BY <1>2, <1>3, <1>4, <1>6

\* clearAccountData leaves a device as it was before its first edit, in a
\* generation the caller was told.
LEMMA ClearKeeps ==
  ASSUME Inv, NEW t \in Tabs, ClearStale(t) \/ ClearDeleted(t)
  PROVE  Inv'
<1> USE DEF Phases, HasGeneration, HasCursor, HasPage
<1> DEFINE d == DeviceOf[t]
<1>1. /\ d \in Devices /\ DeviceInv(d) /\ SessionInv(t) /\ DeletionInv(t)
      /\ UNCHANGED <<server, born>>
  BY DeviceType DEF Inv, ClearStale, ClearDeleted
<1>2. Grows /\ ServerInv' /\ Issued' = Issued /\ issued \in Nat
  BY <1>1, ServerKept DEF Inv, ServerInv
<1>3. /\ DOMAIN session = Tabs /\ DOMAIN deletion = Tabs /\ wanted \in [Tabs -> BOOLEAN]
      /\ DOMAIN lock = Devices /\ breached \subseteq Devices
  BY DEF Inv, FunctionsOK
<1>4. CASE ClearStale(t)
  <2> DEFINE s == [pc |-> "attempt", attempt |-> session[t].attempt]
  <2>1. /\ session' = [session EXCEPT ![t] = s] /\ session[t].pc = "clear"
        /\ UNCHANGED <<wanted, deletion, requests>>
    BY <1>4 DEF ClearStale
  <2>2. session'[t] = s
    BY <1>3, <2>1
  <2>3. SessionInv(t)'
    BY <2>2 DEF SessionInv
  <2>4. deletion[t].pc \notin {"wait", "clear"}
    BY <1>1, <2>1 DEF DeletionInv
  <2>5. CASE generation[d] = session[t].stale
    <3>1. /\ Clear(d, session[t].reply) /\ lock' = [lock EXCEPT ![d] = NoTab]
          /\ breached' = breached \/ breached' = breached \cup {d}
      BY <1>4, <2>5 DEF ClearStale
    <3>2. session[t].reply \in Issued'
      BY <1>1, <1>2, <2>1 DEF SessionInv
    <3>3. /\ lock'[d] = NoTab /\ DOMAIN lock' = Devices
          /\ \A e \in Devices \ {d} : lock'[e] = lock[e]
      BY <1>1, <1>3, <3>1
    <3>4. DeviceInv(d)'
      BY <1>1, <1>2, <3>1, <3>2, <3>3, ClearedIs
    <3>5. FunctionsOK'
      BY <1>1, <1>2, <1>3, <2>1, <3>1, <3>3, ClearedIs DEF FunctionsOK
    <3>6. DeletionInv(t)'
      BY <1>1, <1>2, <2>1, <2>4 DEF DeletionInv
    <3>7. \A u \in Tabs \ {t} : session'[u] = session[u] /\ deletion'[u] = deletion[u]
      BY <1>3, <2>1
    <3>8. \A e \in Devices \ {d} :
              UNCHANGED <<generation[e], cursor[e], queue[e], acked[e], base[e]>>
      BY <1>1, <1>2, <3>1, ClearedIs
    <3> QED
      BY <1>2, <2>1, <2>3, <3>3, <3>4, <3>5, <3>6, <3>7, <3>8, TabFrame
  <2>6. CASE generation[d] # session[t].stale
    <3>1. UNCHANGED <<store, lock, breached>>
      BY <1>4, <2>6 DEF ClearStale
    <3> HIDE DEF s
    <3> QED
      BY <1>1, <1>3, <2>1, <2>3, <2>4, <3>1, SessionFrame
  <2> QED
    BY <2>5, <2>6
<1>5. CASE ClearDeleted(t)
  <2>1. /\ deletion[t].pc = "clear" /\ Clear(d, deletion[t].reply) /\ Release(t)
        /\ UNCHANGED <<session, wanted, requests, breached>>
    BY <1>5 DEF ClearDeleted
  <2>2. /\ deletion'[t] = NoDeletion /\ DOMAIN deletion' = Tabs
        /\ \A u \in Tabs \ {t} : deletion'[u] = deletion[u]
        /\ lock'[d] \in {lock[d], NoTab} /\ DOMAIN lock' = Devices
        /\ \A e \in Devices \ {d} : lock'[e] = lock[e]
    BY <1>1, <1>3, <2>1 DEF Release
  <2>3. deletion[t].reply \in Issued'
    BY <1>1, <1>2, <2>1 DEF DeletionInv
  <2>4. DeviceInv(d)'
    <3>1. lock'[d] \in {NoTab} \cup {u \in Tabs : DeviceOf[u] = d}
      BY <1>1, <2>2 DEF DeviceInv
    <3> QED
      BY <1>1, <1>2, <2>1, <2>3, <3>1, ClearedIs
  <2>5. FunctionsOK'
    BY <1>1, <1>2, <1>3, <2>1, <2>2, ClearedIs DEF FunctionsOK
  <2>6. DeletionInv(t)'
    BY <2>2 DEF DeletionInv, NoDeletion
  <2>7. SessionInv(t)'
    BY <1>1, <1>2, <2>1, SessionKept
  <2>8. \A e \in Devices \ {d} :
            UNCHANGED <<generation[e], cursor[e], queue[e], acked[e], base[e]>>
    BY <1>1, <1>2, <2>1, ClearedIs
  <2> QED
    BY <1>2, <2>1, <2>2, <2>4, <2>5, <2>6, <2>7, <2>8, TabFrame
<1> QED
  BY <1>4, <1>5

\* The steps of deleteCloud, but for the answer of the service.
LEMMA DeleteKeeps ==
  ASSUME Inv, NEW t \in Tabs, BeginDelete(t) \/ SendDelete(t)
  PROVE  Inv'
<1> DEFINE d == DeviceOf[t]
<1>1. /\ d \in Devices /\ DeviceInv(d) /\ SessionInv(t) /\ DeletionInv(t)
      /\ UNCHANGED <<server, born, store, session, wanted, breached>>
  BY DeviceType DEF Inv, BeginDelete, SendDelete
<1>2. Grows /\ ServerInv' /\ Issued' = Issued /\ issued \in Nat
  BY <1>1, ServerKept DEF Inv, ServerInv
<1>3. /\ DOMAIN deletion = Tabs /\ DOMAIN lock = Devices
      /\ generation' = generation /\ cursor' = cursor /\ queue' = queue
      /\ acked' = acked /\ base' = base
  BY <1>1 DEF Inv, FunctionsOK, store
<1>4. /\ deletion'[t].pc \in {"drain", "wait"}
      /\ deletion'[t].pc = "wait" => session[t].pc = "idle"
      /\ \A u \in Tabs \ {t} : deletion'[u] = deletion[u]
      /\ lock'[d] \in {t, lock[d]} /\ \A e \in Devices \ {d} : lock'[e] = lock[e]
      /\ DOMAIN deletion' = Tabs /\ DOMAIN lock' = Devices
  BY <1>1, <1>3 DEF BeginDelete, SendDelete
<1>5. FunctionsOK'
  BY <1>1, <1>3, <1>4 DEF Inv, FunctionsOK
<1>6. DeviceInv(d)'
  BY <1>1, <1>2, <1>3, <1>4 DEF DeviceInv, Ops
<1>7. SessionInv(t)'
  BY <1>1, <1>2, SessionKept
<1>8. DeletionInv(t)'
  BY <1>1, <1>4 DEF DeletionInv
<1>9. \A r \in requests' \ requests : RequestInv(r)'
  <2>1. \A r \in requests' \ requests : r = [kind |-> "delete", tab |-> t]
    BY DEF BeginDelete, SendDelete
  <2>2. ASSUME NEW r, r = [kind |-> "delete", tab |-> t] PROVE RequestInv(r)'
    BY <2>2 DEF RequestInv
  <2> QED
    BY <2>1, <2>2
<1> QED
  BY <1>1, <1>2, <1>3, <1>4, <1>5, <1>6, <1>7, <1>8, <1>9, TabFrame

\* An operation is new to whoever has operations.
LEMMA EditKeeps ==
  ASSUME Inv, RowsInv, NEW t \in Tabs, NEW op \in Operations, Edit(t, op)
  PROVE  Inv' /\ Grows /\ Ops(DeviceOf[t])' = Ops(DeviceOf[t]) \cup {op}
<1> DEFINE d == DeviceOf[t]
<1>1. /\ d \in Devices /\ DeviceInv(d) /\ SessionInv(t) /\ DeletionInv(t)
      /\ UNCHANGED <<server, generation, cursor, base, acked, lock, session, deletion,
                     requests, breached>>
      /\ queue' = [queue EXCEPT ![d] = Append(queue[d], op)]
      /\ born' = [born EXCEPT ![op] = generation[d]]
      /\ wanted' = [wanted EXCEPT ![t] = TRUE]
      /\ born[op] = Unknown /\ generation[d] # Unknown /\ op \in Edits[d]
  BY DeviceType DEF Inv, Edit
<1>2. ServerInv /\ FunctionsOK /\ issued \in Nat /\ born \in [Operations -> Issued]
      /\ generation[d] \in Issued
  BY <1>1 DEF Inv, ServerInv, DeviceInv
<1>3. /\ issued' = issued /\ epoch' = epoch /\ first' = first /\ log' = log /\ Issued' = Issued
  BY <1>1 DEF server, Issued
<1>4. born'[op] = generation[d] /\ \A o \in Operations \ {op} : born'[o] = born[o]
  BY <1>1, <1>2
<1>5. Grows
  BY <1>1, <1>2, <1>3, <1>4 DEF Grows
<1>6. ServerInv'
  <2>1. \A o \in ToSet(log) : o \in Operations
    <3>1. \A i \in DOMAIN log : log[i] \in Operations
      BY <1>2, ElementOfSeq DEF ServerInv
    <3> QED
      BY <3>1 DEF ToSet
  <2>2. \A o \in ToSet(log) : born'[o] # Unknown
    BY <1>1, <1>2, <1>4, <2>1 DEF ServerInv
  <2>3. born' \in [Operations -> Issued]
    BY <1>1, <1>2
  <2> QED
    BY <1>2, <1>3, <2>2, <2>3 DEF ServerInv
<1>7. FunctionsOK'
  BY <1>1, <1>2 DEF FunctionsOK
<1>8. queue'[d] = Append(queue[d], op) /\ \A e \in Devices \ {d} : queue'[e] = queue[e]
  BY <1>1, <1>2 DEF FunctionsOK
<1>9. op \notin Ops(d)
  BY <1>1 DEF DeviceInv
<1>10. /\ queue'[d] \in Seq(Edits[d]) /\ IsInjective(queue'[d])
       /\ ToSet(queue'[d]) = Ops(d) \cup {op}
  <2>1. queue[d] \in Seq(Edits[d]) /\ IsInjective(queue[d])
    BY <1>1 DEF DeviceInv
  <2>2. op \in Edits[d] /\ op \notin ToSet(queue[d]) /\ ToSet(queue[d]) = Ops(d)
    BY <1>1, <1>9 DEF Ops
  <2> DEFINE more == Append(queue[d], op)
  <2>3. more \in Seq(Edits[d]) /\ IsInjective(more) /\ ToSet(more) = Ops(d) \cup {op}
    <3> HIDE DEF d
    <3>1. \A T, seq, e : seq \in Seq(T) /\ e \in T =>
                   /\ Append(seq, e) \in Seq(T)
                   /\ ToSet(Append(seq, e)) = ToSet(seq) \cup {e}
                   /\ IsInjective(seq) /\ e \notin ToSet(seq) => IsInjective(Append(seq, e))
      BY AppendIs
    <3>2. more \in Seq(Edits[d])
      BY <2>1, <2>2, <3>1
    <3>3. ToSet(more) = ToSet(queue[d]) \cup {op}
      BY <2>1, <2>2, <3>1
    <3>4. IsInjective(more)
      BY <2>1, <2>2, <3>1
    <3> QED
      BY <2>2, <3>2, <3>3, <3>4
  <2> HIDE DEF more
  <2>4. queue'[d] = more
    BY <1>8 DEF more
  <2> QED
    BY <2>3, <2>4
<1>11. Ops(d)' = Ops(d) \cup {op}
  BY <1>10 DEF Ops
<1>12. DeviceInv(d)'
  <2>1. \A o \in Ops(d)' : born'[o] = generation'[d] /\ born'[o] # Unknown
    <3>1. \A o \in Ops(d) : o \in Operations
      <4>1. \A i \in DOMAIN queue[d] : queue[d][i] \in Edits[d]
        BY <1>1, ElementOfSeq DEF DeviceInv
      <4>2. Edits[d] \subseteq Operations
        BY <1>1, DeviceType
      <4> QED
        BY <4>1, <4>2 DEF Ops, ToSet
    <3> QED
      BY <1>1, <1>4, <1>9, <1>11, <3>1 DEF DeviceInv
  <2>2. \A row \in base[d] : row.op # op
    <3>1. base[d] \subseteq RowsOf(generation[d])
      BY <1>1 DEF RowsOf
    <3> QED
      BY <1>1, <1>2, <3>1 DEF RowsInv
  <2>3. \A row \in base'[d] : row.op \notin Ops(d)'
    BY <1>1, <1>11, <2>2 DEF DeviceInv
  <2> QED
    BY <1>1, <1>2, <1>3, <1>10, <1>11, <2>1, <2>3 DEF DeviceInv
<1>13. SessionInv(t)' /\ DeletionInv(t)'
  BY <1>1, <1>2, <1>5, SessionKept, DeletionKept
<1>14. Inv'
  BY <1>1, <1>5, <1>6, <1>7, <1>8, <1>12, <1>13, TabFrame
<1> QED
  BY <1>5, <1>11, <1>14

\* A response reaches the tab that waits for it, or nobody.
LEMMA DeliveryIs ==
  ASSUME Inv, NEW r \in requests, NEW response, Deliver(r, response)
  PROVE  /\ r.tab \in Tabs /\ DOMAIN session' = Tabs
         /\ \A u \in Tabs \ {r.tab} : session'[u] = session[u]
         /\ \/ session'[r.tab] = session[r.tab]
            \/ /\ session[r.tab].pc = "wait" /\ session[r.tab].request = r
               /\ DOMAIN session'[r.tab] = (DOMAIN session[r.tab] \ {"request"})
                                             \cup DOMAIN response
               /\ \A f \in DOMAIN response : session'[r.tab][f] = response[f]
               /\ \A f \in DOMAIN session[r.tab] \ ({"request"} \cup DOMAIN response) :
                    session'[r.tab][f] = session[r.tab][f]
<1> DEFINE t == r.tab
           rest == Restrict(session[t], DOMAIN session[t] \ {"request"})
<1>1. t \in Tabs /\ DOMAIN session = Tabs
  BY DEF Inv, RequestInv, FunctionsOK
<1>2. CASE session[t].pc = "wait" /\ session[t].request = r
  <2>1. session' = [session EXCEPT ![t] = Updated(rest, response)]
    BY <1>2 DEF Deliver
  <2>2. /\ DOMAIN rest = DOMAIN session[t] \ {"request"}
        /\ \A f \in DOMAIN rest : rest[f] = session[t][f]
    BY DEF Restrict
  <2> HIDE DEF rest
  <2>3. session'[t] = Updated(rest, response) /\ DOMAIN session' = Tabs
        /\ \A u \in Tabs \ {t} : session'[u] = session[u]
    BY <1>1, <2>1
  <2> DEFINE s == Updated(rest, response)
  <2>4. /\ DOMAIN s = DOMAIN rest \cup DOMAIN response
        /\ \A f \in DOMAIN response : s[f] = response[f]
        /\ \A f \in DOMAIN rest \ DOMAIN response : s[f] = rest[f]
    BY UpdatedIs
  <2> HIDE DEF s
  <2>5. session'[t] = s
    BY <2>3 DEF s
  <2>6. \A f \in DOMAIN session[t] \ ({"request"} \cup DOMAIN response) :
          f \in DOMAIN rest \ DOMAIN response
    BY <2>2
  <2> QED
    BY <1>1, <1>2, <2>2, <2>3, <2>4, <2>5, <2>6
<1>3. CASE ~(session[t].pc = "wait" /\ session[t].request = r)
  BY <1>1, <1>3 DEF Deliver
<1> QED
  BY <1>2, <1>3

\* A step of the service touches the log, the request and the tab that waits.
LEMMA ServiceFrame ==
  ASSUME Inv, NEW r \in requests, r.tab \in Tabs, Grows, ServerInv',
         requests' \subseteq requests,
         \A u \in Tabs \ {r.tab} : session'[u] = session[u] /\ deletion'[u] = deletion[u],
         DOMAIN session' = Tabs, DOMAIN deletion' = Tabs,
         SessionInv(r.tab)', DeletionInv(r.tab)',
         UNCHANGED <<store, lock, wanted, breached>>
  PROVE  Inv'
<1>0. issued \in Nat
  BY DEF Inv, ServerInv
<1>1. /\ generation' = generation /\ cursor' = cursor /\ queue' = queue
      /\ acked' = acked /\ base' = base
  BY DEF store
<1>2. FunctionsOK'
  BY <1>1 DEF Inv, FunctionsOK
<1>3. DeviceOf[r.tab] \in Devices
  BY DeviceType
<1>4. DeviceInv(DeviceOf[r.tab])'
  BY <1>0, <1>1, <1>3, DeviceKept DEF Inv
<1> QED
  BY <1>1, <1>2, <1>4, TabFrame

\* The response that records a page.
LEMMA PageDelivered ==
  ASSUME Inv, NEW r \in requests, r.kind = "sync", Grows, NEW rows, NEW more,
         NEW g \in Issued' \ {Unknown}, epoch' = g, r.generation \in {Unknown, g},
         LastOf(rows, r.cursor) \in Nat, Reply(r, rows, more)
  PROVE  /\ r.tab \in Tabs /\ DOMAIN session' = Tabs /\ SessionInv(r.tab)'
         /\ \A u \in Tabs \ {r.tab} : session'[u] = session[u]
         /\ \/ session'[r.tab] = session[r.tab]
            \/ LET s == session'[r.tab]
               IN  /\ session[r.tab].pc = "wait" /\ session[r.tab].request = r
                   /\ s.pc = "apply" /\ s.rows = rows /\ s.next = LastOf(rows, r.cursor)
                   /\ s.sent = r.ops /\ s.reply = g
                   /\ s.generation = r.generation /\ s.cursor = session[r.tab].cursor
                   /\ s.stale = session[r.tab].stale
                   /\ s.generation = session[r.tab].generation
<1> USE DEF Phases, HasGeneration, HasCursor, HasPage
<1> DEFINE t == r.tab
<1>1. PICK response : response = [pc |-> "apply", sent |-> r.ops, reply |-> g, rows |-> rows,
                                  next |-> LastOf(rows, r.cursor), more |-> more]
  OBVIOUS
<1>2. Deliver(r, response)
  BY <1>1 DEF Reply
<1>3. /\ DOMAIN response = {"pc", "sent", "reply", "rows", "next", "more"}
      /\ response.pc = "apply" /\ response.sent = r.ops /\ response.reply = g
      /\ response.rows = rows /\ response.next = LastOf(rows, r.cursor)
  BY <1>1
<1>4. /\ t \in Tabs /\ DOMAIN session' = Tabs
      /\ \A u \in Tabs \ {t} : session'[u] = session[u]
  BY <1>2, DeliveryIs
<1>5. SessionInv(t) /\ issued \in Nat
  BY <1>4 DEF Inv, ServerInv
<1>6. CASE session'[t] = session[t]
  <2>1. SessionInv(t)'
    BY <1>4, <1>5, <1>6, SessionKept
  <2> QED
    BY <1>4, <1>6, <2>1
<1>7. CASE session'[t] # session[t]
  <2>1. /\ session[t].pc = "wait" /\ session[t].request = r
        /\ DOMAIN session'[t] = (DOMAIN session[t] \ {"request"}) \cup DOMAIN response
        /\ \A f \in DOMAIN response : session'[t][f] = response[f]
        /\ \A f \in DOMAIN session[t] \ ({"request"} \cup DOMAIN response) :
             session'[t][f] = session[t][f]
    BY <1>2, <1>7, DeliveryIs
  <2>2. {"pc", "attempt", "stale", "generation", "cursor", "page"} \subseteq DOMAIN session[t]
    BY <1>5, <2>1 DEF SessionInv
  <2>3. /\ session'[t].pc = "apply" /\ session'[t].sent = r.ops /\ session'[t].reply = g
        /\ session'[t].rows = rows /\ session'[t].next = LastOf(rows, r.cursor)
    BY <1>3, <2>1
  <2>4. /\ session'[t].stale = session[t].stale /\ session'[t].cursor = session[t].cursor
        /\ session'[t].generation = session[t].generation
    BY <1>3, <2>1, <2>2
  <2>5. {"pc", "attempt", "stale", "generation", "cursor", "page", "sent", "reply", "rows",
         "next", "more"} \subseteq DOMAIN session'[t]
    BY <1>3, <2>1, <2>2
  <2>6. session[t].generation = r.generation
    BY <1>5, <2>1 DEF SessionInv
  <2>7. Issued \subseteq Issued'
    BY <1>5, IssuedGrows
  <2>8. SessionInv(t)'
    BY <1>5, <2>1, <2>3, <2>4, <2>5, <2>6, <2>7 DEF SessionInv
  <2> QED
    BY <1>4, <2>1, <2>3, <2>4, <2>6, <2>8
<1> QED
  BY <1>6, <1>7

\* The responses that record nothing: a 409 with a greater generation, a 422.
LEMMA RefusalDelivered ==
  ASSUME Inv, NEW r \in requests, r.kind = "sync", Grows, NEW response,
         Deliver(r, response), response.pc \in {"clear", "invalid"}, "pc" \in DOMAIN response,
         "stale" \notin DOMAIN response, "attempt" \notin DOMAIN response,
         "generation" \notin DOMAIN response, "cursor" \notin DOMAIN response,
         "page" \notin DOMAIN response, "more" \notin DOMAIN response,
         response.pc = "clear" => /\ "reply" \in DOMAIN response
                                  /\ response.reply \in Issued'
                                  /\ response.reply > r.generation
  PROVE  /\ r.tab \in Tabs /\ DOMAIN session' = Tabs /\ SessionInv(r.tab)'
         /\ \A u \in Tabs \ {r.tab} : session'[u] = session[u]
         /\ \/ session'[r.tab] = session[r.tab]
            \/ LET s == session'[r.tab]
               IN  /\ session[r.tab].pc = "wait"
                   /\ s.pc = response.pc /\ s.stale = session[r.tab].stale
                   /\ s.generation = session[r.tab].generation
                   /\ s.cursor = session[r.tab].cursor
<1> USE DEF Phases, HasGeneration, HasCursor, HasPage
<1> DEFINE t == r.tab
<1>1. /\ t \in Tabs /\ DOMAIN session' = Tabs
      /\ \A u \in Tabs \ {t} : session'[u] = session[u]
  BY DeliveryIs
<1>2. SessionInv(t) /\ issued \in Nat
  BY <1>1 DEF Inv, ServerInv
<1>3. CASE session'[t] = session[t]
  <2>1. SessionInv(t)'
    BY <1>1, <1>2, <1>3, SessionKept
  <2> QED
    BY <1>1, <1>3, <2>1
<1>4. CASE session'[t] # session[t]
  <2>1. /\ session[t].pc = "wait" /\ session[t].request = r
        /\ DOMAIN session'[t] = (DOMAIN session[t] \ {"request"}) \cup DOMAIN response
        /\ \A f \in DOMAIN response : session'[t][f] = response[f]
        /\ \A f \in DOMAIN session[t] \ ({"request"} \cup DOMAIN response) :
             session'[t][f] = session[t][f]
    BY <1>4, DeliveryIs
  <2>2. {"pc", "attempt", "stale", "generation", "cursor", "page", "more"}
          \subseteq DOMAIN session[t]
    BY <1>2, <2>1 DEF SessionInv
  <2>3. /\ session'[t].stale = session[t].stale /\ session'[t].cursor = session[t].cursor
        /\ session'[t].generation = session[t].generation
    BY <2>1, <2>2
  <2>4. session'[t].pc = response.pc
        /\ response.pc = "clear" => session'[t].reply = response.reply
    BY <2>1
  <2>5. {"pc", "attempt", "stale", "generation", "cursor", "page", "more"}
          \subseteq DOMAIN session'[t]
    BY <2>1, <2>2
  <2>6. response.pc = "clear" => "reply" \in DOMAIN session'[t]
    BY <2>1
  <2>7. session[t].generation = r.generation
    BY <1>2, <2>1 DEF SessionInv
  <2>8. Issued \subseteq Issued'
    BY <1>2, IssuedGrows
  <2>9. SessionInv(t)'
    BY <1>2, <2>1, <2>3, <2>4, <2>5, <2>6, <2>7, <2>8 DEF SessionInv
  <2> QED
    BY <1>1, <2>1, <2>3, <2>4, <2>9
<1> QED
  BY <1>3, <1>4

\* An account is opened under a generation of its own.
LEMMA NewServed ==
  ASSUME Inv, NEW r \in requests, r.kind = "sync", ServeNew(r), UNCHANGED born
  PROVE  /\ Grows /\ ServerInv' /\ issued' = issued + 1 /\ epoch' = issued + 1
         /\ first' = first /\ log' = <<>> /\ log = <<>>
         /\ r.generation \in Issued /\ r.cursor \in Nat
         /\ \/ /\ r.generation = Unknown /\ r.ops = <<>> /\ LastOf({}, r.cursor) = r.cursor
               /\ Reply(r, {}, FALSE)
            \/ Deliver(r, [pc |-> "clear", reply |-> issued + 1])
<1>1. ServerInv /\ RequestInv(r)
  BY DEF Inv
<1>2. /\ issued \in Nat /\ issued' = issued + 1 /\ epoch' = issued + 1 /\ first' = first
      /\ log' = log /\ log = <<>> /\ born' = born
  BY <1>1 DEF ServeNew, ServerInv
<1>3. Grows
  BY <1>2 DEF Grows
<1>4. Issued \subseteq Issued'
  BY <1>2, <1>3, IssuedGrows
<1>5. born' \in [Operations -> Issued']
  <2>1. born \in [Operations -> Issued]
    BY <1>1 DEF ServerInv
  <2> QED
    BY <1>2, <1>4, <2>1
<1>6. ServerInv'
  BY <1>1, <1>2, <1>5 DEF ServerInv
<1>7. r.generation \in Issued /\ r.cursor \in Nat /\ (r.generation = Unknown => r.ops = <<>>)
  BY <1>1 DEF RequestInv
<1>8. LastOf({}, r.cursor) = r.cursor
  BY DEF LastOf
<1>9. \/ r.generation = Unknown /\ Reply(r, {}, FALSE)
      \/ Deliver(r, [pc |-> "clear", reply |-> issued + 1])
  BY <1>2 DEF ServeNew
<1> QED
  BY <1>2, <1>3, <1>6, <1>7, <1>8, <1>9

\* A request of the account's generation adds its operations to the log, and is
\* answered with what follows its cursor.
LEMMA BatchServed ==
  ASSUME Inv, NEW r \in requests, r.kind = "sync", ServeBatch(r), UNCHANGED born
  PROVE  /\ Grows /\ ServerInv' /\ issued' = issued /\ epoch' = epoch /\ epoch = issued
         /\ epoch # Unknown /\ r.generation \in {Unknown, epoch} /\ r.cursor \in Nat
         /\ first' = first
         /\ Rows \subseteq Rows' /\ \A row \in Rows' \ Rows : row.seq > Newest
         /\ Newest \in Nat /\ Newest' \in Nat /\ Newest <= Newest'
         /\ ToSet(log') = ToSet(log) \cup ToSet(r.ops)
         /\ \E rows, more :
              /\ Reply(r, rows, more) /\ rows \subseteq Rows'
              /\ LastOf(rows, r.cursor) \in Nat
              /\ LastOf(rows, r.cursor) = r.cursor
                 \/ \E row \in rows : row.seq = LastOf(rows, r.cursor)
              /\ \A row \in Rows' : row.seq <= LastOf(rows, r.cursor)
                                      => row.seq <= r.cursor \/ row \in rows
<1>1. ServerInv /\ RequestInv(r) /\ DeviceOf[r.tab] \in Devices
  BY DeviceType DEF Inv, RequestInv
<1>2. /\ issued' = issued /\ epoch' = epoch /\ first' = first /\ born' = born
      /\ log' = log \o Fresh(r) /\ epoch = issued /\ epoch # Unknown
      /\ r.generation \in {Unknown, epoch} /\ r.cursor \in Nat
      /\ issued \in Nat /\ first \in Nat /\ log \in Seq(Operations) /\ IsInjective(log)
  BY <1>1 DEF ServeBatch, ServerInv, RequestInv
<1>3. Grows /\ Issued' = Issued
  BY <1>2 DEF Grows, Issued
<1>4. /\ Fresh(r) \in Seq(Operations) /\ IsInjective(Fresh(r))
      /\ ToSet(Fresh(r)) = ToSet(r.ops) \ ToSet(log)
  <2>1. r.ops \in Seq(Operations) /\ IsInjective(r.ops)
    <3>1. r.ops \in Seq(Edits[DeviceOf[r.tab]]) /\ IsInjective(r.ops)
      BY <1>1 DEF RequestInv
    <3>2. Edits[DeviceOf[r.tab]] \subseteq Operations
      BY <1>1, DeviceType
    <3> QED
      BY <3>1, <3>2
  <2> QED
    BY <2>1, WithoutIs DEF Fresh
<1>5. PICK more : more = Fresh(r)
  OBVIOUS
<1>6. /\ log' = log \o more /\ more \in Seq(Operations) /\ IsInjective(more)
      /\ ToSet(more) = ToSet(r.ops) \ ToSet(log)
  BY <1>2, <1>4, <1>5
<1>7. /\ log' \in Seq(Operations) /\ IsInjective(log')
      /\ ToSet(log') = ToSet(log) \cup ToSet(r.ops)
  <2>1. ToSet(log) \cap ToSet(more) = {}
    BY <1>6
  <2> QED
    BY <1>2, <1>6, <2>1, ConcatIs
<1>8. ServerInv'
  <2>1. \A op \in ToSet(r.ops) : born[op] # Unknown
    BY <1>1 DEF RequestInv
  <2> QED
    BY <1>1, <1>2, <1>3, <1>7, <2>1 DEF ServerInv
<1>9. PICK n, l, l2 : n = first /\ l = log /\ l2 = log'
  OBVIOUS
<1>10. Rows = RowsFrom(n, l) /\ Rows' = RowsFrom(n, l2) /\ l2 = l \o more
  BY <1>2, <1>6, <1>9 DEF Rows, RowsFrom
<1>11. n \in Nat /\ l \in Seq(Operations) /\ l2 \in Seq(Operations) /\ IsInjective(l2)
  BY <1>2, <1>7, <1>9
<1>12. /\ RowsFrom(n, l) \subseteq RowsFrom(n, l2)
       /\ \A row \in RowsFrom(n, l2) \ RowsFrom(n, l) : row.seq > n + Len(l)
       /\ Len(l2) = Len(l) + Len(more) /\ Len(l) \in Nat /\ Len(more) \in Nat
  BY <1>6, <1>10, <1>11, RowsGrow
<1>13. Newest = n + Len(l) /\ Newest' = n + Len(l2)
  BY <1>2, <1>9 DEF Newest
<1>14. PICK all : all = Rows'
  OBVIOUS
<1>15. IsFiniteSet(all) /\ \A row \in all : row.seq \in Nat
  BY <1>10, <1>11, <1>14, RowsAre
<1>16. PICK page : page = Page(r.cursor)'
  OBVIOUS
<1>17. page = Following(all, r.cursor)
  BY <1>14, <1>16 DEF Page, Following
<1>18. /\ LastOf(page, r.cursor) \in Nat
       /\ LastOf(page, r.cursor) = r.cursor
          \/ \E row \in page : row.seq = LastOf(page, r.cursor)
       /\ \A row \in all : row.seq <= LastOf(page, r.cursor)
                             => row.seq <= r.cursor \/ row \in page
  <2>1. r.cursor \in Nat /\ IsFiniteSet(all) /\ \A row \in all : row.seq \in Nat
    BY <1>2, <1>15
  <2> QED
    BY ONLY <1>17, <2>1, PageIs
<1>19. \E m : Reply(r, page, m)
  BY <1>16 DEF ServeBatch
<1>20. page \subseteq all
  BY <1>17 DEF Following
<1>21. \E rows, m :
         /\ Reply(r, rows, m) /\ rows \subseteq Rows'
         /\ LastOf(rows, r.cursor) \in Nat
         /\ LastOf(rows, r.cursor) = r.cursor
            \/ \E row \in rows : row.seq = LastOf(rows, r.cursor)
         /\ \A row \in Rows' : row.seq <= LastOf(rows, r.cursor)
                                 => row.seq <= r.cursor \/ row \in rows
  BY <1>14, <1>18, <1>19, <1>20, Zenon
<1>22. /\ Rows \subseteq Rows' /\ \A row \in Rows' \ Rows : row.seq > Newest
       /\ Newest \in Nat /\ Newest' \in Nat /\ Newest <= Newest'
  <2>1. Rows \subseteq Rows' /\ \A row \in Rows' \ Rows : row.seq > Newest
    BY <1>10, <1>12, <1>13
  <2>2. Newest \in Nat /\ Newest' \in Nat /\ Newest <= Newest'
    BY <1>11, <1>12, <1>13
  <2> QED
    BY <2>1, <2>2
<1> QED
  BY <1>2, <1>3, <1>7, <1>8, <1>21, <1>22

\* An answer to a synchronization request, of whatever kind.
LEMMA ServeKeeps ==
  ASSUME Inv, NEW r \in requests, Serve(r)
  PROVE  Inv' /\ Grows
<1> DEFINE t == r.tab
<1>1. /\ r.kind = "sync" /\ requests' \subseteq requests /\ born' = born
      /\ deletion' = deletion /\ UNCHANGED <<store, lock, wanted, breached>>
  BY DEF Serve
<1>2. /\ RequestInv(r) /\ t \in Tabs /\ ServerInv /\ issued \in Nat /\ DeletionInv(t)
      /\ DOMAIN deletion = Tabs
  BY DEF Inv, RequestInv, ServerInv, FunctionsOK
\* It is enough to look at the server and at the tab.
<1>3. ASSUME Grows, ServerInv', DOMAIN session' = Tabs, SessionInv(t)',
             \A u \in Tabs \ {t} : session'[u] = session[u],
             session'[t] = session[t] \/ session[t].pc = "wait"
      PROVE  Inv' /\ Grows
  <2>1. DeletionInv(t)'
    <3>1. Issued \subseteq Issued'
      BY <1>2, <1>3, IssuedGrows
    <3> QED
      BY <1>1, <1>2, <1>3, <3>1 DEF DeletionInv
  <2> QED
    BY <1>1, <1>2, <1>3, <2>1, ServiceFrame
<1>4. CASE ServeNew(r)
  <2>1. /\ Grows /\ ServerInv' /\ issued' = issued + 1 /\ epoch' = issued + 1
        /\ r.generation \in Issued /\ r.cursor \in Nat
        /\ \/ r.generation = Unknown /\ LastOf({}, r.cursor) = r.cursor /\ Reply(r, {}, FALSE)
           \/ Deliver(r, [pc |-> "clear", reply |-> issued + 1])
    BY <1>1, <1>4, NewServed
  <2>2. PICK g : g = issued + 1
    OBVIOUS
  <2>3. g \in Issued' \ {Unknown} /\ g > r.generation /\ epoch' = g
    BY <1>2, <2>1, <2>2 DEF Issued, Unknown
  <2>4. CASE r.generation = Unknown /\ LastOf({}, r.cursor) = r.cursor /\ Reply(r, {}, FALSE)
    <3>1. LastOf({}, r.cursor) \in Nat /\ r.generation \in {Unknown, g}
      BY <2>1, <2>4
    <3>2. /\ DOMAIN session' = Tabs /\ SessionInv(t)'
          /\ \A u \in Tabs \ {t} : session'[u] = session[u]
          /\ session'[t] = session[t] \/ session[t].pc = "wait"
      BY <1>1, <2>1, <2>3, <2>4, <3>1, PageDelivered
    <3> QED
      BY <1>3, <2>1, <3>2
  <2>5. CASE Deliver(r, [pc |-> "clear", reply |-> issued + 1])
    <3>1. PICK response : response = [pc |-> "clear", reply |-> g]
      OBVIOUS
    <3>2. /\ Deliver(r, response) /\ DOMAIN response = {"pc", "reply"}
          /\ response.pc = "clear" /\ response.reply = g
      BY <2>2, <2>5, <3>1
    <3>3. /\ DOMAIN session' = Tabs /\ SessionInv(t)'
          /\ \A u \in Tabs \ {t} : session'[u] = session[u]
          /\ session'[t] = session[t] \/ session[t].pc = "wait"
      BY <1>1, <2>1, <2>3, <3>2, RefusalDelivered
    <3> QED
      BY <1>3, <2>1, <3>3
  <2> QED
    BY <2>1, <2>4, <2>5
<1>5. CASE ServeStale(r)
  <2>1. Grows /\ ServerInv' /\ Issued' = Issued
    BY <1>1, <1>5, ServerKept DEF ServeStale
  <2>2. PICK response : response = [pc |-> "clear", reply |-> epoch]
    OBVIOUS
  <2>3. /\ Deliver(r, response) /\ DOMAIN response = {"pc", "reply"}
        /\ response.pc = "clear" /\ response.reply = epoch
    BY <1>5, <2>2 DEF ServeStale
  <2>4. epoch \in Issued' /\ epoch > r.generation
    <3>1. r.generation \in Issued /\ r.generation # epoch /\ epoch # Unknown
      BY <1>1, <1>2, <1>5 DEF ServeStale, RequestInv
    <3> QED
      BY <1>2, <2>1, <3>1 DEF ServerInv, Issued
  <2>5. /\ DOMAIN session' = Tabs /\ SessionInv(t)'
        /\ \A u \in Tabs \ {t} : session'[u] = session[u]
        /\ session'[t] = session[t] \/ session[t].pc = "wait"
    BY <1>1, <2>1, <2>3, <2>4, RefusalDelivered
  <2> QED
    BY <1>3, <2>1, <2>5
<1>6. CASE ServeInvalid(r)
  <2>1. Grows /\ ServerInv'
    BY <1>1, <1>6, ServerKept DEF ServeInvalid
  <2>2. PICK response : response = [pc |-> "invalid"]
    OBVIOUS
  <2>3. Deliver(r, response) /\ DOMAIN response = {"pc"} /\ response.pc = "invalid"
    BY <1>6, <2>2 DEF ServeInvalid
  <2>4. /\ DOMAIN session' = Tabs /\ SessionInv(t)'
        /\ \A u \in Tabs \ {t} : session'[u] = session[u]
        /\ session'[t] = session[t] \/ session[t].pc = "wait"
    BY <1>1, <2>1, <2>3, RefusalDelivered
  <2> QED
    BY <1>3, <2>1, <2>4
<1>7. CASE ServeBatch(r)
  <2>1. /\ Grows /\ ServerInv' /\ issued' = issued /\ epoch' = epoch /\ epoch = issued
        /\ epoch # Unknown /\ r.generation \in {Unknown, epoch}
        /\ \E rows, more : Reply(r, rows, more) /\ LastOf(rows, r.cursor) \in Nat
    BY <1>1, <1>7, BatchServed
  <2>2. PICK rows, more : Reply(r, rows, more) /\ LastOf(rows, r.cursor) \in Nat
    BY <2>1
  <2>3. PICK g : g = epoch
    OBVIOUS
  <2>4. g \in Issued' \ {Unknown} /\ epoch' = g /\ r.generation \in {Unknown, g}
    BY <1>2, <2>1, <2>3 DEF Issued
  <2>5. /\ DOMAIN session' = Tabs /\ SessionInv(t)'
        /\ \A u \in Tabs \ {t} : session'[u] = session[u]
        /\ session'[t] = session[t] \/ session[t].pc = "wait"
    BY <1>1, <2>1, <2>2, <2>4, PageDelivered
  <2> QED
    BY <1>3, <2>1, <2>5
<1> QED
  BY <1>4, <1>5, <1>6, <1>7 DEF Serve

\* The service's answer to a deletion.
LEMMA ServeDeleteKeeps ==
  ASSUME Inv, NEW r \in requests, ServeDelete(r)
  PROVE  Inv' /\ Grows /\ epoch' = issued' /\ issued < issued' /\ log' = <<>>
<1> DEFINE t == r.tab
<1>1. /\ RequestInv(r) /\ t \in Tabs /\ ServerInv /\ issued \in Nat /\ DeletionInv(t)
      /\ SessionInv(t) /\ DOMAIN deletion = Tabs /\ DOMAIN session = Tabs
      /\ first \in Nat /\ log \in Seq(Operations)
  BY DEF Inv, RequestInv, ServerInv, FunctionsOK
<1>2. /\ requests' \subseteq requests /\ UNCHANGED <<store, lock, session, wanted, breached>>
      /\ born' = born /\ log' = <<>> /\ first' = first + Len(log)
      /\ issued' = IF issued = 0 THEN 2 ELSE issued + 1
      /\ epoch' = issued'
  BY DEF ServeDelete
<1>3. issued' \in Nat /\ issued < issued' /\ Len(log) \in Nat
  BY <1>1, <1>2
<1>4. Grows
  BY <1>1, <1>2, <1>3 DEF Grows
<1>5. Issued \subseteq Issued' /\ issued' \in Issued' \ {Unknown}
  BY <1>1, <1>3, <1>4, IssuedGrows DEF Issued, Unknown
<1>6. ServerInv'
  <2>1. born' \in [Operations -> Issued']
    <3>1. born \in [Operations -> Issued]
      BY <1>1 DEF ServerInv
    <3> QED
      BY <1>2, <1>5, <3>1
  <2>2. log' \in Seq(Operations) /\ IsInjective(log') /\ ToSet(log') = {}
    BY <1>2 DEF IsInjective, ToSet
  <2> QED
    BY <1>1, <1>2, <1>3, <2>1, <2>2 DEF ServerInv
<1>7. /\ DOMAIN deletion' = Tabs /\ \A u \in Tabs \ {t} : deletion'[u] = deletion[u]
      /\ DeletionInv(t)'
  <2>1. PICK g : g = issued'
    OBVIOUS
  <2>2. CASE deletion[t].pc = "wait"
    <3>1. deletion' = [deletion EXCEPT ![t] = [pc |-> "clear", reply |-> g]]
      BY <1>2, <2>1, <2>2 DEF ServeDelete
    <3>2. deletion'[t] = [pc |-> "clear", reply |-> g]
      BY <1>1, <3>1
    <3> QED
      BY <1>1, <1>2, <1>5, <2>1, <2>2, <3>1, <3>2 DEF DeletionInv
  <2>3. CASE deletion[t].pc # "wait"
    <3>1. deletion' = deletion
      BY <2>3 DEF ServeDelete
    <3> QED
      BY <1>1, <1>2, <1>5, <3>1 DEF DeletionInv
  <2> QED
    BY <2>2, <2>3
<1>8. SessionInv(t)'
  BY <1>1, <1>2, <1>4, SessionKept
<1>9. Inv'
  BY <1>1, <1>2, <1>4, <1>6, <1>7, <1>8, ServiceFrame
<1> QED
  BY <1>2, <1>3, <1>4, <1>9

\* Expiry of the account.
LEMMA ForgetKeeps ==
  ASSUME Inv, Forget
  PROVE  Inv' /\ Grows
<1>1. ServerInv /\ issued \in Nat /\ FunctionsOK /\ first \in Nat /\ Len(log) \in Nat
  BY DEF Inv, ServerInv
<1>2. /\ issued' = issued /\ epoch' = Unknown /\ first' = first + Len(log) /\ log' = <<>>
      /\ born' = born /\ session' = session /\ deletion' = deletion /\ requests' = requests
      /\ UNCHANGED <<store, lock, wanted, breached>>
  BY DEF Forget
<1>3. /\ generation' = generation /\ cursor' = cursor /\ queue' = queue
      /\ acked' = acked /\ base' = base
  BY <1>2 DEF store
<1>4. Grows
  BY <1>1, <1>2 DEF Grows
<1>5. ServerInv'
  <2>1. log' \in Seq(Operations) /\ IsInjective(log') /\ ToSet(log') = {}
    BY <1>2 DEF IsInjective, ToSet
  <2> QED
    BY <1>1, <1>2, <2>1 DEF ServerInv, Issued
<1>6. FunctionsOK'
  BY <1>1, <1>2, <1>3 DEF FunctionsOK
<1>7. \A d \in Devices : DeviceInv(d)'
  BY <1>1, <1>2, <1>3, <1>4, DeviceKept DEF Inv
<1>8. \A t \in Tabs : SessionInv(t)' /\ DeletionInv(t)'
  BY <1>1, <1>2, <1>4, SessionKept, DeletionKept DEF Inv
<1>9. \A r \in requests' : RequestInv(r)'
  BY <1>1, <1>2, <1>4, RequestKept DEF Inv
<1> QED
  BY <1>4, <1>5, <1>6, <1>7, <1>8, <1>9 DEF Inv

-----------------------------------------------------------------------------
(* Layer two: the rows and the acknowledgements of a generation.               *)

\* Membership in unions of families.
LEMMA UnionsAre ==
  ASSUME NEW A, NEW f, NEW D, NEW h, NEW T
  PROVE  \A x : x \in A \cup (UNION {f[d] : d \in D}) \cup (UNION {h[t] : t \in T})
               <=> \/ x \in A
                   \/ \E d \in D : x \in f[d]
                   \/ \E t \in T : x \in h[t]
<1>1. \A x : x \in UNION {f[d] : d \in D} <=> \E d \in D : x \in f[d]
  OBVIOUS
<1>2. \A x : x \in UNION {h[t] : t \in T} <=> \E t \in T : x \in h[t]
  OBVIOUS
<1> QED
  BY <1>1, <1>2, Zenon

\* What is held of a generation is held of it by the service, a device or a
\* session.
HeldAreHeld ==
  \A g :
    /\ \A row : row \in RowsOf(g) <=>
         \/ g = epoch /\ row \in Rows
         \/ \E d \in Devices : generation[d] = g /\ row \in base[d]
         \/ \E t \in Tabs : session[t].pc \in HasPage /\ session[t].reply = g
                            /\ row \in session[t].rows
    /\ \A op : op \in AcksOf(g) <=>
         \/ \E d \in Devices : generation[d] = g /\ op \in acked[d]
         \/ \E t \in Tabs : session[t].pc \in HasPage /\ session[t].reply = g
                            /\ op \in ToSet(session[t].sent)

\* What RowsOf and AcksOf of a generation hold: the service, the devices, the
\* responses on their way.
LEMMA HeldIs == HeldAreHeld
<1> SUFFICES ASSUME NEW g
             PROVE  /\ \A row : row \in RowsOf(g) <=>
                         \/ g = epoch /\ row \in Rows
                         \/ \E d \in Devices : generation[d] = g /\ row \in base[d]
                         \/ \E t \in Tabs : session[t].pc \in HasPage /\ session[t].reply = g
                                            /\ row \in session[t].rows
                    /\ \A op : op \in AcksOf(g) <=>
                         \/ \E d \in Devices : generation[d] = g /\ op \in acked[d]
                         \/ \E t \in Tabs : session[t].pc \in HasPage /\ session[t].reply = g
                                            /\ op \in ToSet(session[t].sent)
  BY Zenon DEF HeldAreHeld
<1> DEFINE A == IF g = epoch THEN Rows ELSE {}
           rows == [t \in Tabs |-> session[t].rows]
           sent == [t \in Tabs |-> ToSet(session[t].sent)]
           D == {e \in Devices : generation[e] = g}
           T == {u \in Tabs : session[u].pc \in HasPage /\ session[u].reply = g}
<1>1. /\ {session[t].rows : t \in T} = {rows[t] : t \in T}
      /\ {ToSet(session[t].sent) : t \in T} = {sent[t] : t \in T}
      /\ \A t \in T : rows[t] = session[t].rows /\ sent[t] = ToSet(session[t].sent)
  OBVIOUS
<1>2. /\ RowsOf(g) = A \cup (UNION {base[d] : d \in D}) \cup (UNION {rows[t] : t \in T})
      /\ AcksOf(g) = (UNION {acked[d] : d \in D}) \cup (UNION {sent[t] : t \in T})
  BY <1>1, Zenon DEF RowsOf, AcksOf
<1>3. /\ \A d : d \in D <=> d \in Devices /\ generation[d] = g
      /\ \A t : t \in T <=> t \in Tabs /\ session[t].pc \in HasPage /\ session[t].reply = g
      /\ \A row : row \in A <=> g = epoch /\ row \in Rows
  OBVIOUS
<1> HIDE DEF A, D, T, rows, sent
<1>4. \A row : row \in RowsOf(g) <=> \/ row \in A
                                     \/ \E d \in D : row \in base[d]
                                     \/ \E t \in T : row \in rows[t]
  BY <1>2, UnionsAre
<1>5. \A op : op \in AcksOf(g) <=> \/ \E d \in D : op \in acked[d]
                                   \/ \E t \in T : op \in sent[t]
  <2>1. AcksOf(g) = {} \cup (UNION {acked[d] : d \in D}) \cup (UNION {sent[t] : t \in T})
    BY <1>2
  <2> QED
    BY <2>1, UnionsAre
<1> QED
  BY <1>1, <1>3, <1>4, <1>5

\* The same of the next state.
LEMMA HeldNext == HeldAreHeld'
BY HeldIs, PTL

\* The service's rows are numbered one by one and have been made.
LEMMA ServiceRows ==
  ASSUME ServerInv
  PROVE  /\ \A row \in Rows : /\ row \in [seq : Nat, op : Operations]
                              /\ row.seq \in first+1..Newest /\ row.op \in ToSet(log)
                              /\ born[row.op] # Unknown
         /\ \A r, s \in Rows : r.op = s.op => r = s
         /\ {row.op : row \in Rows} = ToSet(log)
         /\ epoch = Unknown => Rows = {}
<1>1. first \in Nat /\ log \in Seq(Operations) /\ IsInjective(log)
  BY DEF ServerInv
<1>2. Rows = RowsFrom(first, log)
  BY DEF Rows, RowsFrom
<1>3. /\ \A row \in Rows : /\ row \in [seq : Nat, op : Operations]
                           /\ row.seq \in first+1..Newest /\ row.op \in ToSet(log)
      /\ \A r, s \in Rows : r.op = s.op => r = s
      /\ {row.op : row \in Rows} = ToSet(log)
  BY <1>1, <1>2, RowsAre DEF Newest
<1>4. epoch = Unknown => Rows = {}
  BY DEF ServerInv, Rows
<1>5. \A row \in Rows : born[row.op] # Unknown
  BY <1>3 DEF ServerInv
<1> QED
  BY <1>3, <1>4, <1>5

\* Nobody holds anything of a generation that is not issued.
LEMMA NotIssued ==
  ASSUME Inv, NEW g, g \notin Issued
  PROVE  RowsOf(g) = {} /\ AcksOf(g) = {}
<1>1. ServerInv /\ epoch \in Issued
  BY DEF Inv, ServerInv, Issued, Unknown
<1>2. \A d \in Devices : generation[d] # g
  BY DEF Inv, DeviceInv
<1>3. \A t \in Tabs : session[t].pc \in HasPage => session[t].reply # g
  BY DEF Inv, SessionInv
<1> QED
  BY <1>1, <1>2, <1>3, HeldIs DEF HeldAreHeld

\* What everyone holds after a step, somebody held of the same generation before,
\* or it comes from the service's log of this moment.
Traceable ==
  /\ \A d \in Devices : /\ base'[d] \subseteq RowsOf(generation'[d])
                        /\ acked'[d] \subseteq AcksOf(generation'[d])
  /\ \A t \in Tabs : session'[t].pc \in HasPage =>
       \/ /\ session'[t].rows \subseteq RowsOf(session'[t].reply)
          /\ ToSet(session'[t].sent) \subseteq AcksOf(session'[t].reply)
       \/ /\ session'[t].reply = epoch' /\ session'[t].rows \subseteq Rows'
          /\ ToSet(session'[t].sent) \subseteq ToSet(log')

\* Rows stay in the service's log when those that are held can be traced to where
\* they were held or to the log, and an epoch that changes is a new one.
LEMMA RowsKept ==
  ASSUME Inv, Inv', Grows, RowsInv, Traceable,
         epoch' # Unknown =>
           \/ epoch' = epoch /\ Rows \subseteq Rows' /\ ToSet(log) \subseteq ToSet(log')
           \/ epoch' \notin Issued
  PROVE  RowsInv'
<1> SUFFICES ASSUME NEW g \in Issued'
             PROVE  /\ \A r, s \in RowsOf(g)' : r.op = s.op => r = s
                    /\ \A r \in RowsOf(g)' : r \in [seq : Nat, op : Operations]
                                             /\ born'[r.op] # Unknown
                    /\ g = epoch' /\ g # Unknown => RowsOf(g)' \subseteq Rows'
                                                    /\ AcksOf(g)' \subseteq ToSet(log')
  BY DEF RowsInv
<1>1. \A row : row \in RowsOf(g)' => \/ g = epoch' /\ row \in Rows'
                                     \/ row \in RowsOf(g)
  <2>1. \A row : row \in RowsOf(g)' <=>
              \/ g = epoch' /\ row \in Rows'
              \/ \E d \in Devices : generation'[d] = g /\ row \in base'[d]
              \/ \E t \in Tabs : session'[t].pc \in HasPage /\ session'[t].reply = g
                                 /\ row \in session'[t].rows
    BY HeldNext DEF HeldAreHeld
  <2> QED
    BY <2>1 DEF Traceable
<1>2. \A op : op \in AcksOf(g)' => \/ g = epoch' /\ op \in ToSet(log')
                                   \/ op \in AcksOf(g)
  <2>1. \A op : op \in AcksOf(g)' <=>
              \/ \E d \in Devices : generation'[d] = g /\ op \in acked'[d]
              \/ \E t \in Tabs : session'[t].pc \in HasPage /\ session'[t].reply = g
                                 /\ op \in ToSet(session'[t].sent)
    BY HeldNext DEF HeldAreHeld
  <2> QED
    BY <2>1 DEF Traceable
<1>3. /\ \A row \in Rows' : /\ row \in [seq : Nat, op : Operations]
                            /\ born'[row.op] # Unknown
      /\ \A r, s \in Rows' : r.op = s.op => r = s
      /\ epoch' = Unknown => Rows' = {}
  <2>1. ServerInv'
    BY DEF Inv
  <2>2. PICK n, l : n = first' /\ l = log'
    OBVIOUS
  <2>3. Rows' = RowsFrom(n, l) /\ n \in Nat /\ l \in Seq(Operations) /\ IsInjective(l)
    BY <2>1, <2>2 DEF Rows, RowsFrom, ServerInv
  <2>4. /\ \A row \in Rows' : /\ row \in [seq : Nat, op : Operations]
                              /\ row.op \in ToSet(log')
        /\ \A r, s \in Rows' : r.op = s.op => r = s
    BY <2>2, <2>3, RowsAre
  <2>5. epoch' = Unknown => Rows' = {}
    BY <2>1 DEF ServerInv, Rows
  <2> QED
    BY <2>1, <2>4, <2>5 DEF ServerInv
<1>4. g \in Issued => /\ \A r, s \in RowsOf(g) : r.op = s.op => r = s
                      /\ \A r \in RowsOf(g) : r \in [seq : Nat, op : Operations]
                                              /\ born[r.op] # Unknown
                      /\ g = epoch /\ g # Unknown => RowsOf(g) \subseteq Rows
                                                     /\ AcksOf(g) \subseteq ToSet(log)
  BY DEF RowsInv
<1>5. g \notin Issued => RowsOf(g) = {} /\ AcksOf(g) = {}
  BY NotIssued
<1>6. \A r \in RowsOf(g) : r \in [seq : Nat, op : Operations] /\ born'[r.op] # Unknown
  BY <1>4, <1>5 DEF Grows
<1>7. CASE g = epoch' /\ g # Unknown
  <2>1. RowsOf(g) \subseteq Rows' /\ AcksOf(g) \subseteq ToSet(log')
    BY <1>4, <1>5, <1>7
  <2>2. RowsOf(g)' \subseteq Rows' /\ AcksOf(g)' \subseteq ToSet(log')
    BY <1>1, <1>2, <2>1
  <2> QED
    BY <1>3, <2>2
<1>8. CASE ~(g = epoch' /\ g # Unknown)
  <2>1. \A row : row \in RowsOf(g)' => row \in RowsOf(g)
    BY <1>1, <1>3, <1>8
  <2> QED
    BY <1>4, <1>5, <1>6, <1>8, <2>1
<1> QED
  BY <1>7, <1>8

\* What the steps of a sync do to its session.
SessionIs(t) ==
  LET s == session[t]
      n == session'[t]
      d == DeviceOf[t]
  IN  /\ \A u \in Tabs \ {t} : session'[u] = session[u]
      /\ Stops(t) => n = s \/ n.pc = "idle"
      /\ StartSync(t) => n.pc = "attempt"
      /\ Tries(t) => n.pc = "generation" /\ n.stale = generation[d]
      /\ ReadGeneration(t) => /\ s.pc = "generation" /\ n.pc = "cursor"
                              /\ n.stale = s.stale /\ n.generation = generation[d]
      /\ ReadCursor(t) => /\ s.pc = "cursor" /\ n.pc = "queue" /\ n.stale = s.stale
                          /\ n.generation = s.generation /\ n.cursor = cursor[d]
      /\ Sends(t) => /\ s.pc = "queue" /\ n.pc = "wait" /\ n.stale = s.stale
                     /\ n.generation = s.generation /\ n.cursor = s.cursor
      /\ SetGeneration(t) => /\ s.pc = "apply" /\ n.pc \in {"import", "mark", "advance"}
                             /\ n.pc # "import" => s.rows = {}
                             /\ n.generation = s.reply
      /\ ImportPage(t) => /\ s.pc = "import" /\ n.pc \in {"mark", "advance"}
                          /\ n.generation = s.generation
      /\ MarkSynced(t) => /\ s.pc = "mark" /\ n.pc = "advance"
                          /\ n.generation = s.generation
      /\ SetGeneration(t) \/ ImportPage(t) \/ MarkSynced(t) =>
           /\ n.stale = s.stale /\ n.cursor = s.cursor /\ n.next = s.next
           /\ n.rows = s.rows /\ n.sent = s.sent /\ n.reply = s.reply
      /\ SetCursor(t) => /\ s.pc = "advance" /\ n.pc = "queue" /\ n.stale = s.stale
                         /\ n.generation = s.generation /\ n.cursor = s.next
      /\ ClearStale(t) => s.pc = "clear" /\ n.pc = "attempt"
      /\ BeginDelete(t) \/ SendDelete(t) \/ ClearDeleted(t) \/ (\E op \in Operations : Edit(t, op))
           => n = s

\* What a session is after a step of its sync.
LEMMA SessionsAre ==
  ASSUME Inv, NEW t \in Tabs, TabSteps(t)
  PROVE  SessionIs(t)
<1> USE DEF Phases, HasGeneration, HasCursor, HasPage
<1> DEFINE s == session[t]
           n == session'[t]
           d == DeviceOf[t]
<1>1. SessionInv(t) /\ DOMAIN session = Tabs
  BY DEF Inv, FunctionsOK
<1>2. ASSUME NEW fields, Move(t, fields)
      PROVE  /\ n = Updated(s, fields) /\ DOMAIN session' = Tabs
             /\ \A u \in Tabs \ {t} : session'[u] = session[u]
  BY <1>1, <1>2 DEF Move
<1>3. \A u \in Tabs \ {t} : session'[u] = session[u]
  <2>1. CASE UNCHANGED session
    BY <2>1
  <2>2. CASE session' # session
    BY <1>1, <1>2, <2>2 DEF TabSteps, Stops, StartSync, Tries, ReadGeneration, ReadCursor, Sends,
       SetGeneration, ImportPage, MarkSynced, SetCursor, ClearStale, BeginDelete, SendDelete,
       ClearDeleted, Edit, Move
  <2> QED
    BY <2>1, <2>2
<1>4. Stops(t) => n = s \/ n.pc = "idle"
  BY <1>1 DEF Stops, Idle
<1>5. StartSync(t) => n.pc = "attempt"
  BY <1>1 DEF StartSync
<1>6. Tries(t) => n.pc = "generation" /\ n.stale = generation[d]
  <2> SUFFICES ASSUME Tries(t) PROVE n.pc = "generation" /\ n.stale = generation[d]
    OBVIOUS
  <2>1. n = Updated(s, [pc |-> "generation", attempt |-> s.attempt + 1,
                        stale |-> generation[d]])
    BY <1>2 DEF Tries
  <2> HIDE DEF n, s
  <2> QED
    BY <2>1 DEF Updated
<1>7. ReadGeneration(t) => /\ s.pc = "generation" /\ n.pc = "cursor"
                           /\ n.stale = s.stale /\ n.generation = generation[d]
  <2> SUFFICES ASSUME ReadGeneration(t)
               PROVE  /\ s.pc = "generation" /\ n.pc = "cursor"
                      /\ n.stale = s.stale /\ n.generation = generation[d]
    OBVIOUS
  <2>1. /\ n = Updated(s, [pc |-> "cursor", generation |-> generation[d]])
        /\ s.pc = "generation" /\ "stale" \in DOMAIN s
    BY <1>1, <1>2 DEF ReadGeneration, SessionInv
  <2> HIDE DEF n, s
  <2> QED
    BY <2>1 DEF Updated
<1>8. ReadCursor(t) => /\ s.pc = "cursor" /\ n.pc = "queue" /\ n.stale = s.stale
                       /\ n.generation = s.generation /\ n.cursor = cursor[d]
  <2> SUFFICES ASSUME ReadCursor(t)
               PROVE  /\ s.pc = "cursor" /\ n.pc = "queue" /\ n.stale = s.stale
                      /\ n.generation = s.generation /\ n.cursor = cursor[d]
    OBVIOUS
  <2>1. /\ n = Updated(s, [pc |-> "queue", cursor |-> cursor[d], page |-> 0, more |-> FALSE])
        /\ s.pc = "cursor" /\ {"stale", "generation"} \subseteq DOMAIN s
    BY <1>1, <1>2 DEF ReadCursor, SessionInv
  <2> HIDE DEF n, s
  <2> QED
    BY <2>1 DEF Updated
<1>9. Sends(t) => /\ s.pc = "queue" /\ n.pc = "wait" /\ n.stale = s.stale
                  /\ n.generation = s.generation /\ n.cursor = s.cursor
  <2> SUFFICES ASSUME Sends(t)
               PROVE  /\ s.pc = "queue" /\ n.pc = "wait" /\ n.stale = s.stale
                      /\ n.generation = s.generation /\ n.cursor = s.cursor
    OBVIOUS
  <2>1. PICK request : Move(t, [pc |-> "wait", request |-> request]) /\ s.pc = "queue"
    BY DEF Sends
  <2>2. n = Updated(s, [pc |-> "wait", request |-> request])
    BY <1>2, <2>1
  <2> QED
    BY <1>1, <2>1, <2>2 DEF Updated, SessionInv
<1>10. SetGeneration(t) =>
         /\ s.pc = "apply" /\ n.pc \in {"import", "mark", "advance"}
         /\ n.pc # "import" => s.rows = {}
         /\ n.generation = s.reply
         /\ n.stale = s.stale /\ n.cursor = s.cursor /\ n.next = s.next
         /\ n.rows = s.rows /\ n.sent = s.sent /\ n.reply = s.reply
  <2> SUFFICES ASSUME SetGeneration(t)
               PROVE  /\ s.pc = "apply" /\ n.pc \in {"import", "mark", "advance"}
                      /\ n.pc # "import" => s.rows = {}
                      /\ n.generation = s.reply
                      /\ n.stale = s.stale /\ n.cursor = s.cursor /\ n.next = s.next
                      /\ n.rows = s.rows /\ n.sent = s.sent /\ n.reply = s.reply
    OBVIOUS
  <2>1. /\ s.pc = "apply"
        /\ Move(t, [pc |-> IF s.rows # {} THEN "import" ELSE AfterImport(t),
                    generation |-> s.reply])
    BY DEF SetGeneration
  <2>2. n = Updated(s, [pc |-> IF s.rows # {} THEN "import" ELSE AfterImport(t),
                        generation |-> s.reply])
    BY <1>2, <2>1
  <2>3. AfterImport(t) \in {"mark", "advance"}
    BY DEF AfterImport
  <2> HIDE DEF n
  <2> QED
    BY <1>1, <2>1, <2>2, <2>3 DEF Updated, SessionInv
<1>11. ImportPage(t) \/ MarkSynced(t) =>
         /\ n.stale = s.stale /\ n.cursor = s.cursor /\ n.next = s.next
         /\ n.rows = s.rows /\ n.sent = s.sent /\ n.reply = s.reply
         /\ n.generation = s.generation
         /\ n.pc = "advance" \/ n.pc = AfterImport(t)
         /\ s.pc \in {"import", "mark"}
         /\ ImportPage(t) => s.pc = "import"
         /\ MarkSynced(t) => s.pc = "mark" /\ n.pc = "advance"
  <2> SUFFICES ASSUME ImportPage(t) \/ MarkSynced(t)
               PROVE  /\ n.stale = s.stale /\ n.cursor = s.cursor /\ n.next = s.next
                      /\ n.rows = s.rows /\ n.sent = s.sent /\ n.reply = s.reply
                      /\ n.generation = s.generation
                      /\ n.pc = "advance" \/ n.pc = AfterImport(t)
                      /\ s.pc \in {"import", "mark"}
                      /\ ImportPage(t) => s.pc = "import"
                      /\ MarkSynced(t) => s.pc = "mark" /\ n.pc = "advance"
    OBVIOUS
  <2>1. ImportPage(t) => s.pc = "import" /\ Move(t, [pc |-> AfterImport(t)])
    BY DEF ImportPage
  <2>2. MarkSynced(t) => s.pc = "mark" /\ Move(t, [pc |-> "advance"])
    BY DEF MarkSynced
  <2>3. PICK p : /\ Move(t, [pc |-> p]) /\ p \in {"advance", AfterImport(t)}
                 /\ s.pc \in {"import", "mark"}
                 /\ s.pc = "mark" => p = "advance"
    BY <2>1, <2>2
  <2>4. n = Updated(s, [pc |-> p])
    BY <1>2, <2>3
  <2> HIDE DEF n
  <2>5. /\ n.pc = p /\ n.stale = s.stale /\ n.cursor = s.cursor /\ n.next = s.next
        /\ n.rows = s.rows /\ n.sent = s.sent /\ n.reply = s.reply
        /\ n.generation = s.generation
    BY <1>1, <2>3, <2>4 DEF Updated, SessionInv
  <2> QED
    BY <2>1, <2>2, <2>3, <2>5
<1>12. AfterImport(t) \in {"mark", "advance"}
  BY DEF AfterImport
<1>13. SetCursor(t) => /\ s.pc = "advance" /\ n.pc = "queue" /\ n.stale = s.stale
                       /\ n.generation = s.generation /\ n.cursor = s.next
  BY <1>1 DEF SetCursor
<1>14. ClearStale(t) => s.pc = "clear" /\ n.pc = "attempt"
  BY <1>1 DEF ClearStale
<1>15. BeginDelete(t) \/ SendDelete(t) \/ ClearDeleted(t) \/ (\E op \in Operations : Edit(t, op))
         => n = s
  BY DEF BeginDelete, SendDelete, ClearDeleted, Edit
<1> QED
  BY <1>3, <1>4, <1>5, <1>6, <1>7, <1>8, <1>9, <1>10, <1>11, <1>12, <1>13, <1>14, <1>15
  DEF SessionIs

\* A device and a session hold what belongs to their generation.
LEMMA Holders ==
  /\ \A d \in Devices : /\ base[d] \subseteq RowsOf(generation[d])
                        /\ acked[d] \subseteq AcksOf(generation[d])
  /\ \A t \in Tabs : session[t].pc \in HasPage =>
       /\ session[t].rows \subseteq RowsOf(session[t].reply)
       /\ ToSet(session[t].sent) \subseteq AcksOf(session[t].reply)
BY HeldIs DEF HeldAreHeld

\* The first two layers are kept by a step of a tab.
LEMMA TabKeeps ==
  ASSUME Inv, RowsInv, NEW t \in Tabs, TabSteps(t)
  PROVE  Inv' /\ Grows /\ RowsInv'
<1> DEFINE d == DeviceOf[t]
<1>1. Inv' /\ Grows
  <2>1. ASSUME NEW op \in Operations, Edit(t, op) PROVE Inv' /\ Grows
    BY <2>1, EditKeeps
  <2>2. CASE ~(\E op \in Operations : Edit(t, op))
    <3>1. UNCHANGED <<server, born>>
      BY <2>2 DEF TabSteps, Stops, StartSync, Tries, ReadGeneration, ReadCursor, Sends,
         SetGeneration, ImportPage, MarkSynced, SetCursor, ClearStale, BeginDelete,
         SendDelete, ClearDeleted
    <3> QED
      BY <2>2, <3>1, ServerKept, StopsKeeps, SyncKeeps, RecordKeeps, ClearKeeps, DeleteKeeps
      DEF TabSteps
  <2> QED
    BY <2>1, <2>2
<1>2. SessionIs(t) /\ d \in Devices
  BY SessionsAre, DeviceType
<1>3. UNCHANGED server
  BY DEF TabSteps, Stops, StartSync, Tries, ReadGeneration, ReadCursor, Sends,
     SetGeneration, ImportPage, MarkSynced, SetCursor, ClearStale, BeginDelete,
     SendDelete, ClearDeleted, Edit
<1>4. epoch' = epoch /\ Rows' = Rows /\ log' = log
  BY <1>3 DEF server, Rows
\* Sessions keep their page or have none.
<1>5. \A u \in Tabs : session'[u].pc \in HasPage =>
        /\ session'[u].rows \subseteq RowsOf(session'[u].reply)
        /\ ToSet(session'[u].sent) \subseteq AcksOf(session'[u].reply)
  <2>1. \A u \in Tabs \ {t} : session'[u] = session[u]
    BY <1>2 DEF SessionIs
  <2>2. session'[t].pc \in HasPage =>
          \/ session'[t] = session[t]
          \/ /\ session[t].pc \in HasPage /\ session'[t].rows = session[t].rows
             /\ session'[t].sent = session[t].sent /\ session'[t].reply = session[t].reply
    BY <1>2 DEF SessionIs, TabSteps, HasPage
  <2> QED
    BY <2>1, <2>2, Holders
\* Devices: the page and the acknowledgements of the session, or less.
<1>6. \A e \in Devices : /\ base'[e] \subseteq RowsOf(generation'[e])
                         /\ acked'[e] \subseteq AcksOf(generation'[e])
  <2>1. CASE UNCHANGED <<generation, base, acked>>
    BY <2>1, Holders
  <2>2. CASE ClearStale(t) \/ ClearDeleted(t)
    <3>1. UNCHANGED <<generation, base, acked>> \/ \E g : Clear(d, g)
      BY <2>2 DEF ClearStale, ClearDeleted, store
    <3>2. ASSUME NEW g, Clear(d, g)
          PROVE  \A e \in Devices : /\ base'[e] \subseteq RowsOf(generation'[e])
                                    /\ acked'[e] \subseteq AcksOf(generation'[e])
      <4>1. issued \in Nat
        BY DEF Inv, ServerInv
      <4>2. /\ base'[d] = {} /\ acked'[d] = {}
            /\ \A e \in Devices \ {d} : UNCHANGED <<generation[e], acked[e], base[e]>>
        BY <1>2, <3>2, <4>1, ClearedIs
      <4> QED
        BY <4>2, Holders
    <3> QED
      BY <2>1, <3>1, <3>2
  <2>3. CASE SetGeneration(t)
    <3>1. /\ generation' = [generation EXCEPT ![d] = session[t].reply]
          /\ UNCHANGED <<base, acked>> /\ session[t].pc \in HasPage /\ ~Fenced(t)
      BY <2>3 DEF SetGeneration, HasPage
    <3>2. /\ generation[d] = session[t].generation /\ SessionInv(t)
          /\ generation[d] = Unknown => base[d] = {} /\ acked[d] = {}
      BY <3>1, PageOf
    <3>3. session[t].generation \in {Unknown, session[t].reply}
      BY <3>1, <3>2 DEF SessionInv
    <3>4. DOMAIN generation = Devices
      BY DEF Inv, FunctionsOK
    <3>5. \A e \in Devices : \/ generation'[e] = generation[e]
                             \/ base[e] = {} /\ acked[e] = {}
      BY <1>2, <3>1, <3>2, <3>3, <3>4
    <3> QED
      BY <3>1, <3>5, Holders
  <2>4. CASE ImportPage(t)
    <3>1. /\ base' = [base EXCEPT ![d] = base[d] \cup session[t].rows]
          /\ acked' = [acked EXCEPT ![d] = @ \cap ToSet(queue'[d])]
          /\ generation' = generation /\ session[t].pc = "import" /\ ~Fenced(t)
      BY <2>4 DEF ImportPage, Prospective
    <3>2. session[t].pc \in HasPage
      BY <3>1 DEF HasPage
    <3>3. generation[d] = session[t].generation /\ SessionInv(t)
      BY <3>1, <3>2, PageOf
    <3>4. generation[d] = session[t].reply
      BY <3>1, <3>3 DEF SessionInv, HasPage
    <3>5. DOMAIN base = Devices /\ DOMAIN acked = Devices
      BY DEF Inv, FunctionsOK
    <3>6. /\ \A e \in Devices : base'[e] = base[e] \/ (e = d /\ base'[e] = base[e] \cup session[t].rows)
          /\ \A e \in Devices : acked'[e] \subseteq acked[e]
      BY <1>2, <3>1, <3>5
    <3> QED
      BY <3>1, <3>2, <3>4, <3>6, Holders
  <2>5. CASE MarkSynced(t)
    <3>1. /\ acked' = [acked EXCEPT ![d] = @ \cup (ToSet(session[t].sent) \cap Ops(d))]
          /\ UNCHANGED <<generation, base>> /\ session[t].pc = "mark" /\ ~Fenced(t)
      BY <2>5 DEF MarkSynced
    <3>2. session[t].pc \in HasPage
      BY <3>1 DEF HasPage
    <3>3. generation[d] = session[t].generation /\ SessionInv(t)
      BY <3>1, <3>2, PageOf
    <3>4. generation[d] = session[t].reply
      BY <3>1, <3>3 DEF SessionInv, HasPage
    <3>5. DOMAIN acked = Devices
      BY DEF Inv, FunctionsOK
    <3>6. \A e \in Devices : \/ acked'[e] = acked[e]
                             \/ e = d /\ acked'[e] \subseteq acked[e] \cup ToSet(session[t].sent)
      BY <1>2, <3>1, <3>5
    <3> QED
      BY <3>1, <3>2, <3>4, <3>6, Holders
  <2>6. CASE Stops(t) \/ StartSync(t) \/ Tries(t) \/ ReadGeneration(t) \/ ReadCursor(t)
             \/ Sends(t) \/ SetCursor(t) \/ BeginDelete(t) \/ SendDelete(t)
             \/ (\E op \in Operations : Edit(t, op))
    BY <2>1, <2>6 DEF Stops, StartSync, Tries, ReadGeneration, ReadCursor, Sends, SetCursor,
       BeginDelete, SendDelete, Edit, store
  <2> QED
    BY <2>2, <2>3, <2>4, <2>5, <2>6 DEF TabSteps
<1>7. Traceable
  BY <1>5, <1>6 DEF Traceable
<1>8. RowsInv'
  BY <1>1, <1>4, <1>7, RowsKept
<1> QED
  BY <1>1, <1>8

\* And by a step of the service.
LEMMA ServiceKeeps ==
  ASSUME Inv, RowsInv, NEW r \in requests, ServiceSteps(r)
  PROVE  Inv' /\ Grows /\ RowsInv'
<1> DEFINE t == r.tab
<1>0. Inv' /\ Grows
  BY ServeKeeps, ServeDeleteKeeps DEF ServiceSteps
<1>1. UNCHANGED <<generation, base, acked>>
  BY DEF ServiceSteps, Serve, ServeDelete, store
<1>2. \A e \in Devices : /\ base'[e] \subseteq RowsOf(generation'[e])
                         /\ acked'[e] \subseteq AcksOf(generation'[e])
  BY <1>1, Holders
<1>3. ServerInv /\ ServerInv'
  BY <1>0 DEF Inv
<1>4. CASE ServeDelete(r)
  <2>1. epoch' = issued' /\ issued < issued' /\ session' = session
    BY <1>4, ServeDeleteKeeps DEF ServeDelete
  <2>2. epoch' \notin Issued
    BY <1>3, <2>1 DEF ServerInv, Issued
  <2>3. Traceable
    BY <1>2, <2>1, Holders DEF Traceable
  <2> QED
    BY <1>0, <2>2, <2>3, RowsKept
<1>5. CASE Serve(r)
  <2>1. r.kind = "sync" /\ born' = born
    BY <1>5 DEF Serve
  \* It is enough to look at the tab that waits.
  <2>2. ASSUME \A u \in Tabs \ {t} : session'[u] = session[u],
               \/ session'[t] = session[t]
               \/ session'[t].pc \notin HasPage
               \/ /\ session'[t].reply = epoch' /\ session'[t].rows \subseteq Rows'
                  /\ ToSet(session'[t].sent) \subseteq ToSet(log'),
               epoch' # Unknown =>
                 \/ epoch' = epoch /\ Rows \subseteq Rows' /\ ToSet(log) \subseteq ToSet(log')
                 \/ epoch' \notin Issued
        PROVE  Inv' /\ Grows /\ RowsInv'
    <3>1. Traceable
      BY <1>2, <2>2, Holders DEF Traceable
    <3> QED
      BY <1>0, <2>2, <3>1, RowsKept
  <2>3. CASE ServeNew(r)
    <3>1. /\ Grows /\ issued' = issued + 1 /\ epoch' = issued + 1 /\ log' = <<>>
          /\ r.generation \in Issued /\ r.cursor \in Nat
          /\ \/ /\ r.generation = Unknown /\ r.ops = <<>> /\ LastOf({}, r.cursor) = r.cursor
                /\ Reply(r, {}, FALSE)
             \/ Deliver(r, [pc |-> "clear", reply |-> issued + 1])
      BY <2>1, <2>3, NewServed
    <3>2. epoch' \notin Issued
      BY <1>3, <3>1 DEF ServerInv, Issued
    <3>3. CASE /\ r.generation = Unknown /\ r.ops = <<>> /\ LastOf({}, r.cursor) = r.cursor
               /\ Reply(r, {}, FALSE)
      <4>1. PICK g : g = issued + 1
        OBVIOUS
      <4>2. g \in Issued' \ {Unknown} /\ epoch' = g
        BY <1>3, <3>1, <4>1 DEF ServerInv, Issued, Unknown
      <4>3. LastOf({}, r.cursor) \in Nat /\ r.generation \in {Unknown, g}
        BY <3>1, <3>3
      <4>4. /\ \A u \in Tabs \ {t} : session'[u] = session[u]
            /\ \/ session'[t] = session[t]
               \/ session'[t].rows = {} /\ session'[t].sent = r.ops /\ session'[t].reply = g
        <5>1. PICK rows, more : rows = {} /\ more = FALSE
          OBVIOUS
        <5>2. r.kind = "sync" /\ Grows /\ epoch' = g /\ Reply(r, rows, more)
              /\ LastOf(rows, r.cursor) \in Nat
          BY <2>1, <3>1, <3>3, <4>2, <4>3, <5>1
        <5> QED
          BY <4>2, <4>3, <5>1, <5>2, PageDelivered
      <4>5. ToSet(r.ops) = {}
        BY <3>3 DEF ToSet
      <4> QED
        BY <2>2, <3>2, <4>2, <4>4, <4>5
    <3>4. CASE Deliver(r, [pc |-> "clear", reply |-> issued + 1])
      <4>1. PICK response : response = [pc |-> "clear", reply |-> issued + 1]
        OBVIOUS
      <4>2. DOMAIN response = {"pc", "reply"} /\ response.pc = "clear" /\ Deliver(r, response)
        BY <3>4, <4>1
      <4>3. /\ \A u \in Tabs \ {t} : session'[u] = session[u]
            /\ session'[t] = session[t] \/ session'[t].pc = "clear"
        BY <4>2, DeliveryIs
      <4> QED
        BY <2>2, <3>2, <4>3 DEF HasPage
    <3> QED
      BY <3>1, <3>3, <3>4
  <2>4. CASE ServeStale(r) \/ ServeInvalid(r)
    <3>1. PICK response : /\ Deliver(r, response)
                          /\ response \in {[pc |-> "clear", reply |-> epoch], [pc |-> "invalid"]}
      BY <2>4 DEF ServeStale, ServeInvalid
    <3>2. "pc" \in DOMAIN response /\ response.pc \in {"clear", "invalid"}
      BY <3>1
    <3>3. /\ \A u \in Tabs \ {t} : session'[u] = session[u]
          /\ session'[t] = session[t] \/ session'[t].pc \in {"clear", "invalid"}
      BY <3>1, <3>2, DeliveryIs
    <3>4. epoch' = epoch /\ Rows' = Rows /\ log' = log
      BY <2>4 DEF ServeStale, ServeInvalid, server, Rows
    <3> QED
      BY <2>2, <3>3, <3>4 DEF HasPage
  <2>5. CASE ServeBatch(r)
    <3>1. /\ Grows /\ issued' = issued /\ epoch' = epoch /\ epoch = issued
          /\ epoch # Unknown /\ r.generation \in {Unknown, epoch}
          /\ Rows \subseteq Rows' /\ ToSet(log') = ToSet(log) \cup ToSet(r.ops)
          /\ \E rows, more : /\ Reply(r, rows, more) /\ rows \subseteq Rows'
                             /\ LastOf(rows, r.cursor) \in Nat
      BY <2>1, <2>5, BatchServed
    <3>2. PICK rows, more : /\ Reply(r, rows, more) /\ rows \subseteq Rows'
                            /\ LastOf(rows, r.cursor) \in Nat
      BY <3>1
    <3>3. PICK g : g = epoch
      OBVIOUS
    <3>4. g \in Issued' \ {Unknown} /\ epoch' = g /\ r.generation \in {Unknown, g}
      BY <1>3, <3>1, <3>3 DEF ServerInv, Issued
    <3>5. /\ \A u \in Tabs \ {t} : session'[u] = session[u]
          /\ \/ session'[t] = session[t]
             \/ session'[t].rows = rows /\ session'[t].sent = r.ops /\ session'[t].reply = g
      BY <2>1, <3>1, <3>2, <3>4, PageDelivered
    <3> QED
      BY <2>2, <3>1, <3>2, <3>4, <3>5
  <2> QED
    BY <1>5, <2>3, <2>4, <2>5 DEF Serve
<1> QED
  BY <1>0, <1>4, <1>5 DEF ServiceSteps

\* Every step keeps the first two layers,
LEMMA InvNext ==
  ASSUME Inv, RowsInv, Next
  PROVE  Inv' /\ Grows /\ RowsInv'
<1>1. CASE Forget
  <2>1. Inv' /\ Grows
    BY <1>1, ForgetKeeps
  <2>2. epoch' = Unknown /\ UNCHANGED <<generation, base, acked, session>>
    BY <1>1 DEF Forget, store
  <2>3. Traceable
    BY <2>2, Holders DEF Traceable
  <2> QED
    BY <2>1, <2>2, <2>3, RowsKept
<1> QED
  BY <1>1, StepsAre, TabKeeps, ServiceKeeps

\* so does a stutter,
LEMMA InvStutter ==
  ASSUME Inv, RowsInv, UNCHANGED vars
  PROVE  Inv' /\ RowsInv'
<1>1. /\ issued' = issued /\ epoch' = epoch /\ first' = first /\ log' = log
      /\ generation' = generation /\ cursor' = cursor /\ base' = base /\ queue' = queue
      /\ acked' = acked /\ lock' = lock /\ session' = session /\ deletion' = deletion
      /\ requests' = requests /\ born' = born /\ breached' = breached
  BY DEF vars, server, store
<1>2. wanted' = wanted
  BY Zenon DEF vars
<1>3. FunctionsOK'
  <2>1. wanted' \in [Tabs -> BOOLEAN]
    BY <1>2, Zenon DEF Inv, FunctionsOK
  <2> QED
    BY <1>1, <2>1 DEF Inv, FunctionsOK
<1>4. Grows /\ ServerInv' /\ issued \in Nat
  BY <1>1, ServerKept DEF Inv, ServerInv, server
<1>5. \A d \in Devices : DeviceInv(d)'
  BY <1>1, <1>4, DeviceKept DEF Inv
<1>6. \A t \in Tabs : SessionInv(t)' /\ DeletionInv(t)'
  BY <1>1, <1>4, SessionKept, DeletionKept DEF Inv
<1>7. \A r \in requests' : RequestInv(r)'
  BY <1>1, <1>4, RequestKept DEF Inv
<1>8. Inv'
  BY <1>3, <1>4, <1>5, <1>6, <1>7 DEF Inv
<1>9. Traceable
  BY <1>1, Holders DEF Traceable
<1>10. Rows' = Rows
  BY <1>1 DEF Rows
<1> QED
  BY <1>1, <1>4, <1>8, <1>9, <1>10, RowsKept

\* and they hold of an empty device and an empty service.
LEMMA InvInit ==
  ASSUME Init
  PROVE  Inv /\ RowsInv
<1>1. ServerInv
  <2>1. log \in Seq(Operations) /\ IsInjective(log) /\ ToSet(log) = {}
    BY DEF Init, IsInjective, ToSet
  <2>2. born \in [Operations -> Issued]
    BY DEF Init, Issued, Unknown
  <2> QED
    BY <2>1, <2>2 DEF Init, ServerInv
<1>2. FunctionsOK
  BY DEF Init, FunctionsOK
<1>3. \A d \in Devices : DeviceInv(d)
  <2> SUFFICES ASSUME NEW d \in Devices PROVE DeviceInv(d)
    OBVIOUS
  <2>1. queue[d] = <<>> /\ acked[d] = {} /\ base[d] = {} /\ generation[d] = Unknown
        /\ cursor[d] = 0 /\ lock[d] = NoTab /\ issued = 0
    BY DEF Init
  <2>2. queue[d] \in Seq(Edits[d]) /\ IsInjective(queue[d]) /\ Ops(d) = {}
    BY <2>1 DEF IsInjective, Ops, ToSet
  <2> QED
    BY <2>1, <2>2 DEF DeviceInv, Issued, Unknown
<1>4. \A t \in Tabs : SessionInv(t) /\ DeletionInv(t)
  BY DEF Init, SessionInv, DeletionInv, Idle, NoDeletion, Phases, HasGeneration, HasCursor, HasPage
<1>5. requests = {}
  BY DEF Init
<1>6. RowsInv
  <2>1. /\ Rows = {} /\ \A d \in Devices : base[d] = {} /\ acked[d] = {}
        /\ \A t \in Tabs : session[t].pc = "idle"
    BY DEF Init, Rows, Idle
  <2>2. \A g : RowsOf(g) = {} /\ AcksOf(g) = {}
    BY <2>1, HeldIs DEF HeldAreHeld, HasPage
  <2> QED
    BY <2>2 DEF RowsInv
<1> QED
  BY <1>1, <1>2, <1>3, <1>4, <1>5, <1>6 DEF Inv

\* The state of every tab, of every device, of what is under way and of the
\* service agree after any sequence of steps: what a device or a response
\* numbers is in the service's log while its generation lasts.
THEOREM Invariant == Spec => [](Inv /\ RowsInv)
<1>1. Init => Inv /\ RowsInv
  BY InvInit
<1>2. Inv /\ RowsInv /\ [Next]_vars => (Inv /\ RowsInv)'
  BY InvNext, InvStutter
<1> QED
  BY <1>1, <1>2, PTL DEF Spec

\* What a device takes for saved, the service has.
LEMMA SavedIsStored ==
  ASSUME Inv, RowsInv, NEW d \in Devices, generation[d] = epoch, epoch # Unknown
  PROVE  /\ base[d] \subseteq Rows
         /\ acked[d] \cup {row.op : row \in base[d]} \subseteq ToSet(log)
<1>1. generation[d] \in Issued /\ ServerInv
  BY DEF Inv, DeviceInv
<1>2. base[d] \subseteq RowsOf(epoch) /\ acked[d] \subseteq AcksOf(epoch)
  BY Holders
<1>3. base[d] \subseteq Rows /\ acked[d] \subseteq ToSet(log)
  BY <1>1, <1>2 DEF RowsInv
<1>4. \A row \in Rows : row.op \in ToSet(log)
  BY <1>1, ServiceRows
<1> QED
  BY <1>3, <1>4

\* markSynced and importEvents: what a device shows as saved is in the service's
\* log for as long as both are in the same generation.
THEOREM Durable == Spec => []AckedIsDurable
<1>1. Inv /\ RowsInv => AckedIsDurable
  BY SavedIsStored DEF AckedIsDurable
<1> QED
  BY <1>1, Invariant, PTL

\* importEvents takes an operation that comes back out of the queue, and the
\* service numbers an operation once: an operation has one place on a device.
THEOREM OnePlace == Spec => []OneCopy
<1>1. ASSUME Inv, RowsInv PROVE OneCopy
  <2> SUFFICES ASSUME NEW d \in Devices
               PROVE  /\ IsInjective(queue[d])
                      /\ \A r, s \in base[d] : r.op = s.op => r = s
                      /\ Ops(d) \cap {row.op : row \in base[d]} = {}
    BY <1>1 DEF OneCopy
  <2>1. DeviceInv(d)
    BY <1>1 DEF Inv
  <2>2. base[d] \subseteq RowsOf(generation[d]) /\ generation[d] \in Issued
    BY <2>1, Holders DEF DeviceInv
  <2>3. \A r, s \in base[d] : r.op = s.op => r = s
    BY <1>1, <2>2 DEF RowsInv
  <2> QED
    BY <2>1, <2>3 DEF DeviceInv
<1> QED
  BY <1>1, Invariant, PTL

\* An empty device replays.
LEMMA EmptyReplays == LegalFrom(ViewOf({}, <<>>), 1)
<1>1. Cardinality({}) = 0
  BY FS_EmptySet
<1>2. OpsOf({}) = <<>>
  BY <1>1 DEF OpsOf
<1>3. ViewOf({}, <<>>) = <<>>
  BY <1>2 DEF ViewOf
<1> QED
  BY <1>3 DEF LegalFrom

\* Only importEvents adds rows, and it checks first that they replay; edits
\* are checked when they are made.
LEMMA ReplaysNext ==
  ASSUME Inv, LocalReplays, Next
  PROVE  LocalReplays'
<1> SUFFICES ASSUME NEW e \in Devices
             PROVE  LegalFrom(ViewOf(base'[e], queue'[e]), 1)
  BY DEF LocalReplays, LegalFrom, ViewOf
<1>1. LegalFrom(ViewOf(base[e], queue[e]), 1)
  BY DEF LocalReplays
<1>2. CASE UNCHANGED <<base, queue>>
  BY <1>1, <1>2
<1>3. DOMAIN base = Devices /\ DOMAIN queue = Devices /\ issued \in Nat
  BY DEF Inv, FunctionsOK, ServerInv
<1>4. ASSUME NEW t \in Tabs, TabSteps(t)
      PROVE  LegalFrom(ViewOf(base'[e], queue'[e]), 1)
  <2> DEFINE d == DeviceOf[t]
  <2>0. d \in Devices
    BY DeviceType
  <2>1. CASE ImportPage(t)
    <3>1. /\ base' = [base EXCEPT ![d] = Prospective(t).base]
          /\ queue' = [queue EXCEPT ![d] = Prospective(t).queue]
          /\ LegalFrom(ViewOf(Prospective(t).base, Prospective(t).queue), 1)
      BY <2>1 DEF ImportPage, Replays
    <3> QED
      BY <1>1, <1>3, <2>0, <3>1
  <2>2. ASSUME NEW op \in Operations, Edit(t, op)
        PROVE  LegalFrom(ViewOf(base'[e], queue'[e]), 1)
    <3>1. /\ base' = base /\ queue' = [queue EXCEPT ![d] = Append(queue[d], op)]
          /\ LegalFrom(ViewOf(base[d], Append(queue[d], op)), 1)
      BY <2>2 DEF Edit
    <3>2. PICK more : more = Append(queue[d], op)
      OBVIOUS
    <3>3. /\ base' = base /\ queue' = [queue EXCEPT ![d] = more]
          /\ LegalFrom(ViewOf(base[d], more), 1)
      BY <3>1, <3>2
    <3>4. queue'[e] = IF e = d THEN more ELSE queue[e]
      BY <1>3, <2>0, <3>3
    <3> QED
      BY <1>1, <3>3, <3>4
  <2>3. CASE ClearStale(t) \/ ClearDeleted(t)
    <3>1. UNCHANGED <<base, queue>> \/ \E g : Clear(d, g)
      BY <2>3 DEF ClearStale, ClearDeleted, store
    <3>2. ASSUME NEW g, Clear(d, g)
          PROVE  LegalFrom(ViewOf(base'[e], queue'[e]), 1)
      <4>1. /\ base'[d] = {} /\ queue'[d] = <<>>
            /\ \A f \in Devices \ {d} : UNCHANGED <<queue[f], base[f]>>
        BY <1>3, <2>0, <3>2, ClearedIs
      <4>2. (base'[e] = base[e] /\ queue'[e] = queue[e]) \/ (base'[e] = {} /\ queue'[e] = <<>>)
        BY <4>1
      <4> QED
        BY <1>1, <4>2, EmptyReplays
    <3> QED
      BY <1>2, <3>1, <3>2
  <2>4. CASE Stops(t) \/ StartSync(t) \/ Tries(t) \/ ReadGeneration(t) \/ ReadCursor(t)
             \/ Sends(t) \/ SetGeneration(t) \/ MarkSynced(t) \/ SetCursor(t)
             \/ BeginDelete(t) \/ SendDelete(t)
    BY <1>2, <2>4 DEF Stops, StartSync, Tries, ReadGeneration, ReadCursor, Sends, SetGeneration,
       MarkSynced, SetCursor, BeginDelete, SendDelete, store
  <2> QED
    BY <1>4, <2>1, <2>2, <2>3, <2>4 DEF TabSteps
<1>5. ASSUME NEW r \in requests, ServiceSteps(r)
      PROVE  UNCHANGED <<base, queue>>
  BY <1>5 DEF ServiceSteps, Serve, ServeDelete, store
<1>6. Forget => UNCHANGED <<base, queue>>
  BY DEF Forget, store
<1> QED
  BY <1>2, <1>4, <1>5, <1>6, StepsAre

\* The strict replay before every write of lib/db.ts: the local log of a device
\* always replays.
THEOREM Replayable == Spec => []LocalReplays
<1>1. Init => LocalReplays
  <2> SUFFICES ASSUME Init, NEW d \in Devices
               PROVE  LegalFrom(ViewOf(base[d], queue[d]), 1)
    BY DEF LocalReplays
  <2>1. base[d] = {} /\ queue[d] = <<>>
    BY DEF Init
  <2> QED
    BY <2>1, EmptyReplays
<1>2. UNCHANGED vars /\ LocalReplays => LocalReplays'
  BY DEF vars, store, LocalReplays
<1>3. Inv /\ LocalReplays /\ [Next]_vars => LocalReplays'
  BY <1>2, ReplaysNext
<1> QED
  BY <1>1, <1>3, Invariant, PTL DEF Spec

-----------------------------------------------------------------------------
(* Layer three: the fence of a deletion, and generations that only grow.       *)

\* A request carries operations of the device that sent it.
LEMMA RequestOps ==
  ASSUME NEW r, RequestInv(r), r.kind = "sync"
  PROVE  /\ DeviceOf[r.tab] \in Devices
         /\ \A op \in ToSet(r.ops) : op \in Edits[DeviceOf[r.tab]] /\ op \in Operations
<1>1. DeviceOf[r.tab] \in Devices
  BY DeviceType DEF RequestInv
<1>2. \A i \in DOMAIN r.ops : r.ops[i] \in Edits[DeviceOf[r.tab]]
  BY ElementOfSeq DEF RequestInv
<1>3. Edits[DeviceOf[r.tab]] \subseteq Operations
  BY <1>1, DeviceType
<1> QED
  BY <1>1, <1>2, <1>3 DEF ToSet

\* The numbers a session compares.
LEMMA Numbers3 ==
  ASSUME Inv, NEW t \in Tabs
  PROVE  /\ DeviceOf[t] \in Devices /\ generation[DeviceOf[t]] \in Nat
         /\ session[t].pc \notin {"idle", "attempt"} => session[t].stale \in Nat
         /\ session[t].pc \in HasGeneration => session[t].generation \in Nat
         /\ session[t].pc \in HasPage \cup {"clear"} => session[t].reply \in Nat
         /\ deletion[t].pc = "clear" => deletion[t].reply \in Nat
<1>1. DeviceOf[t] \in Devices /\ SessionInv(t) /\ DeletionInv(t) /\ issued \in Nat
  BY DeviceType DEF Inv, ServerInv
<1>2. DeviceInv(DeviceOf[t]) /\ Issued \subseteq Nat
  BY <1>1 DEF Inv, Issued
<1> QED
  BY <1>1, <1>2 DEF DeviceInv, SessionInv, DeletionInv, HasPage, HasGeneration

\* A deletion that lost its lock is remembered.
LEMMA BreachedGrows ==
  ASSUME Next
  PROVE  breached \subseteq breached'
BY DEF Next, StartSync, SyncStep, BeginAttempt, ReadGeneration, ReadCursor, ReadQueue, Refused,
   Blocked, SetGeneration, ImportPage, RejectPage, MarkSynced, SetCursor, ClearStale, BeginDelete,
   DeleteStep, AbortSync, SendDelete, ClearDeleted, Timeout, Crash, Edit, Serve, ServeDelete,
   Lose, Forget

\* A step of a tab raises the generation of its device at most, and only while
\* no other tab deletes.
LEMMA GenerationRises ==
  ASSUME Inv, NEW t \in Tabs, TabSteps(t), DeviceOf[t] \notin breached',
         \A u \in Tabs : DeviceOf[u] = DeviceOf[t] => TabFence(u)
  PROVE  LET d == DeviceOf[t]
         IN  /\ \A e \in Devices \ {d} : generation'[e] = generation[e]
             /\ \/ generation'[d] = generation[d]
                \/ /\ SetGeneration(t) /\ generation[d] = session[t].generation
                   /\ generation'[d] = session[t].reply
                   /\ generation'[d] \in Nat /\ generation'[d] >= generation[d]
                   /\ \A u \in Tabs : DeviceOf[u] = d => deletion[u].pc # "clear"
                \/ /\ ClearStale(t) /\ generation[d] = session[t].stale
                   /\ Clear(d, session[t].reply)
                   /\ generation'[d] = session[t].reply
                   /\ generation'[d] \in Nat /\ generation'[d] > generation[d]
                   /\ lock[d] = NoTab /\ lock'[d] = NoTab
                   /\ \A u \in Tabs : DeviceOf[u] = d => deletion[u].pc # "clear"
                \/ /\ ClearDeleted(t) /\ deletion[t].pc = "clear"
                   /\ Clear(d, deletion[t].reply)
                   /\ generation'[d] = deletion[t].reply
                   /\ generation'[d] \in Nat /\ generation'[d] > generation[d]
                   /\ lock[d] = t
                   /\ \A u \in Tabs : DeviceOf[u] = d => deletion'[u].pc # "clear"
<1> DEFINE d == DeviceOf[t]
<1>1. d \in Devices /\ TabFence(t) /\ SessionInv(t) /\ DeletionInv(t)
      /\ DOMAIN generation = Devices /\ DOMAIN lock = Devices /\ issued \in Nat
      /\ DOMAIN deletion = Tabs
  BY DeviceType DEF Inv, FunctionsOK, ServerInv
<1>2. /\ generation[d] \in Nat
      /\ session[t].pc \notin {"idle", "attempt"} => session[t].stale \in Nat
      /\ session[t].pc \in HasGeneration => session[t].generation \in Nat
      /\ session[t].pc \in HasPage \cup {"clear"} => session[t].reply \in Nat
      /\ deletion[t].pc = "clear" => deletion[t].reply \in Nat
  BY Numbers3
<1>3. \A u \in Tabs : DeviceOf[u] = d => (deletion[u].pc # "none" <=> lock[d] = u)
  BY DEF TabFence
<1>4. CASE SetGeneration(t)
  <2>1. /\ session[t].pc = "apply" /\ ~Locked(t) /\ ~Fenced(t)
        /\ generation' = [generation EXCEPT ![d] = session[t].reply]
    BY <1>4 DEF SetGeneration
  <2>2. session[t].pc \in HasPage
    BY <2>1 DEF HasPage
  <2>3. generation[d] = session[t].generation /\ deletion[t].pc # "clear"
    BY <2>1, <2>2, PageOf
  <2>4. session[t].generation \in {Unknown, session[t].reply} /\ session[t].reply \in Nat
    BY <1>1, <1>2, <2>2 DEF SessionInv
  <2>5. session[t].reply >= generation[d]
    BY <2>3, <2>4 DEF Unknown
  <2>6. lock[d] \in {NoTab, t}
    BY <2>1 DEF Locked
  <2>7. \A u \in Tabs : DeviceOf[u] = d => deletion[u].pc # "clear"
    BY <1>3, <2>3, <2>6, DeviceType DEF NoTab
  <2> QED
    BY <1>1, <1>4, <2>1, <2>3, <2>4, <2>5, <2>7
<1>5. CASE ClearStale(t)
  <2>1. session[t].pc = "clear" /\ ~Locked(t) /\ deletion' = deletion
    BY <1>5 DEF ClearStale
  <2>2. CASE generation[d] # session[t].stale
    BY <1>5, <2>2 DEF ClearStale, store
  <2>3. CASE generation[d] = session[t].stale
    <3>1. /\ Clear(d, session[t].reply) /\ lock' = [lock EXCEPT ![d] = NoTab]
          /\ breached' = IF lock[d] = NoTab THEN breached ELSE breached \cup {d}
      BY <1>5, <2>3 DEF ClearStale
    <3>2. lock[d] = NoTab
      BY <3>1
    <3>3. /\ generation'[d] = session[t].reply
          /\ \A e \in Devices \ {d} : generation'[e] = generation[e]
      BY <1>1, <3>1, ClearedIs
    <3>4. session[t].reply \in Nat /\ session[t].reply > generation[d]
      <4>1. session[t].reply > session[t].generation
        BY <1>1, <2>1 DEF SessionInv
      <4>2. session[t].stale <= session[t].generation
        BY <1>1, <2>1 DEF TabFence, HasGeneration
      <4> QED
        BY <1>2, <2>1, <2>3, <4>1, <4>2 DEF HasGeneration
    <3>5. \A u \in Tabs : DeviceOf[u] = d => deletion[u].pc # "clear"
      BY <1>3, <3>2, DeviceType DEF NoTab
    <3>6. lock'[d] = NoTab
      BY <1>1, <3>1
    <3> QED
      BY <1>5, <2>3, <3>1, <3>2, <3>3, <3>4, <3>5, <3>6
  <2> QED
    BY <2>2, <2>3
<1>6. CASE ClearDeleted(t)
  <2>1. deletion[t].pc = "clear" /\ Clear(d, deletion[t].reply) /\ Release(t)
    BY <1>6 DEF ClearDeleted
  <2>2. /\ generation'[d] = deletion[t].reply
        /\ \A e \in Devices \ {d} : generation'[e] = generation[e]
    BY <1>1, <2>1, ClearedIs
  <2>3. deletion[t].reply \in Nat /\ deletion[t].reply > generation[d] /\ lock[d] = t
    BY <1>1, <1>2, <2>1 DEF TabFence
  <2>4. \A u \in Tabs : DeviceOf[u] = d => deletion'[u].pc # "clear"
    BY <1>1, <1>3, <2>1, <2>3 DEF Release, NoDeletion
  <2> QED
    BY <1>6, <2>1, <2>2, <2>3, <2>4
<1>7. CASE Stops(t) \/ StartSync(t) \/ Tries(t) \/ ReadGeneration(t) \/ ReadCursor(t)
           \/ Sends(t) \/ ImportPage(t) \/ MarkSynced(t) \/ SetCursor(t)
           \/ BeginDelete(t) \/ SendDelete(t) \/ \E op \in Operations : Edit(t, op)
  <2>1. generation' = generation
    BY <1>7 DEF Stops, StartSync, Tries, ReadGeneration, ReadCursor, Sends, ImportPage,
       MarkSynced, SetCursor, BeginDelete, SendDelete, Edit, store
  <2> QED
    BY <2>1
<1> QED
  BY <1>4, <1>5, <1>6, <1>7 DEF TabSteps

\* The lock of a device is that of its deletion.
LEMMA LocksNext ==
  ASSUME Inv, NEW t \in Tabs, TabSteps(t), DeviceOf[t] \notin breached',
         \A u \in Tabs : DeviceOf[u] = DeviceOf[t] => TabFence(u)
  PROVE  /\ \A u \in Tabs : DeviceOf[u] = DeviceOf[t] =>
              /\ deletion'[u].pc # "none" <=> lock'[DeviceOf[t]] = u
              /\ deletion'[u].pc = "clear" => deletion'[u] = deletion[u]
         /\ \A u \in Tabs \ {t} : deletion'[u] = deletion[u]
         /\ \A e \in Devices \ {DeviceOf[t]} : lock'[e] = lock[e]
<1> DEFINE d == DeviceOf[t]
<1>1. /\ d \in Devices /\ DOMAIN lock = Devices /\ DOMAIN deletion = Tabs
      /\ lock[d] \in {NoTab} \cup Tabs
      /\ \A u \in Tabs : DeviceOf[u] = d => (deletion[u].pc # "none" <=> lock[d] = u)
      /\ NoTab \notin Tabs
  BY DeviceType DEF Inv, FunctionsOK, DeviceInv, TabFence, NoTab
<1>2. CASE UNCHANGED <<deletion, lock>>
  BY <1>1, <1>2
<1>3. CASE Release(t)
  <2>1. /\ deletion'[t] = NoDeletion /\ \A u \in Tabs \ {t} : deletion'[u] = deletion[u]
        /\ lock'[d] = IF lock[d] = t THEN NoTab ELSE lock[d]
        /\ \A e \in Devices \ {d} : lock'[e] = lock[e]
    BY <1>1, <1>3 DEF Release
  <2>2. deletion'[t].pc = "none"
    BY <2>1 DEF NoDeletion
  <2> QED
    BY <1>1, <2>1, <2>2
<1>4. CASE BeginDelete(t)
  <2>1. /\ \A u \in Tabs : DeviceOf[u] = d => deletion[u].pc = "none"
        /\ lock' = [lock EXCEPT ![d] = t]
        /\ deletion' = [deletion EXCEPT ![t] = [pc |-> "drain"]]
    BY <1>4 DEF BeginDelete
  <2>2. /\ deletion'[t].pc = "drain" /\ \A u \in Tabs \ {t} : deletion'[u] = deletion[u]
        /\ lock'[d] = t /\ \A e \in Devices \ {d} : lock'[e] = lock[e]
    BY <1>1, <2>1
  <2> QED
    BY <2>1, <2>2
<1>5. CASE SendDelete(t)
  <2>1. /\ deletion[t].pc = "drain" /\ lock' = lock
        /\ deletion'[t].pc = "wait" /\ \A u \in Tabs \ {t} : deletion'[u] = deletion[u]
    BY <1>1, <1>5 DEF SendDelete
  <2> QED
    BY <1>1, <2>1
<1>6. CASE ClearStale(t)
  <2>1. deletion' = deletion
    BY <1>6 DEF ClearStale
  <2>2. lock' = lock \/ (lock[d] = NoTab /\ lock' = [lock EXCEPT ![d] = NoTab])
    BY <1>1, <1>6 DEF ClearStale
  <2>3. \A e \in Devices : lock'[e] = lock[e]
    BY <1>1, <2>2
  <2> QED
    BY <1>1, <2>1, <2>3
<1>7. CASE StartSync(t) \/ Tries(t) \/ ReadGeneration(t) \/ ReadCursor(t) \/ Sends(t)
           \/ SetGeneration(t) \/ ImportPage(t) \/ MarkSynced(t) \/ SetCursor(t)
           \/ (\E op \in Operations : Edit(t, op))
  <2>1. UNCHANGED <<deletion, lock>>
    BY <1>7 DEF StartSync, Tries, ReadGeneration, ReadCursor, Sends, SetGeneration, ImportPage,
       MarkSynced, SetCursor, Edit, Move
  <2> QED
    BY <1>2, <2>1
<1> QED
  BY <1>2, <1>3, <1>4, <1>5, <1>6, <1>7 DEF TabSteps, Stops, ClearDeleted

\* Every step keeps the fences of every tab.
LEMMA TabFencesNext ==
  ASSUME Inv, Inv', NEW t \in Tabs, TabSteps(t), DeviceOf[t] \notin breached',
         \A u \in Tabs : DeviceOf[u] = DeviceOf[t] => TabFence(u),
         NEW u \in Tabs, DeviceOf[u] = DeviceOf[t]
  PROVE  TabFence(u)'
<1> USE DEF HasGeneration, HasPage
<1> DEFINE d == DeviceOf[t]
           s == session[u]
           n == session'[u]
<1>1. TabFence(u) /\ SessionIs(t) /\ d \in Devices
  BY SessionsAre, DeviceType
<1>2. /\ generation[d] \in Nat
      /\ s.pc \notin {"idle", "attempt"} => s.stale \in Nat
      /\ s.pc \in HasGeneration => s.generation \in Nat
      /\ s.pc \in HasPage \cup {"clear"} => s.reply \in Nat
  BY Numbers3
<1>3. generation'[d] \in Nat
  BY <1>1 DEF Inv, DeviceInv, Issued, ServerInv
<1>4. generation'[d] >= generation[d]
  BY <1>2, GenerationRises
<1>5. deletion'[u].pc = "clear" => generation'[d] < deletion'[u].reply
  <2>1. deletion'[u].pc = "clear" => deletion'[u] = deletion[u]
    BY LocksNext
  <2>2. deletion'[u].pc = "clear" => generation'[d] = generation[d]
    BY <2>1, GenerationRises
  <2> QED
    BY <1>1, <2>1, <2>2 DEF TabFence
<1>6. deletion'[u].pc # "none" <=> lock'[d] = u
  BY LocksNext
<1>7. /\ n.pc \notin {"idle", "attempt"} => n.stale <= generation'[d]
      /\ n.pc \in HasGeneration => n.stale <= n.generation /\ n.generation <= generation'[d]
  <2>0. /\ s.pc \notin {"idle", "attempt"} => s.stale <= generation[d]
        /\ s.pc \in HasGeneration => s.stale <= s.generation /\ s.generation <= generation[d]
    BY <1>1 DEF TabFence
  <2>1. CASE n = s
    BY <1>2, <1>3, <1>4, <2>0, <2>1
  <2>2. CASE n # s
    <3>1. u = t
      BY <1>1, <2>2 DEF SessionIs
    <3>2. CASE SetGeneration(t)
      <4>1. /\ s.pc = "apply" /\ n.generation = s.reply /\ n.stale = s.stale
        BY <1>1, <3>1, <3>2 DEF SessionIs
      <4>2. generation'[d] = s.reply
        <5>1. DOMAIN generation = Devices
          BY DEF Inv, FunctionsOK
        <5> QED
          BY <1>1, <3>1, <3>2, <5>1 DEF SetGeneration
      <4>3. n.stale <= generation'[d]
        BY <1>2, <1>3, <1>4, <2>0, <4>1
      <4> QED
        BY <1>3, <4>1, <4>2, <4>3
    <3>3. CASE Stops(t) \/ StartSync(t) \/ ClearStale(t)
      <4>1. n.pc \in {"idle", "attempt"}
        BY <1>1, <2>2, <3>1, <3>3 DEF SessionIs
      <4> QED
        BY <4>1
    <3>4. CASE Tries(t) \/ ReadGeneration(t) \/ ReadCursor(t) \/ Sends(t) \/ ImportPage(t)
               \/ MarkSynced(t) \/ SetCursor(t)
      <4>1. generation'[d] = generation[d]
        BY <3>4 DEF Tries, ReadGeneration, ReadCursor, Sends, ImportPage, MarkSynced, SetCursor,
           store
      <4>2. CASE Tries(t)
        BY <1>1, <1>2, <3>1, <4>1, <4>2 DEF SessionIs
      <4>3. CASE ReadGeneration(t)
        BY <1>1, <1>2, <2>0, <3>1, <4>1, <4>3 DEF SessionIs
      <4>4. CASE ReadCursor(t) \/ Sends(t) \/ ImportPage(t) \/ MarkSynced(t) \/ SetCursor(t)
        BY <1>1, <1>2, <2>0, <3>1, <4>1, <4>4 DEF SessionIs
      <4> QED
        BY <3>4, <4>2, <4>3, <4>4
    <3>5. CASE BeginDelete(t) \/ SendDelete(t) \/ ClearDeleted(t)
               \/ (\E op \in Operations : Edit(t, op))
      BY <1>1, <2>2, <3>1, <3>5 DEF SessionIs
    <3> QED
      BY <3>2, <3>3, <3>4, <3>5 DEF TabSteps
  <2> QED
    BY <2>1, <2>2
<1> QED
  BY <1>5, <1>6, <1>7 DEF TabFence

\* Steps of a tab, for every device.
LEMMA FencesOfTab ==
  ASSUME Inv, Inv', Grows, Fences, NEW t \in Tabs, TabSteps(t), breached \subseteq breached',
         NEW d \in Devices \ breached'
  PROVE  FenceInv(d)'
<1>1. FenceInv(d)
  BY DEF Fences
<1>2. log' = log /\ epoch' = epoch /\ ServerInv
  BY DEF TabSteps, Stops, StartSync, Tries, ReadGeneration, ReadCursor, Sends,
     SetGeneration, ImportPage, MarkSynced, SetCursor, ClearStale, BeginDelete,
     SendDelete, ClearDeleted, Edit, server, Inv
<1>3. ASSUME NEW op \in ToSet(log), op \in Edits[d]
      PROVE  born'[op] = epoch
  <2>1. op \in Operations /\ born[op] # Unknown
    BY <1>2, <1>3, DeviceType DEF ServerInv
  <2> QED
    BY <1>1, <1>3, <2>1 DEF Grows, FenceInv
<1>4. ASSUME NEW r \in requests', r.kind = "sync", DeviceOf[r.tab] = d, NEW op \in ToSet(r.ops)
      PROVE  born'[op] >= r.generation
  <2>1. CASE r \in requests
    <3>1. RequestInv(r)
      BY <2>1 DEF Inv
    <3>2. op \in Operations /\ born[op] # Unknown
      BY <1>4, <3>1, RequestOps DEF RequestInv
    <3>3. born[op] >= r.generation
      BY <1>1, <1>4, <2>1 DEF FenceInv
    <3> QED
      BY <3>2, <3>3 DEF Grows
  <2>2. CASE r \notin requests
    <3>1. Sends(t) \/ (r = [kind |-> "delete", tab |-> t])
      BY <1>4, <2>2 DEF TabSteps, Stops, StartSync, Tries, ReadGeneration, ReadCursor,
         SetGeneration, ImportPage, MarkSynced, SetCursor, ClearStale, BeginDelete,
         SendDelete, ClearDeleted, Edit
    <3>2. Sends(t)
      <4>1. r # [kind |-> "delete", tab |-> t]
        BY <1>4
      <4> QED
        BY <3>1, <4>1
    <3>3. /\ r.tab = t /\ r.generation = session[t].generation /\ r.ops = Batch(t)
          /\ born' = born /\ session[t].pc = "queue"
      BY <1>4, <2>2, <3>2 DEF Sends
    <3>4. DeviceInv(d) /\ DeviceOf[t] = d
      BY <1>4, <3>3 DEF Inv
    <3>5. op \in Ops(d)
      BY <1>4, <3>3, <3>4, BatchIs
    <3>6. born[op] = generation[d]
      BY <3>4, <3>5 DEF DeviceInv
    <3>7. session[t].generation <= generation[d]
      BY <1>1, <3>3, <3>4 DEF FenceInv, TabFence, HasGeneration
    <3>8. session[t].generation \in Nat /\ generation[d] \in Nat
      BY <3>3, <3>4, Numbers3 DEF HasGeneration
    <3> QED
      BY <3>3, <3>6, <3>7, <3>8
  <2> QED
    BY <2>1, <2>2
<1>5. ASSUME NEW u \in Tabs, DeviceOf[u] = d PROVE TabFence(u)'
  <2>1. CASE DeviceOf[t] = d
    <3>1. \A v \in Tabs : DeviceOf[v] = DeviceOf[t] => TabFence(v)
      BY <1>1, <2>1 DEF FenceInv
    <3> QED
      BY <1>5, <2>1, <3>1, TabFencesNext
  <2>2. CASE DeviceOf[t] # d
    <3>1. session'[u] = session[u]
      <4>1. SessionIs(t)
        BY SessionsAre
      <4> QED
        BY <1>5, <2>2, <4>1 DEF SessionIs
    <3>2. deletion'[u] = deletion[u] /\ lock'[d] = lock[d] /\ generation'[d] = generation[d]
      <4>1. /\ DOMAIN generation = Devices /\ DOMAIN lock = Devices /\ DOMAIN deletion = Tabs
            /\ DeviceOf[t] \in Devices /\ u # t /\ issued \in Nat
        BY <1>5, <2>2, DeviceType DEF Inv, FunctionsOK, ServerInv
      <4>2. deletion'[u] = deletion[u] /\ lock'[d] = lock[d]
        BY <2>2, <4>1 DEF TabSteps, Stops, StartSync, Tries, ReadGeneration, ReadCursor, Sends,
           SetGeneration, ImportPage, MarkSynced, SetCursor, ClearStale, BeginDelete,
           SendDelete, ClearDeleted, Edit, Move, Release
      <4>3. generation' = generation \/ (\E g : Clear(DeviceOf[t], g)) \/ SetGeneration(t)
        BY DEF TabSteps, Stops, StartSync, Tries, ReadGeneration, ReadCursor, Sends,
           ImportPage, MarkSynced, SetCursor, ClearStale, BeginDelete,
           SendDelete, ClearDeleted, Edit, store
      <4>4. ASSUME NEW g, Clear(DeviceOf[t], g) PROVE generation'[d] = generation[d]
        BY <2>2, <4>1, <4>4, ClearedIs
      <4>5. SetGeneration(t) => generation'[d] = generation[d]
        BY <2>2, <4>1 DEF SetGeneration
      <4> QED
        BY <4>2, <4>3, <4>4, <4>5
    <3>3. TabFence(u)
      BY <1>1, <1>5 DEF FenceInv
    <3> QED
      BY <1>5, <3>1, <3>2, <3>3 DEF TabFence
  <2> QED
    BY <2>1, <2>2
<1> QED
  BY <1>2, <1>3, <1>4, <1>5 DEF FenceInv

\* What an answer leaves of the session that waits for it.
Answered(t) ==
  LET s == session[t]
      n == session'[t]
  IN  \/ n = s
      \/ /\ s.pc = "wait" /\ n.pc \in {"apply", "clear", "invalid"}
         /\ n.stale = s.stale /\ n.generation = s.generation /\ n.cursor = s.cursor

\* An answer to a sync changes one session, from waiting to what it brings.
LEMMA Answers ==
  ASSUME Inv, NEW r \in requests, Serve(r)
  PROVE  /\ r.tab \in Tabs /\ \A u \in Tabs \ {r.tab} : session'[u] = session[u]
         /\ Answered(r.tab)
<1> DEFINE t == r.tab
<1>1. r.kind = "sync" /\ born' = born /\ ServerInv /\ ServerInv'
  BY ServeKeeps DEF Serve, Inv
<1>2. Grows /\ RequestInv(r)
  BY ServeKeeps DEF Inv
<1>3. CASE ServeNew(r)
  <2>1. /\ issued' = issued + 1 /\ epoch' = issued + 1
        /\ r.generation \in Issued /\ r.cursor \in Nat
        /\ \/ /\ r.generation = Unknown /\ LastOf({}, r.cursor) = r.cursor
              /\ Reply(r, {}, FALSE)
           \/ Deliver(r, [pc |-> "clear", reply |-> issued + 1])
    BY <1>1, <1>3, NewServed
  <2>2. PICK g : g = issued + 1
    OBVIOUS
  <2>3. g \in Issued' \ {Unknown} /\ g > r.generation /\ epoch' = g
    BY <1>1, <2>1, <2>2 DEF Issued, Unknown, ServerInv
  <2>4. CASE r.generation = Unknown /\ LastOf({}, r.cursor) = r.cursor /\ Reply(r, {}, FALSE)
    <3>1. LastOf({}, r.cursor) \in Nat /\ r.generation \in {Unknown, g}
      BY <2>1, <2>4
    <3> QED
      BY <1>1, <1>2, <2>3, <2>4, <3>1, PageDelivered DEF Answered
  <2>5. CASE Deliver(r, [pc |-> "clear", reply |-> issued + 1])
    <3>1. PICK response : response = [pc |-> "clear", reply |-> g]
      OBVIOUS
    <3>2. /\ Deliver(r, response) /\ DOMAIN response = {"pc", "reply"}
          /\ response.pc = "clear" /\ response.reply = g
      BY <2>2, <2>5, <3>1
    <3> QED
      BY <1>1, <1>2, <2>3, <3>2, RefusalDelivered DEF Answered
  <2> QED
    BY <2>1, <2>4, <2>5
<1>4. CASE ServeStale(r) \/ ServeInvalid(r)
  <2>1. PICK response : /\ Deliver(r, response)
                        /\ \/ ServeStale(r) /\ response = [pc |-> "clear", reply |-> epoch]
                           \/ response = [pc |-> "invalid"]
    BY <1>4 DEF ServeStale, ServeInvalid
  <2>2. /\ DOMAIN response \subseteq {"pc", "reply"} /\ "pc" \in DOMAIN response
        /\ response.pc \in {"clear", "invalid"}
        /\ response.pc = "clear" => "reply" \in DOMAIN response /\ response.reply = epoch
                                    /\ ServeStale(r)
    BY <2>1
  <2>3. response.pc = "clear" => response.reply \in Issued' /\ response.reply > r.generation
    <3>1. ServeStale(r) => epoch \in Issued' /\ epoch > r.generation
      BY <1>1, <1>2 DEF ServeStale, RequestInv, ServerInv, Issued, server, Grows
    <3> QED
      BY <2>2, <3>1
  <2> QED
    BY <1>1, <1>2, <2>1, <2>2, <2>3, RefusalDelivered DEF Answered
<1>5. CASE ServeBatch(r)
  <2>1. /\ issued' = issued /\ epoch' = epoch /\ epoch = issued
        /\ epoch # Unknown /\ r.generation \in {Unknown, epoch}
        /\ \E rows, more : Reply(r, rows, more) /\ LastOf(rows, r.cursor) \in Nat
    BY <1>1, <1>5, BatchServed
  <2>2. PICK rows, more : Reply(r, rows, more) /\ LastOf(rows, r.cursor) \in Nat
    BY <2>1
  <2>3. PICK g : g = epoch
    OBVIOUS
  <2>4. g \in Issued' \ {Unknown} /\ epoch' = g /\ r.generation \in {Unknown, g}
    BY <1>1, <2>1, <2>3 DEF Issued, ServerInv
  <2> QED
    BY <1>1, <1>2, <2>2, <2>4, PageDelivered DEF Answered
<1> QED
  BY <1>3, <1>4, <1>5 DEF Serve

\* No answer raises a generation, and what is added to the log is of the
\* account's.
LEMMA FencesOfService ==
  ASSUME Inv, Inv', Grows, Fences, NEW r \in requests, ServiceSteps(r),
         NEW d \in Devices \ breached'
  PROVE  FenceInv(d)'
<1> DEFINE t == r.tab
<1>1. /\ generation' = generation /\ lock' = lock /\ born' = born /\ breached' = breached
      /\ requests' \subseteq requests /\ t \in Tabs /\ ServerInv /\ issued \in Nat
      /\ DOMAIN deletion = Tabs /\ RequestInv(r)
  BY DEF ServiceSteps, Serve, ServeDelete, store, Inv, RequestInv, ServerInv, FunctionsOK
<1>2. FenceInv(d)
  BY <1>1 DEF Fences
<1>3. ASSUME NEW q \in requests', q.kind = "sync", DeviceOf[q.tab] = d, NEW op \in ToSet(q.ops)
      PROVE  born'[op] >= q.generation
  BY <1>1, <1>2, <1>3 DEF FenceInv
<1>4. CASE ServeDelete(r)
  <2>1. /\ epoch' = issued' /\ issued < issued' /\ log' = <<>> /\ session' = session
        /\ issued' \in Nat
    BY <1>4, ServeDeleteKeeps DEF ServeDelete, Grows
  <2>2. ToSet(log') = {}
    BY <2>1 DEF ToSet
  <2>3. ASSUME NEW u \in Tabs, DeviceOf[u] = d PROVE TabFence(u)'
    <3>1. TabFence(u) /\ generation[d] \in Nat /\ generation[d] <= issued
      BY <1>1, <1>2, <2>3 DEF FenceInv, Inv, DeviceInv, Issued
    <3>2. \/ deletion'[u] = deletion[u]
          \/ deletion[u].pc = "wait" /\ deletion'[u].pc = "clear" /\ deletion'[u].reply = epoch'
      <4>1. PICK g : g = epoch'
        OBVIOUS
      <4>2. deletion' = deletion \/ (/\ deletion[t].pc = "wait"
                                     /\ deletion' = [deletion EXCEPT
                                          ![t] = [pc |-> "clear", reply |-> g]])
        BY <1>4, <4>1 DEF ServeDelete
      <4> QED
        BY <1>1, <4>1, <4>2
    <3> QED
      BY <1>1, <2>1, <2>3, <3>1, <3>2 DEF TabFence
  <2> QED
    BY <1>3, <2>2, <2>3 DEF FenceInv
<1>5. CASE Serve(r)
  <2>1. deletion' = deletion /\ r.kind = "sync"
    BY <1>5 DEF Serve
  <2>2. ASSUME NEW u \in Tabs, DeviceOf[u] = d PROVE TabFence(u)'
    <3>1. Answered(u)
      BY <1>5, Answers DEF Answered
    <3>2. TabFence(u)
      BY <1>2, <2>2 DEF FenceInv
    <3> QED
      BY <1>1, <2>1, <2>2, <3>1, <3>2 DEF TabFence, Answered, HasGeneration
  <2>3. ASSUME NEW op \in ToSet(log'), op \in Edits[d] PROVE born'[op] = epoch'
    <3>1. CASE ServeNew(r)
      <4>1. log' = <<>>
        BY <1>1, <2>1, <3>1, NewServed
      <4> QED
        BY <2>3, <4>1 DEF ToSet
    <3>2. CASE ServeStale(r) \/ ServeInvalid(r)
      <4>1. log' = log /\ epoch' = epoch
        BY <3>2 DEF ServeStale, ServeInvalid, server
      <4> QED
        BY <1>1, <1>2, <2>3, <4>1 DEF FenceInv
    <3>3. CASE ServeBatch(r)
      <4>1. /\ epoch' = epoch /\ epoch = issued /\ r.generation \in {Unknown, epoch}
            /\ ToSet(log') = ToSet(log) \cup ToSet(r.ops)
        BY <1>1, <2>1, <3>3, BatchServed
      <4>2. CASE op \in ToSet(log)
        BY <1>1, <1>2, <2>3, <4>1, <4>2 DEF FenceInv
      <4>3. CASE op \in ToSet(r.ops)
        <5>1. DeviceOf[t] \in Devices /\ op \in Edits[DeviceOf[t]] /\ op \in Operations
          BY <1>1, <2>1, <4>3, RequestOps
        <5>2. DeviceOf[t] = d
          BY <2>3, <5>1, DeviceType
        <5>3. born[op] >= r.generation
          BY <1>2, <2>1, <4>3, <5>2 DEF FenceInv
        <5>4. r.generation # Unknown
          BY <1>1, <2>1, <4>3 DEF RequestInv, ToSet
        <5>5. born[op] \in Nat /\ born[op] <= issued
          BY <1>1, <5>1 DEF ServerInv, Issued
        <5> QED
          BY <1>1, <4>1, <5>3, <5>4, <5>5
      <4> QED
        BY <2>3, <4>1, <4>2, <4>3
    <3> QED
      BY <1>5, <3>1, <3>2, <3>3 DEF Serve
  <2> QED
    BY <1>3, <2>2, <2>3 DEF FenceInv
<1> QED
  BY <1>4, <1>5 DEF ServiceSteps

\* Every step keeps the third layer.
LEMMA FencesNext ==
  ASSUME Inv, RowsInv, Fences, Next
  PROVE  Fences'
<1>1. Inv' /\ Grows /\ breached \subseteq breached'
  BY InvNext, BreachedGrows
<1>2. SUFFICES ASSUME NEW d \in Devices \ breached' PROVE FenceInv(d)'
  BY DEF Fences
<1>3. CASE Forget
  <2>1. /\ log' = <<>> /\ born' = born /\ session' = session /\ deletion' = deletion
        /\ requests' = requests /\ breached' = breached
        /\ UNCHANGED <<generation, lock>>
    BY <1>3 DEF Forget, store
  <2>2. FenceInv(d) /\ ToSet(log') = {}
    BY <1>2, <2>1 DEF Fences, ToSet
  <2>3. \A t \in Tabs : DeviceOf[t] = d => TabFence(t)'
    BY <2>1, <2>2 DEF FenceInv, TabFence
  <2> QED
    BY <2>1, <2>2, <2>3 DEF FenceInv
<1> QED
  BY <1>1, <1>2, <1>3, StepsAre, FencesOfTab, FencesOfService

\* The fence of the devices whose deletions kept their lock.
LEMMA FencesHold == Spec => []Fences
<1>1. Init => Fences
  <2> SUFFICES ASSUME Init, NEW d \in Devices PROVE FenceInv(d)
    BY DEF Fences
  <2>1. \A t \in Tabs : TabFence(t)
    BY DeviceType DEF Init, TabFence, Idle, NoDeletion, HasGeneration, NoTab
  <2>2. requests = {} /\ ToSet(log) = {}
    BY DEF Init, ToSet
  <2> QED
    BY <2>1, <2>2 DEF FenceInv
<1>2. UNCHANGED vars /\ Fences => Fences'
  <2> SUFFICES ASSUME UNCHANGED vars, Fences PROVE Fences'
    OBVIOUS
  <2>1. /\ epoch' = epoch /\ log' = log /\ generation' = generation /\ lock' = lock
        /\ session' = session /\ deletion' = deletion /\ requests' = requests
        /\ born' = born /\ breached' = breached
    BY DEF vars, server, store
  <2> QED
    BY <2>1 DEF Fences, FenceInv, TabFence
<1>3. Inv /\ RowsInv /\ Fences /\ [Next]_vars => Fences'
  BY <1>2, FencesNext
<1> QED
  BY <1>1, <1>3, Invariant, PTL DEF Spec

\* What the service stores was created in the generation it is stored in: a
\* queue of a deleted or expired collection never fills the next one (the 409 and
\* clearAccountData; devices whose deletion lost its lock left out).
THEOREM NotResurrected == Spec => []NoResurrection
<1>1. Fences => NoResurrection
  BY DEF Fences, FenceInv, NoResurrection, ToSet
<1> QED
  BY <1>1, FencesHold, PTL

\* What a step does to the generation and the queue of a device: the generation
\* only rises, and where it does what the queue held is of a past generation.
LEMMA QueueStep ==
  ASSUME Inv, Fences, Next, NEW d \in Devices \ breached'
  PROVE  /\ generation'[d] >= generation[d]
         /\ \A op \in Ops(d) : \/ op \in Ops(d)'
                               \/ \E row \in base'[d] : row.op = op
                               \/ born[op] # epoch
<1>1. /\ d \in Devices /\ breached \subseteq breached' /\ FenceInv(d) /\ DeviceInv(d)
      /\ issued \in Nat /\ ServerInv /\ generation[d] \in Nat
  BY BreachedGrows DEF Fences, Inv, DeviceInv, ServerInv, Issued
<1>2. DOMAIN base = Devices /\ DOMAIN queue = Devices /\ DOMAIN generation = Devices
  BY DEF Inv, FunctionsOK
<1>3. CASE UNCHANGED store
  BY <1>1, <1>3 DEF store, Ops
<1>4. ASSUME NEW t \in Tabs, TabSteps(t), DeviceOf[t] # d
      PROVE  generation'[d] = generation[d] /\ queue'[d] = queue[d]
  <2>1. DeviceOf[t] \in Devices
    BY DeviceType
  <2>2. ASSUME NEW g, Clear(DeviceOf[t], g)
        PROVE  generation'[d] = generation[d] /\ queue'[d] = queue[d]
    BY <1>1, <1>4, <2>1, <2>2, ClearedIs
  <2>3. \/ UNCHANGED <<generation, queue>> \/ (\E g : Clear(DeviceOf[t], g))
        \/ SetGeneration(t) \/ ImportPage(t) \/ \E op \in Operations : Edit(t, op)
    BY <1>4 DEF TabSteps, Stops, StartSync, Tries, ReadGeneration, ReadCursor, Sends,
       MarkSynced, SetCursor, ClearStale, BeginDelete, SendDelete, ClearDeleted, store
  <2>4. SetGeneration(t) \/ ImportPage(t) \/ (\E op \in Operations : Edit(t, op))
          => generation'[d] = generation[d] /\ queue'[d] = queue[d]
    BY <1>1, <1>2, <1>4, <2>1 DEF SetGeneration, ImportPage, Edit
  <2> QED
    BY <2>2, <2>3, <2>4
<1>5. ASSUME NEW t \in Tabs, TabSteps(t), DeviceOf[t] = d
      PROVE  /\ generation'[d] >= generation[d]
             /\ \A op \in Ops(d) : \/ op \in Ops(d)'
                                   \/ \E row \in base'[d] : row.op = op
                                   \/ born[op] # epoch
  <2>1. \A u \in Tabs : DeviceOf[u] = d => TabFence(u)
    BY <1>1 DEF FenceInv
  <2>2. generation'[d] >= generation[d]
    BY <1>1, <1>5, <2>1, GenerationRises
  <2>3. CASE generation'[d] > generation[d]
    <3>1. generation'[d] \in Issued
      <4>1. SessionInv(t) /\ DeletionInv(t)
        BY DEF Inv
      <4>2. /\ SetGeneration(t) => session[t].pc = "apply"
            /\ ClearStale(t) => session[t].pc = "clear"
        BY DEF SetGeneration, ClearStale
      <4>3. /\ SetGeneration(t) => session[t].reply \in Issued
            /\ ClearStale(t) => session[t].reply \in Issued
            /\ deletion[t].pc = "clear" => deletion[t].reply \in Issued
        BY <4>1, <4>2 DEF SessionInv, DeletionInv, HasPage
      <4>4. \/ generation'[d] = generation[d]
            \/ SetGeneration(t) /\ generation'[d] = session[t].reply
            \/ ClearStale(t) /\ generation'[d] = session[t].reply
            \/ deletion[t].pc = "clear" /\ generation'[d] = deletion[t].reply
        BY <1>1, <1>5, <2>1, GenerationRises
      <4> QED
        BY <1>1, <4>3, <4>4 DEF DeviceInv
    <3> QED
      BY <1>1, <2>2, <2>3, <3>1 DEF DeviceInv, ServerInv, Issued
  <2>4. CASE ~(generation'[d] > generation[d])
    <3>1. CASE ImportPage(t)
      <4>1. /\ base'[d] = base[d] \cup session[t].rows
            /\ queue'[d] = Without(queue[d], {row.op : row \in session[t].rows})
        BY <1>1, <1>2, <1>5, <3>1 DEF ImportPage, Prospective
      <4>2. Ops(d)' = Ops(d) \ {row.op : row \in session[t].rows}
        BY <1>1, <4>1, WithoutIs DEF DeviceInv, Ops
      <4> QED
        BY <2>2, <4>1, <4>2
    <3>2. ASSUME NEW op \in Operations, Edit(t, op)
          PROVE  Ops(d) \subseteq Ops(d)'
      <4>1. queue'[d] = Append(queue[d], op) /\ queue[d] \in Seq(Edits[d]) /\ op \in Edits[d]
        BY <1>1, <1>2, <1>5, <3>2 DEF Edit, DeviceInv
      <4> QED
        BY <4>1, AppendIs DEF Ops
    <3>3. CASE UNCHANGED queue
      BY <2>2, <3>3 DEF Ops
    <3>4. \/ UNCHANGED queue \/ ImportPage(t) \/ \E op \in Operations : Edit(t, op)
      <4>1. generation'[d] = generation[d]
        BY <1>1, <1>5, <2>1, <2>4, GenerationRises
      <4>2. ~ClearDeleted(t)
        <5>1. ASSUME ClearDeleted(t) PROVE FALSE
          <6>1. generation'[d] = deletion[t].reply /\ deletion[t].pc = "clear"
            BY <1>1, <1>5, <5>1, ClearedIs DEF ClearDeleted
          <6>2. generation[d] < deletion[t].reply /\ deletion[t].reply \in Nat
            BY <1>5, <2>1, <6>1, Numbers3 DEF TabFence
          <6> QED
            BY <1>1, <4>1, <6>1, <6>2
        <5> QED
          BY <5>1
      <4>3. ClearStale(t) => UNCHANGED queue
        <5>1. ASSUME ClearStale(t), ~(UNCHANGED queue) PROVE FALSE
          <6>1. /\ session[t].pc = "clear" /\ generation[d] = session[t].stale
                /\ Clear(d, session[t].reply)
            BY <1>5, <5>1 DEF ClearStale, store
          <6>2. generation'[d] = session[t].reply
            BY <1>1, <6>1, ClearedIs
          <6>3. /\ session[t].reply > session[t].generation
                /\ session[t].stale <= session[t].generation
                /\ session[t].generation \in Nat /\ session[t].reply \in Nat
            BY <1>5, <2>1, <6>1, Numbers3 DEF Inv, SessionInv, TabFence, HasGeneration
          <6> QED
            BY <1>1, <4>1, <6>1, <6>2, <6>3
        <5> QED
          BY <5>1
      <4> QED
        BY <1>5, <4>2, <4>3 DEF TabSteps, Stops, StartSync, Tries, ReadGeneration, ReadCursor,
           Sends, SetGeneration, MarkSynced, SetCursor, BeginDelete, SendDelete, store
    <3> QED
      BY <2>2, <3>1, <3>2, <3>3, <3>4
  <2> QED
    BY <2>3, <2>4
<1>6. CASE \E t \in Tabs : TabSteps(t)
  <2>1. PICK t \in Tabs : TabSteps(t)
    BY <1>6
  <2>2. CASE DeviceOf[t] # d
    BY <1>1, <1>4, <2>1, <2>2 DEF Ops
  <2> QED
    BY <1>5, <2>1, <2>2
<1>7. CASE Forget \/ \E r \in requests : ServiceSteps(r)
  <2>1. UNCHANGED store
    BY <1>7 DEF Forget, ServiceSteps, Serve, ServeDelete
  <2> QED
    BY <1>3, <2>1
<1> QED
  BY <1>6, <1>7, StepsAre

\* A device's generation never goes back (setSyncGeneration, clearAccountData),
\* whatever its tabs, the other devices and the network do.
THEOREM Monotone == Spec => GenerationMonotone
<1>1. Inv /\ Fences /\ Next => \A d \in Devices \ breached' : generation'[d] >= generation[d]
  BY QueueStep
<1> QED
  BY <1>1, Invariant, FencesHold, PTL DEF Spec, GenerationMonotone

\* A change the service has not acknowledged leaves the queue as a row of the
\* service, or with its generation: no late response erases it.
THEOREM NeverLost == Spec => QueueNeverLost
<1>1. ASSUME Inv, Fences, Next
      PROVE  \A d \in Devices \ breached' : \A op \in ToSet(Pending(d)) :
               \/ op \in ToSet(queue'[d])
               \/ \E row \in base'[d] : row.op = op
               \/ born[op] # epoch
  <2> SUFFICES ASSUME NEW d \in Devices \ breached', NEW op \in ToSet(Pending(d))
               PROVE  \/ op \in ToSet(queue'[d])
                      \/ \E row \in base'[d] : row.op = op
                      \/ born[op] # epoch
    OBVIOUS
  <2>1. queue[d] \in Seq(Edits[d])
    BY <1>1 DEF Inv, DeviceInv
  <2>2. op \in Ops(d)
    BY <2>1, WithoutIs DEF Pending, Ops
  <2> QED
    BY <1>1, <2>2, QueueStep DEF Ops
<1> QED
  BY <1>1, Invariant, FencesHold, PTL DEF Spec, QueueNeverLost

\* The property DeletionFenced where it does hold: as long as no sync of the
\* deleting tab has cleared the lock with the rest of the namespace
\* (clearAccountData), no operation is created while a deletion runs.
FencedUntilBreached ==
  [][\A t \in Tabs : deletion[t].pc # "none" /\ DeviceOf[t] \notin breached =>
       \A op \in Edits[DeviceOf[t]] :
         born[op] = Unknown => born'[op] = Unknown]_vars

\* The deletion of a collection fences the edits of every tab of the device
\* (lockAccountMutations, assertMutationAllowed) until its lock is cleared.
THEOREM FencesDeletion == Spec => FencedUntilBreached
<1>1. ASSUME Inv, Fences, Next, NEW t \in Tabs, deletion[t].pc # "none",
             DeviceOf[t] \notin breached, NEW op \in Edits[DeviceOf[t]], born[op] = Unknown
      PROVE  born'[op] = Unknown
  <2>1. lock[DeviceOf[t]] = t /\ t # NoTab /\ DeviceOf[t] \in Devices
    BY <1>1, DeviceType DEF Fences, FenceInv, TabFence, NoTab
  <2>2. ASSUME NEW u \in Tabs, NEW o \in Operations, Edit(u, o)
        PROVE  born'[op] = Unknown
    <3>1. /\ lock[DeviceOf[u]] = NoTab /\ o \in Edits[DeviceOf[u]] /\ DeviceOf[u] \in Devices
          /\ born' = [born EXCEPT ![o] = generation[DeviceOf[u]]]
      BY <2>2, DeviceType DEF Edit
    <3>2. o # op
      BY <2>1, <3>1, DeviceType
    <3> QED
      BY <1>1, <3>1, <3>2
  <2>3. CASE \E u \in Tabs, o \in Operations : Edit(u, o)
    BY <2>2, <2>3
  <2>4. CASE ~\E u \in Tabs, o \in Operations : Edit(u, o)
    <3>1. born' = born
      BY <1>1, <2>4, StepsAre DEF TabSteps, Stops, StartSync, Tries, ReadGeneration, ReadCursor,
         Sends, SetGeneration, ImportPage, MarkSynced, SetCursor, ClearStale, BeginDelete,
         SendDelete, ClearDeleted, ServiceSteps, Serve, ServeDelete, Forget
    <3> QED
      BY <1>1, <3>1
  <2> QED
    BY <2>3, <2>4
<1>2. Inv /\ Fences /\ Next =>
        \A t \in Tabs : deletion[t].pc # "none" /\ DeviceOf[t] \notin breached =>
          \A op \in Edits[DeviceOf[t]] :
            born[op] = Unknown => born'[op] = Unknown
  BY <1>1
<1> QED
  BY <1>2, Invariant, FencesHold, PTL DEF Spec, FencedUntilBreached

-----------------------------------------------------------------------------
(* Layer four: a cursor has everything below it.                               *)

\* Where a step of a tab leaves the generation of its device alone, it clears
\* nothing: rows are only added, and only one step moves the cursor.
LEMMA StoreStep ==
  ASSUME Inv, NEW t \in Tabs, TabSteps(t), DeviceOf[t] \notin breached',
         \A u \in Tabs : DeviceOf[u] = DeviceOf[t] => TabFence(u),
         generation'[DeviceOf[t]] = generation[DeviceOf[t]]
  PROVE  /\ ~ClearDeleted(t) /\ (ClearStale(t) => UNCHANGED store)
         /\ base[DeviceOf[t]] \subseteq base'[DeviceOf[t]]
         /\ ImportPage(t) =>
              base'[DeviceOf[t]] = base[DeviceOf[t]] \cup session[t].rows
         /\ cursor'[DeviceOf[t]] = IF SetCursor(t) THEN session[t].next
                                   ELSE cursor[DeviceOf[t]]
<1> DEFINE d == DeviceOf[t]
<1>1. /\ d \in Devices /\ issued \in Nat /\ generation[d] \in Nat /\ SessionInv(t)
      /\ DOMAIN base = Devices /\ DOMAIN cursor = Devices /\ TabFence(t)
  BY DeviceType, Numbers3 DEF Inv, ServerInv, FunctionsOK
<1>2. ~ClearDeleted(t)
  <2>1. ASSUME ClearDeleted(t) PROVE FALSE
    <3>1. generation'[d] = deletion[t].reply /\ deletion[t].pc = "clear"
      BY <1>1, <2>1, ClearedIs DEF ClearDeleted
    <3>2. generation[d] < deletion[t].reply /\ deletion[t].reply \in Nat
      BY <1>1, <3>1, Numbers3 DEF TabFence
    <3> QED
      BY <1>1, <3>1, <3>2
  <2> QED
    BY <2>1
<1>3. ClearStale(t) => UNCHANGED store
  <2>1. ASSUME ClearStale(t), ~(UNCHANGED store) PROVE FALSE
    <3>1. /\ session[t].pc = "clear" /\ generation[d] = session[t].stale
          /\ Clear(d, session[t].reply)
      BY <2>1 DEF ClearStale, store
    <3>2. generation'[d] = session[t].reply
      BY <1>1, <3>1, ClearedIs
    <3>3. /\ session[t].reply > session[t].generation
          /\ session[t].stale <= session[t].generation
          /\ session[t].generation \in Nat /\ session[t].reply \in Nat
      BY <1>1, <3>1, Numbers3 DEF SessionInv, TabFence, HasGeneration
    <3> QED
      BY <1>1, <3>1, <3>2, <3>3
  <2> QED
    BY <2>1
<1>4. ImportPage(t) => base'[d] = base[d] \cup session[t].rows /\ cursor' = cursor
  BY <1>1 DEF ImportPage, Prospective
<1>5. SetCursor(t) => base' = base /\ cursor'[d] = session[t].next
  BY <1>1 DEF SetCursor
<1>6. ~ImportPage(t) /\ ~SetCursor(t) => base' = base /\ cursor' = cursor
  BY <1>2, <1>3 DEF TabSteps, Stops, StartSync, Tries, ReadGeneration, ReadCursor,
     Sends, SetGeneration, MarkSynced, BeginDelete, SendDelete, Edit, store
<1>7. ImportPage(t) => ~SetCursor(t)
  BY DEF ImportPage, SetCursor
<1> QED
  BY <1>2, <1>3, <1>4, <1>5, <1>6, <1>7

\* Where it changes the generation, the device starts empty.
LEMMA StartsEmpty ==
  ASSUME Inv, Inv', NEW t \in Tabs, TabSteps(t), DeviceOf[t] \notin breached',
         \A u \in Tabs : DeviceOf[u] = DeviceOf[t] => TabFence(u),
         generation'[DeviceOf[t]] # generation[DeviceOf[t]]
  PROVE  /\ cursor'[DeviceOf[t]] = 0
         /\ \/ /\ SetGeneration(t) /\ generation[DeviceOf[t]] = Unknown
               /\ session[t].generation = Unknown
            \/ session'[t].pc \in {"idle", "attempt"}
         /\ \A u \in Tabs \ {t} : DeviceOf[u] = DeviceOf[t] /\ session[u].pc \in HasGeneration
              => session[u].generation < generation'[DeviceOf[t]]
<1> DEFINE d == DeviceOf[t]
<1>1. /\ d \in Devices /\ issued \in Nat /\ generation[d] \in Nat /\ SessionInv(t)
      /\ DOMAIN cursor = Devices /\ TabFence(t) /\ DeviceInv(d) /\ DeletionInv(t)
      /\ SessionIs(t)
  BY DeviceType, Numbers3, SessionsAre DEF Inv, ServerInv, FunctionsOK
<1>2. generation'[d] \in Nat /\ generation'[d] > generation[d]
  BY <1>1, GenerationRises
<1>3. \A u \in Tabs \ {t} : DeviceOf[u] = d /\ session[u].pc \in HasGeneration
              => session[u].generation < generation'[d]
  BY <1>1, <1>2, Numbers3 DEF TabFence
<1>4. CASE SetGeneration(t)
  <2>1. /\ session[t].pc = "apply" /\ generation[d] = session[t].generation
        /\ generation'[d] = session[t].reply /\ cursor' = cursor
    BY <1>1, <1>4, GenerationRises DEF SetGeneration, ClearStale, ClearDeleted, DeletionInv
  <2>2. session[t].generation = Unknown
    BY <1>1, <2>1 DEF SessionInv, HasPage
  <2> QED
    BY <1>1, <1>3, <1>4, <2>1, <2>2 DEF DeviceInv
<1>5. CASE ~SetGeneration(t)
  <2>1. \/ ClearStale(t) /\ Clear(d, session[t].reply)
        \/ ClearDeleted(t) /\ deletion[t].pc = "clear" /\ Clear(d, deletion[t].reply)
    BY <1>1, <1>5, GenerationRises
  <2>2. cursor'[d] = 0
    BY <1>1, <2>1, ClearedIs
  <2>3. session'[t].pc \in {"idle", "attempt"}
    BY <1>1, <2>1 DEF SessionIs, DeletionInv
  <2> QED
    BY <1>3, <2>2, <2>3
<1> QED
  BY <1>4, <1>5

\* Rows are numbered by their place in the log, behind those of earlier epochs.
LEMMA RowNumbers ==
  ASSUME ServerInv
  PROVE  /\ Newest \in Nat /\ Upto(Rows, 0) = {}
         /\ \A row \in Rows : row.seq \in Nat /\ row.seq <= Newest
<1>1. first \in Nat /\ Len(log) \in Nat /\ DOMAIN log = 1..Len(log)
  BY DEF ServerInv
<1>2. \A i \in DOMAIN log : /\ first + i \in Nat /\ first + i > 0
                            /\ first + i <= first + Len(log)
  BY <1>1
<1>3. \A row \in Rows : \E i \in DOMAIN log : row.seq = first + i
  BY DEF Rows
<1> QED
  BY <1>1, <1>2, <1>3 DEF Upto, Newest

\* A cursor keeps everything below it through the steps of the tabs of its
\* device.
LEMMA TabCursorsNext ==
  ASSUME Inv, Inv', NEW t \in Tabs, TabSteps(t), DeviceOf[t] \notin breached',
         \A u \in Tabs : DeviceOf[u] = DeviceOf[t] => TabFence(u),
         FirstPage, CursorInv(DeviceOf[t]), Rows' = Rows, Newest' = Newest, epoch' = epoch
  PROVE  CursorInv(DeviceOf[t])'
<1> USE DEF HasGeneration, HasCursor, HasPage
<1> DEFINE d == DeviceOf[t]
           s == session[t]
           n == session'[t]
<1>1. /\ d \in Devices /\ SessionInv(t) /\ SessionInv(t)' /\ DeviceInv(d) /\ DeviceInv(d)'
      /\ SessionIs(t) /\ ServerInv /\ TabFence(t) /\ TabCursor(t)
  BY DeviceType, SessionsAre DEF Inv, CursorInv
<1>2. Newest \in Nat /\ Upto(Rows, 0) = {} /\ generation[d] \in Nat /\ generation'[d] \in Nat
  BY <1>1, RowNumbers DEF DeviceInv, Inv, ServerInv, Issued
<1>3. generation'[d] >= generation[d]
  BY <1>2, GenerationRises
<1>4. CASE generation'[d] = generation[d]
  <2>1. /\ base[d] \subseteq base'[d]
        /\ ImportPage(t) => base'[d] = base[d] \cup s.rows
        /\ cursor'[d] = IF SetCursor(t) THEN s.next ELSE cursor[d]
    BY <1>4, StoreStep
  <2>2. SetCursor(t) => generation[d] = s.generation /\ s.pc = "advance" /\ s.generation = s.reply
    BY <1>1 DEF SetCursor, Fenced, SessionInv
  <2>3. SetCursor(t) => generation[d] # Unknown
    BY <1>1, <2>2 DEF SessionInv
  <2>4. generation[d] = epoch /\ epoch # Unknown =>
          cursor'[d] <= Newest /\ Upto(Rows, cursor'[d]) \subseteq base'[d]
    BY <1>1, <2>1, <2>2 DEF CursorInv, TabCursor
  <2>5. ASSUME NEW u \in Tabs \ {t}, DeviceOf[u] = d PROVE TabCursor(u)'
    <3>1. session'[u] = session[u] /\ TabCursor(u)
      BY <1>1, <2>5 DEF SessionIs, CursorInv
    <3> QED
      BY <1>4, <2>1, <2>5, <3>1 DEF TabCursor
  <2>6. generation[d] = Unknown /\ n.pc \in HasCursor => n.cursor = 0
    <3>1. ReadCursor(t) /\ generation[d] = Unknown => n.cursor = 0
      BY <1>1 DEF SessionIs, DeviceInv
    <3> QED
      BY <1>1, <2>3, <3>1 DEF SessionIs, TabSteps, TabCursor
  <2>7. ASSUME generation[d] = epoch, epoch # Unknown, n.pc \in HasCursor, n.generation = epoch
        PROVE  n.cursor <= Newest /\ Upto(Rows, n.cursor) \subseteq base'[d]
    <3>1. CASE SetCursor(t)
      <4>1. n.cursor = s.next
        BY <1>1, <3>1 DEF SessionIs
      <4> QED
        BY <1>1, <2>1, <2>2, <2>7, <3>1, <4>1 DEF TabCursor
    <3>2. CASE ReadCursor(t)
      <4>1. n.cursor = cursor[d]
        BY <1>1, <3>2 DEF SessionIs
      <4> QED
        BY <1>1, <2>1, <2>7, <3>2, <4>1 DEF CursorInv
    <3>3. CASE SetGeneration(t)
      <4>1. n.cursor = s.cursor /\ s.pc = "apply" /\ generation[d] = s.generation
        BY <1>1, <3>3 DEF SessionIs, SetGeneration, Fenced
      <4> QED
        BY <1>1, <2>1, <2>7, <4>1 DEF TabCursor
    <3>4. CASE ~SetCursor(t) /\ ~ReadCursor(t) /\ ~SetGeneration(t)
      <4>1. n.cursor = s.cursor /\ n.generation = s.generation /\ s.pc \in HasCursor
        BY <1>1, <2>7, <3>4 DEF SessionIs, TabSteps
      <4> QED
        BY <1>1, <2>1, <2>7, <4>1 DEF TabCursor
    <3> QED
      BY <3>1, <3>2, <3>3, <3>4
  <2>8. ASSUME generation[d] = epoch, epoch # Unknown, n.pc \in HasPage, n.reply = epoch,
               n.generation = epoch
        PROVE  n.next <= Newest /\ Upto(Rows, n.next) \subseteq base'[d] \cup n.rows
    <3>1. /\ s.pc \in HasPage /\ n.next = s.next /\ n.rows = s.rows /\ n.reply = s.reply
      BY <1>1, <2>8 DEF SessionIs, TabSteps
    <3>2. s.generation = epoch
      <4>1. SetGeneration(t) => generation[d] = s.generation
        BY <1>1 DEF SetGeneration, Fenced
      <4> QED
        BY <1>1, <2>8, <4>1 DEF SessionIs, TabSteps
    <3> QED
      BY <1>1, <2>1, <2>8, <3>1, <3>2 DEF TabCursor
  <2>9. ASSUME generation[d] = epoch, epoch # Unknown, n.pc \in {"mark", "advance"},
               n.reply = epoch
        PROVE  Upto(Rows, n.next) \subseteq base'[d]
    <3>1. CASE ImportPage(t)
      <4>1. s.pc = "import" /\ s.generation = s.reply /\ n.next = s.next /\ n.reply = s.reply
        BY <1>1, <3>1 DEF SessionIs, SessionInv
      <4> QED
        BY <1>1, <2>1, <2>9, <3>1, <4>1 DEF TabCursor
    <3>2. CASE SetGeneration(t)
      <4>1. /\ s.pc = "apply" /\ generation[d] = s.generation /\ s.rows = {}
            /\ n.next = s.next /\ n.reply = s.reply
        BY <1>1, <2>9, <3>2 DEF SessionIs, SetGeneration, Fenced
      <4> QED
        BY <1>1, <2>1, <2>9, <4>1 DEF TabCursor
    <3>3. CASE ~ImportPage(t) /\ ~SetGeneration(t)
      <4>1. s.pc \in {"mark", "advance"} /\ n.next = s.next /\ n.reply = s.reply
        BY <1>1, <2>9, <3>3 DEF SessionIs, TabSteps
      <4> QED
        BY <1>1, <2>1, <2>9, <4>1 DEF TabCursor
    <3> QED
      BY <3>1, <3>2, <3>3
  <2>10. TabCursor(t)'
    BY <1>4, <2>6, <2>7, <2>8, <2>9 DEF TabCursor
  <2> QED
    BY <1>4, <2>4, <2>5, <2>10 DEF CursorInv
<1>5. CASE generation'[d] # generation[d]
  <2>1. /\ cursor'[d] = 0
        /\ \/ SetGeneration(t) /\ generation[d] = Unknown /\ s.generation = Unknown
           \/ n.pc \in {"idle", "attempt"}
        /\ \A u \in Tabs \ {t} : DeviceOf[u] = d /\ session[u].pc \in HasGeneration
             => session[u].generation < generation'[d]
    BY <1>5, StartsEmpty
  <2>2. generation'[d] # Unknown
    BY <1>2, <1>3, <1>5 DEF Unknown
  <2>3. ASSUME NEW u \in Tabs \ {t}, DeviceOf[u] = d PROVE TabCursor(u)'
    <3>1. session'[u] = session[u] /\ SessionInv(u)
      BY <1>1, <2>3 DEF SessionIs, Inv
    <3>2. session[u].pc \in HasGeneration => session[u].generation # generation'[d]
      BY <1>2, <2>1, <2>3, Numbers3
    <3>3. session[u].pc \in {"mark", "advance"} => session[u].reply = session[u].generation
      BY <3>1 DEF SessionInv
    <3> QED
      BY <2>2, <2>3, <3>1, <3>2, <3>3 DEF TabCursor
  <2>4. TabCursor(t)'
    <3>1. CASE n.pc \in {"idle", "attempt"}
      BY <2>2, <3>1 DEF TabCursor
    <3>2. CASE SetGeneration(t) /\ generation[d] = Unknown /\ s.generation = Unknown
      <4>1. /\ s.pc = "apply" /\ n.pc \in {"import", "mark", "advance"}
            /\ n.pc # "import" => s.rows = {}
            /\ n.generation = s.reply /\ n.cursor = s.cursor /\ n.next = s.next
            /\ n.rows = s.rows /\ n.reply = s.reply
        BY <1>1, <3>2 DEF SessionIs
      <4>2. s.cursor = 0
        BY <1>1, <3>2, <4>1 DEF TabCursor
      <4>3. s.reply = epoch => s.next <= Newest /\ Upto(Rows, s.next) \subseteq s.rows
        BY <3>2, <4>1 DEF FirstPage
      <4>4. n.generation = epoch => n.cursor <= Newest /\ Upto(Rows, n.cursor) \subseteq base'[d]
        BY <1>2, <4>1, <4>2
      <4>5. n.reply = epoch =>
              n.next <= Newest /\ Upto(Rows, n.next) \subseteq base'[d] \cup n.rows
        BY <4>1, <4>3
      <4>6. n.pc \in {"mark", "advance"} /\ n.reply = epoch =>
              Upto(Rows, n.next) \subseteq base'[d]
        BY <4>1, <4>3
      <4> QED
        BY <2>2, <4>1, <4>4, <4>5, <4>6 DEF TabCursor
    <3> QED
      BY <2>1, <3>1, <3>2
  <2>5. cursor'[d] <= Newest /\ Upto(Rows, cursor'[d]) \subseteq base'[d]
    BY <1>2, <2>1
  <2> QED
    BY <2>3, <2>4, <2>5 DEF CursorInv
<1> QED
  BY <1>4, <1>5

NumbersOK ==
  ServerInv => /\ Newest \in Nat /\ Upto(Rows, 0) = {}
               /\ \A row \in Rows : row.seq \in Nat /\ row.seq <= Newest

\* The service numbers its rows from above zero up to Newest.
LEMMA NumbersAre == NumbersOK
BY RowNumbers DEF NumbersOK

\* The same of the next state.
LEMMA NumbersNext == NumbersOK'
BY NumbersAre, PTL

\* An answer moves no cursor; the page it brings goes on from the cursor of the
\* request and leaves nothing out.
LEMMA CursorsOfService ==
  ASSUME Inv, Inv', RowsInv, Grows, Cursors, NEW r \in requests, ServiceSteps(r)
  PROVE  Cursors'
<1> USE DEF HasGeneration, HasCursor, HasPage
<1> DEFINE t == r.tab
<1>1. /\ UNCHANGED <<generation, cursor, base>> /\ breached' = breached
      /\ ServerInv /\ ServerInv' /\ t \in Tabs /\ RequestInv(r) /\ born' = born
  BY DEF ServiceSteps, Serve, ServeDelete, store, Inv, RequestInv
<1>2. Newest \in Nat /\ \A row \in Rows : row.seq \in Nat /\ row.seq <= Newest
  BY <1>1, RowNumbers
<1>3. /\ Newest' \in Nat /\ Upto(Rows', 0) = {}
      /\ \A row \in Rows' : row.seq \in Nat /\ row.seq <= Newest'
  <2>1. ServerInv' => /\ Newest' \in Nat /\ Upto(Rows', 0) = {}
                      /\ \A row \in Rows' : row.seq \in Nat /\ row.seq <= Newest'
    BY NumbersNext DEF NumbersOK
  <2> QED
    BY <1>1, <2>1
\* The devices of a generation that has just been opened: none.
<1>4. ASSUME epoch' \notin Issued, NEW d \in Devices
      PROVE  generation'[d] # epoch'
  <2>1. generation[d] \in Issued
    BY DEF Inv, DeviceInv
  <2> QED
    BY <1>1, <1>4, <2>1
<1>5. CASE ServeDelete(r)
  <2>1. epoch' = issued' /\ issued < issued' /\ session' = session
    BY <1>5, ServeDeleteKeeps DEF ServeDelete
  <2>2. epoch' \notin Issued /\ epoch' # Unknown
    BY <1>1, <2>1 DEF ServerInv, Issued, Unknown
  <2>3. \A u \in Tabs : session[u].pc = "apply" => session[u].reply \in Issued
    BY DEF Inv, SessionInv
  <2>4. FirstPage'
    BY <2>1, <2>2, <2>3 DEF FirstPage
  <2>5. ASSUME NEW d \in Devices \ breached PROVE CursorInv(d)'
    <3>1. generation'[d] # epoch' /\ CursorInv(d)
      BY <1>4, <2>2, <2>5 DEF Cursors
    <3> QED
      BY <1>1, <2>1, <3>1 DEF CursorInv, TabCursor
  <2> QED
    BY <1>1, <2>4, <2>5 DEF Cursors
<1>6. ASSUME Serve(r), epoch' \notin Issued, epoch' # Unknown,
             \/ session'[t] = session[t]
             \/ session'[t].pc # "apply"
             \/ session'[t].next <= Newest' /\ Upto(Rows', session'[t].next) = {}
      PROVE  Cursors'
  <2>1. /\ \A u \in Tabs \ {t} : session'[u] = session[u]
        /\ Answered(t)
    BY <1>6, Answers
  <2>2. \A u \in Tabs : session[u].pc = "apply" => session[u].reply # epoch'
    BY <1>6 DEF Inv, SessionInv
  <2>3. FirstPage'
    BY <1>1, <1>6, <2>1, <2>2 DEF FirstPage
  <2>4. ASSUME NEW d \in Devices \ breached PROVE CursorInv(d)'
    <3>1. generation'[d] # epoch' /\ CursorInv(d)
      BY <1>4, <1>6, <2>4 DEF Cursors
    <3>2. ASSUME NEW u \in Tabs, DeviceOf[u] = d PROVE TabCursor(u)'
      <4>1. TabCursor(u) /\ (session'[u] = session[u] \/ Answered(u))
        BY <2>1, <3>1, <3>2 DEF CursorInv
      <4> QED
        BY <1>1, <3>1, <3>2, <4>1 DEF TabCursor, Answered
    <3> QED
      BY <3>1, <3>2 DEF CursorInv
  <2> QED
    BY <1>1, <2>3, <2>4 DEF Cursors
<1>7. CASE Serve(r) /\ ServeNew(r)
  <2>0. r.kind = "sync"
    BY <1>7 DEF Serve
  <2>1. /\ issued' = issued + 1 /\ epoch' = issued + 1 /\ log' = <<>> /\ r.cursor \in Nat
        /\ \/ /\ r.generation = Unknown /\ LastOf({}, r.cursor) = r.cursor
              /\ Reply(r, {}, FALSE)
           \/ Deliver(r, [pc |-> "clear", reply |-> issued + 1])
    BY <1>1, <1>7, <2>0, NewServed
  <2>2. epoch' \notin Issued /\ epoch' # Unknown /\ Rows' = {}
    BY <1>1, <2>1 DEF ServerInv, Issued, Unknown, Rows
  <2>3. CASE r.generation = Unknown /\ LastOf({}, r.cursor) = r.cursor /\ Reply(r, {}, FALSE)
    <3>1. PICK g, rows, more : g = issued + 1 /\ rows = {} /\ more = FALSE
      OBVIOUS
    <3>2. /\ g \in Issued' \ {Unknown} /\ epoch' = g /\ r.generation \in {Unknown, g}
          /\ LastOf(rows, r.cursor) \in Nat /\ Reply(r, rows, more)
      <4>1. g \in Issued' /\ g # Unknown /\ epoch' = g
        BY <1>1, <2>1, <2>2, <3>1 DEF ServerInv, Issued
      <4>2. LastOf(rows, r.cursor) \in Nat /\ Reply(r, rows, more)
        BY <2>1, <2>3, <3>1
      <4> QED
        BY <2>3, <4>1, <4>2
    <3>3. \/ session'[t] = session[t]
          \/ /\ session[t].pc = "wait" /\ session[t].request = r
             /\ session'[t].next = r.cursor
      BY <2>0, <2>1, <2>3, <3>1, <3>2, PageDelivered
    <3>4. session[t].pc = "wait" /\ session[t].request = r => r.cursor = 0
      BY <1>1, <2>3 DEF Inv, SessionInv
    <3>5. session'[t] = session[t] \/ session'[t].next = 0
      BY <3>3, <3>4
    <3>6. Upto(Rows', 0) = {}
      BY <2>2 DEF Upto
    <3> QED
      BY <1>3, <1>6, <1>7, <2>2, <3>5, <3>6
  <2>4. CASE Deliver(r, [pc |-> "clear", reply |-> issued + 1])
    <3>1. PICK response : response = [pc |-> "clear", reply |-> issued + 1]
      OBVIOUS
    <3>2. DOMAIN response = {"pc", "reply"} /\ response.pc = "clear" /\ Deliver(r, response)
      BY <2>4, <3>1
    <3>3. session'[t] = session[t] \/ session'[t].pc = "clear"
      BY <3>2, DeliveryIs
    <3> QED
      BY <1>6, <1>7, <2>2, <3>3
  <2> QED
    BY <2>1, <2>3, <2>4
\* The log is as it was, or longer.
<1>8. ASSUME Serve(r), epoch' = epoch, Rows \subseteq Rows', Newest <= Newest',
             \A row \in Rows' \ Rows : row.seq > Newest,
             \/ session'[t] = session[t]
             \/ session'[t].pc \in {"clear", "invalid"}
             \/ /\ session'[t].pc = "apply"
                /\ \/ session'[t].next <= Newest'
                   \/ /\ session'[t].next = session'[t].cursor
                      /\ session'[t].generation # Unknown
                /\ \A row \in Rows' : row.seq <= session'[t].next
                     => \/ row \in session'[t].rows
                        \/ row.seq <= session'[t].cursor /\ session'[t].generation # Unknown
      PROVE  Cursors'
  <2>1. /\ \A u \in Tabs \ {t} : session'[u] = session[u]
        /\ Answered(t)
    BY <1>8, Answers
  <2>2. \A c : c <= Newest /\ c \in Nat => Upto(Rows', c) = Upto(Rows, c)
    BY <1>2, <1>3, <1>8 DEF Upto
  <2>3. \A u \in Tabs : /\ session[u].pc \in HasCursor => session[u].cursor \in Nat
                        /\ session[u].pc \in HasPage => session[u].next \in Nat
    BY DEF Inv, SessionInv
  <2>4. \A u \in Tabs : /\ session'[u].pc \in HasCursor => session'[u].cursor \in Nat
                        /\ session'[u].pc \in HasPage => session'[u].next \in Nat
    BY DEF Inv, SessionInv
  <2>5. FirstPage'
    <3> SUFFICES ASSUME NEW u \in Tabs, session'[u].pc = "apply", session'[u].reply = epoch,
                        session'[u].generation = Unknown
                 PROVE  /\ session'[u].next <= Newest'
                        /\ Upto(Rows', session'[u].next) \subseteq session'[u].rows
      BY <1>8 DEF FirstPage
    <3>1. CASE session'[u] = session[u]
      <4>1. session[u].next <= Newest /\ Upto(Rows, session[u].next) \subseteq session[u].rows
        BY <3>1 DEF Cursors, FirstPage
      <4> QED
        BY <1>2, <1>3, <1>8, <2>2, <2>3, <3>1, <4>1
    <3>2. CASE session'[u] # session[u]
      BY <1>8, <2>1, <3>2 DEF Upto
    <3> QED
      BY <3>1, <3>2
  <2>6. ASSUME NEW d \in Devices \ breached PROVE CursorInv(d)'
    <3>1. CursorInv(d) /\ cursor[d] \in Nat
      BY <2>6 DEF Cursors, Inv, DeviceInv
    <3>2. generation'[d] = epoch' /\ epoch' # Unknown =>
            cursor'[d] <= Newest' /\ Upto(Rows', cursor'[d]) \subseteq base'[d]
      BY <1>1, <1>2, <1>3, <1>8, <2>2, <3>1 DEF CursorInv
    <3>3. ASSUME NEW u \in Tabs, DeviceOf[u] = d PROVE TabCursor(u)'
      <4>1. TabCursor(u)
        BY <3>1, <3>3 DEF CursorInv
      <4>2. session'[u].pc \in HasCursor =>
              /\ session[u].pc \in HasCursor /\ session'[u].generation = session[u].generation
              /\ session'[u].cursor = session[u].cursor
        BY <2>1, <3>3 DEF Answered
      <4>3. ASSUME generation[d] = epoch, epoch # Unknown, session'[u].pc \in HasCursor,
                   session'[u].generation = epoch
            PROVE  /\ session'[u].cursor <= Newest /\ session'[u].cursor <= Newest'
                   /\ Upto(Rows', session'[u].cursor) \subseteq base[d]
        BY <1>2, <1>3, <1>8, <2>2, <2>4, <3>3, <4>1, <4>2, <4>3 DEF TabCursor
      <4>4. ASSUME generation[d] = epoch, epoch # Unknown, session'[u].pc \in HasPage,
                   session'[u].reply = epoch, session'[u].generation = epoch
            PROVE  /\ session'[u].next <= Newest'
                   /\ Upto(Rows', session'[u].next) \subseteq base[d] \cup session'[u].rows
        <5>1. CASE session'[u] = session[u]
          <6>1. /\ session[u].next <= Newest
                /\ Upto(Rows, session[u].next) \subseteq base[d] \cup session[u].rows
            BY <3>3, <4>1, <4>4, <5>1 DEF TabCursor
          <6> QED
            BY <1>2, <1>3, <1>8, <2>2, <2>3, <4>4, <5>1, <6>1
        <5>2. CASE session'[u] # session[u]
          <6>1. /\ session'[u].next <= Newest' \/ session'[u].next = session'[u].cursor
                /\ \A row \in Rows' : row.seq <= session'[u].next
                     => row \in session'[u].rows \/ row.seq <= session'[u].cursor
            BY <1>8, <2>1, <4>4, <5>2
          <6>2. /\ session'[u].cursor <= Newest'
                /\ Upto(Rows', session'[u].cursor) \subseteq base[d]
            BY <4>3, <4>4
          <6> QED
            BY <6>1, <6>2 DEF Upto
        <5> QED
          BY <5>1, <5>2
      <4>5. ASSUME generation[d] = epoch, epoch # Unknown,
                   session'[u].pc \in {"mark", "advance"}, session'[u].reply = epoch
            PROVE  Upto(Rows', session'[u].next) \subseteq base[d]
        <5>1. session'[u] = session[u]
          BY <2>1, <4>5 DEF Answered
        <5>2. Upto(Rows, session[u].next) \subseteq base[d]
          BY <3>3, <4>1, <4>5, <5>1 DEF TabCursor
        <5>3. session[u].next <= Newest
          <6>1. session[u].generation = session[u].reply
            BY <4>5, <5>1 DEF Inv, SessionInv
          <6> QED
            BY <3>3, <4>1, <4>5, <5>1, <6>1 DEF TabCursor
        <5> QED
          BY <2>2, <2>3, <4>5, <5>1, <5>2, <5>3
      <4>6. generation[d] = Unknown /\ session'[u].pc \in HasCursor => session'[u].cursor = 0
        BY <3>3, <4>1, <4>2 DEF TabCursor
      <4> QED
        BY <1>1, <1>8, <3>3, <4>3, <4>4, <4>5, <4>6 DEF TabCursor
    <3> QED
      BY <3>2, <3>3 DEF CursorInv
  <2> QED
    BY <1>1, <2>5, <2>6 DEF Cursors
<1>9. CASE Serve(r) /\ (ServeStale(r) \/ ServeInvalid(r))
  <2>1. PICK response : /\ Deliver(r, response)
                        /\ response \in {[pc |-> "clear", reply |-> epoch], [pc |-> "invalid"]}
    BY <1>9 DEF ServeStale, ServeInvalid
  <2>2. "pc" \in DOMAIN response /\ response.pc \in {"clear", "invalid"}
    BY <2>1
  <2>3. session'[t] = session[t] \/ session'[t].pc \in {"clear", "invalid"}
    BY <2>1, <2>2, DeliveryIs
  <2>4. epoch' = epoch /\ Rows' = Rows /\ Newest' = Newest
    BY <1>9 DEF ServeStale, ServeInvalid, server, Rows, Newest
  <2> QED
    BY <1>2, <1>8, <1>9, <2>3, <2>4
<1>10. CASE Serve(r) /\ ServeBatch(r)
  <2>0. r.kind = "sync"
    BY <1>10 DEF Serve
  <2>1. /\ epoch' = epoch /\ epoch = issued /\ epoch # Unknown
        /\ r.generation \in {Unknown, epoch} /\ r.cursor \in Nat
        /\ Rows \subseteq Rows' /\ (\A row \in Rows' \ Rows : row.seq > Newest)
        /\ Newest <= Newest'
        /\ \E rows, more :
             /\ Reply(r, rows, more) /\ rows \subseteq Rows'
             /\ LastOf(rows, r.cursor) \in Nat
             /\ LastOf(rows, r.cursor) = r.cursor
                \/ \E row \in rows : row.seq = LastOf(rows, r.cursor)
             /\ \A row \in Rows' : row.seq <= LastOf(rows, r.cursor)
                                     => row.seq <= r.cursor \/ row \in rows
    BY <1>1, <1>10, <2>0, BatchServed
  <2>2. PICK rows, more :
             /\ Reply(r, rows, more) /\ rows \subseteq Rows'
             /\ LastOf(rows, r.cursor) \in Nat
             /\ LastOf(rows, r.cursor) = r.cursor
                \/ \E row \in rows : row.seq = LastOf(rows, r.cursor)
             /\ \A row \in Rows' : row.seq <= LastOf(rows, r.cursor)
                                     => row.seq <= r.cursor \/ row \in rows
    BY <2>1
  <2>3. PICK g : g = epoch
    OBVIOUS
  <2>4. g \in Issued' \ {Unknown} /\ epoch' = g /\ r.generation \in {Unknown, g}
    BY <1>1, <2>1, <2>3 DEF ServerInv, Issued, Grows
  <2>5. \/ session'[t] = session[t]
        \/ /\ session[t].pc = "wait" /\ session[t].request = r
           /\ session'[t].pc = "apply" /\ session'[t].rows = rows
           /\ session'[t].next = LastOf(rows, r.cursor)
           /\ session'[t].generation = r.generation /\ session'[t].cursor = session[t].cursor
    BY <2>0, <2>2, <2>4, PageDelivered
  <2>6. session[t].pc = "wait" /\ session[t].request = r =>
          /\ r.cursor = IF r.generation = Unknown THEN 0 ELSE session[t].cursor
    BY <1>1 DEF Inv, SessionInv
  <2>7. LastOf(rows, r.cursor) = r.cursor \/ LastOf(rows, r.cursor) <= Newest'
    BY <1>3, <2>2
  <2>8. \A row \in Rows' : ~(row.seq <= 0)
    BY <1>3 DEF Upto
  <2>9. session'[t] # session[t] =>
          /\ session'[t].pc = "apply"
          /\ \/ session'[t].next <= Newest'
             \/ /\ session'[t].next = session'[t].cursor
                /\ session'[t].generation # Unknown
          /\ \A row \in Rows' : row.seq <= session'[t].next
               => \/ row \in session'[t].rows
                  \/ row.seq <= session'[t].cursor /\ session'[t].generation # Unknown
    <3>1. CASE r.generation = Unknown
      BY <1>3, <2>2, <2>5, <2>6, <2>7, <2>8, <3>1
    <3>2. CASE r.generation # Unknown
      BY <1>3, <2>2, <2>5, <2>6, <2>7, <3>2
    <3> QED
      BY <3>1, <3>2
  <2> QED
    BY <1>8, <1>10, <2>1, <2>9
<1> QED
  BY <1>5, <1>7, <1>9, <1>10 DEF ServiceSteps, Serve

\* Every step keeps the fourth layer.
LEMMA CursorsNext ==
  ASSUME Inv, RowsInv, Fences, Cursors, Next
  PROVE  Cursors'
<1>1. Inv' /\ Grows /\ breached \subseteq breached'
  BY InvNext, BreachedGrows
<1>2. ASSUME NEW t \in Tabs, TabSteps(t) PROVE Cursors'
  <2>1. /\ epoch' = epoch /\ Rows' = Rows /\ Newest' = Newest
    <3>1. UNCHANGED server
      BY <1>2 DEF TabSteps, Stops, StartSync, Tries, ReadGeneration, ReadCursor, Sends,
         SetGeneration, ImportPage, MarkSynced, SetCursor, ClearStale, BeginDelete,
         SendDelete, ClearDeleted, Edit
    <3> QED
      BY <3>1 DEF server, Rows, Newest
  <2>2. SessionIs(t) /\ DeviceOf[t] \in Devices
    BY <1>2, SessionsAre, DeviceType
  <2>3. session'[t].pc = "apply" => session'[t] = session[t]
    BY <1>2, <2>2 DEF SessionIs, TabSteps
  <2>4. \A u \in Tabs : session'[u].pc = "apply" => session'[u] = session[u]
    BY <2>2, <2>3 DEF SessionIs
  <2>5. FirstPage'
    BY <2>1, <2>4 DEF Cursors, FirstPage
  <2>6. ASSUME NEW d \in Devices \ breached' PROVE CursorInv(d)'
    <3>1. FenceInv(d) /\ CursorInv(d) /\ FirstPage
      BY <1>1, <2>6 DEF Fences, Cursors
    <3>2. CASE DeviceOf[t] = d
      <4>1. \A u \in Tabs : DeviceOf[u] = DeviceOf[t] => TabFence(u)
        BY <3>1, <3>2 DEF FenceInv
      <4> QED
        BY <1>1, <1>2, <2>1, <2>6, <3>1, <3>2, <4>1, TabCursorsNext
    <3>3. CASE DeviceOf[t] # d
      <4>1. /\ generation'[d] = generation[d] /\ cursor'[d] = cursor[d] /\ base'[d] = base[d]
        <5>1. /\ DOMAIN generation = Devices /\ DOMAIN cursor = Devices /\ DOMAIN base = Devices
              /\ issued \in Nat
          BY DEF Inv, FunctionsOK, ServerInv
        <5>2. ASSUME NEW g, Clear(DeviceOf[t], g)
              PROVE  UNCHANGED <<generation[d], cursor[d], base[d]>>
          BY <2>2, <3>3, <5>1, <5>2, ClearedIs
        <5>3. \/ UNCHANGED <<generation, cursor, base>> \/ (\E g : Clear(DeviceOf[t], g))
              \/ SetGeneration(t) \/ ImportPage(t) \/ SetCursor(t)
          BY <1>2 DEF TabSteps, Stops, StartSync, Tries, ReadGeneration, ReadCursor, Sends,
             MarkSynced, ClearStale, BeginDelete, SendDelete, ClearDeleted, Edit, store
        <5>4. SetGeneration(t) \/ ImportPage(t) \/ SetCursor(t)
                => UNCHANGED <<generation[d], cursor[d], base[d]>>
          BY <2>2, <3>3, <5>1 DEF SetGeneration, ImportPage, SetCursor
        <5> QED
          BY <5>2, <5>3, <5>4
      <4>2. ASSUME NEW u \in Tabs, DeviceOf[u] = d PROVE TabCursor(u)'
        <5>1. session'[u] = session[u] /\ TabCursor(u)
          BY <2>2, <3>1, <3>3, <4>2 DEF SessionIs, CursorInv
        <5> QED
          BY <2>1, <4>1, <4>2, <5>1 DEF TabCursor
      <4> QED
        BY <2>1, <3>1, <4>1, <4>2 DEF CursorInv
    <3> QED
      BY <3>2, <3>3
  <2> QED
    BY <2>5, <2>6 DEF Cursors
<1>3. CASE Forget
  <2>1. /\ epoch' = Unknown /\ session' = session /\ breached' = breached
        /\ UNCHANGED <<generation, cursor, base>>
    BY <1>3 DEF Forget, store
  <2>2. \A t \in Tabs : session[t].pc = "apply" => session[t].reply # Unknown
    BY DEF Inv, SessionInv, HasPage
  <2>3. FirstPage'
    BY <2>1, <2>2 DEF FirstPage
  <2>4. \A d \in Devices \ breached : CursorInv(d)'
    BY <2>1 DEF Cursors, CursorInv, TabCursor
  <2> QED
    BY <2>1, <2>3, <2>4 DEF Cursors
<1> QED
  BY <1>1, <1>2, <1>3, StepsAre, CursorsOfService

\* Nothing below a cursor is missing, on any device and in any session.
LEMMA CursorsHold == Spec => []Cursors
<1>1. Init => Cursors
  <2> SUFFICES ASSUME Init PROVE Cursors
    OBVIOUS
  <2>1. /\ \A t \in Tabs : session[t].pc = "idle"
        /\ \A d \in Devices : generation[d] = epoch /\ epoch = Unknown
    BY DEF Init, Idle
  <2>2. FirstPage
    BY <2>1 DEF FirstPage
  <2>3. \A d \in Devices : CursorInv(d)
    BY <2>1 DEF CursorInv, TabCursor, HasCursor, HasGeneration
  <2> QED
    BY <2>2, <2>3 DEF Cursors
<1>2. UNCHANGED vars /\ Cursors => Cursors'
  <2> SUFFICES ASSUME UNCHANGED vars, Cursors PROVE Cursors'
    OBVIOUS
  <2>1. /\ epoch' = epoch /\ first' = first /\ log' = log /\ generation' = generation
        /\ cursor' = cursor /\ base' = base /\ session' = session /\ breached' = breached
    BY DEF vars, server, store
  <2>2. Rows' = Rows /\ Newest' = Newest
    BY <2>1 DEF Rows, Newest
  <2> QED
    BY <2>1, <2>2 DEF Cursors, FirstPage, CursorInv, TabCursor
<1>3. Inv /\ RowsInv /\ Fences /\ Cursors /\ [Next]_vars => Cursors'
  BY <1>2, CursorsNext
<1> QED
  BY <1>1, <1>3, Invariant, FencesHold, PTL DEF Spec

\* A device in the service's generation holds service rows only, and every row
\* up to its cursor: no other tab, restart or late response leaves a hole the
\* next pulls would never fill (setSyncCursor after importEvents).
THEOREM NoHole == Spec => []CursorSound
<1>1. ASSUME Inv, RowsInv, Cursors PROVE CursorSound
  <2> SUFFICES ASSUME NEW d \in Devices \ breached, generation[d] = epoch, epoch # Unknown
               PROVE  /\ base[d] \subseteq Rows
                      /\ {row \in Rows : row.seq <= cursor[d]} \subseteq base[d]
    BY DEF CursorSound
  <2>1. base[d] \subseteq Rows
    BY <1>1, SavedIsStored
  <2>2. Upto(Rows, cursor[d]) \subseteq base[d]
    BY <1>1 DEF Cursors, CursorInv
  <2> QED
    BY <2>1, <2>2 DEF Upto
<1> QED
  BY <1>1, Invariant, CursorsHold, PTL

-----------------------------------------------------------------------------
(* The service of AccountSync keeps the promise of AccountLog.                 *)

\* Replay means the same in both specifications.
LEMMA SameReplay == \A ops, n : Promise!LegalFrom(ops, n) <=> LegalFrom(ops, n)
BY DEF Promise!LegalFrom, Promise!Quantities, Promise!Legal, Promise!After,
       Promise!NeverAdded, LegalFrom, Quantities, Legal, After, NeverAdded

\* The service begins with no log.
LEMMA InitRefines == Init => Promise!Init
<1> SUFFICES ASSUME Init PROVE Promise!Init
  OBVIOUS
<1>1. issued = 0 /\ epoch = 0 /\ log = <<>> /\ log \in Seq(Operations)
  BY DEF Init, Unknown
<1>2. LegalFrom(log, 1)
  BY <1>1 DEF LegalFrom
<1>3. Promise!LegalFrom(log, 1)
  BY <1>2, SameReplay
<1>4. \A i, j \in DOMAIN log : log[i].id = log[j].id => i = j
  BY <1>1
<1> QED
  BY <1>1, <1>3, <1>4 DEF Promise!Init

\* A batch that is accepted extends the log, unless the service has all of it.
LEMMA BatchRefines ==
  ASSUME Inv, Inv', NEW r \in requests, r.kind = "sync", ServeBatch(r)
  PROVE  Promise!Extend("account") \/ UNCHANGED <<issued, epoch, log>>
<1>1. ServerInv /\ ServerInv' /\ RequestInv(r) /\ DeviceOf[r.tab] \in Devices
  BY DeviceType DEF Inv, RequestInv
<1>2. /\ issued' = issued /\ epoch' = epoch /\ epoch # 0
      /\ log' = log \o Fresh(r) /\ LegalFrom(log \o Fresh(r), Len(log) + 1)
  BY DEF ServeBatch, Unknown
<1>3. r.ops \in Seq(Operations)
  <2>1. r.ops \in Seq(Edits[DeviceOf[r.tab]]) /\ Edits[DeviceOf[r.tab]] \subseteq Operations
    BY <1>1, DeviceType DEF RequestInv
  <2> QED
    BY <2>1
<1>4. Fresh(r) \in Seq(Operations)
  BY <1>3, WithoutIs DEF Fresh
<1>5. PICK old, more, extended : old = log /\ more = Fresh(r) /\ extended = old \o more
  OBVIOUS
<1>6. /\ old \in Seq(Operations) /\ more \in Seq(Operations) /\ extended = log'
      /\ extended \in Seq(Operations) /\ IsInjective(extended)
      /\ LegalFrom(extended, Len(old) + 1)
  BY <1>1, <1>2, <1>4, <1>5 DEF ServerInv
<1>7. /\ Len(old) \in Nat /\ Len(more) \in Nat /\ Len(extended) = Len(old) + Len(more)
      /\ SubSeq(extended, 1, Len(old)) = old
      /\ Len(more) = 0 => extended = old
  <2>1. Len(old) \in Nat /\ Len(more) \in Nat
    BY <1>6
  <2>2. Len(extended) = Len(old) + Len(more)
    BY <1>5, <1>6, ConcatProperties
  <2>3. \A i \in 1..Len(old) : extended[i] = old[i]
    <3>1. DOMAIN old = 1..Len(old)
      BY <1>6
    <3>2. \A i \in DOMAIN old : (old \o more)[i] = old[i]
      BY <1>6, ConcatIs
    <3>3. extended = old \o more
      BY <1>5
    <3> QED
      BY <3>1, <3>2, <3>3
  <2>4. SubSeq(extended, 1, Len(old)) = old
    <3>1. /\ SubSeq(extended, 1, Len(old)) \in Seq(Operations)
          /\ Len(SubSeq(extended, 1, Len(old))) = Len(old)
          /\ \A i \in 1..Len(old) : SubSeq(extended, 1, Len(old))[i] = extended[i]
      BY <1>6, <2>1, <2>2
    <3> QED
      BY <1>6, <2>1, <2>3, <3>1, SeqEqual
  <2>5. Len(more) = 0 => extended = old
    BY <1>5, <1>6, EmptySeq, ConcatEmptySeq
  <2> QED
    BY <2>1, <2>2, <2>4, <2>5
<1>8. CASE Len(more) = 0
  BY <1>2, <1>5, <1>6, <1>7, <1>8
<1>9. CASE Len(more) # 0
  <2>1. Len(extended) > Len(old)
    BY <1>7, <1>9
  <2>2. \A i, j \in DOMAIN extended : extended[i].id = extended[j].id => i = j
    <3>1. \A i \in DOMAIN extended : extended[i] \in Operations
      BY <1>6, ElementOfSeq
    <3> QED
      BY <1>6, <3>1, IdType DEF IsInjective
  <2>3. Promise!LegalFrom(extended, Len(old) + 1)
    BY <1>6, SameReplay
  <2>4. /\ log' = extended /\ log = old /\ epoch # 0 /\ UNCHANGED <<issued, epoch>>
    BY <1>2, <1>5, <1>6
  <2>5. Promise!Extend("account")
    BY <1>6, <1>7, <2>1, <2>2, <2>3, <2>4 DEF Promise!Extend
  <2> QED
    BY <2>5
<1> QED
  BY <1>8, <1>9

\* Every step of the system is one of the promise, or stutters.
LEMMA StepRefines ==
  ASSUME Inv, Inv', [Next]_vars
  PROVE  Promise!Next \/ UNCHANGED Promise!vars
<1>1. ServerInv /\ ServerInv' /\ issued \in Nat
  BY DEF Inv, ServerInv
<1>2. CASE UNCHANGED <<issued, epoch, log>>
  BY <1>2 DEF Promise!vars
<1>3. ASSUME issued' > issued, epoch' = issued', log' = <<>>
      PROVE  Promise!Next
  <2>1. Promise!Renew("account")
    BY <1>1, <1>3 DEF Promise!Renew, ServerInv
  <2> QED
    BY <2>1 DEF Promise!Next
<1>4. CASE Forget
  <2>1. epoch' = 0 /\ log' = <<>> /\ issued' = issued
    BY <1>4 DEF Forget, Unknown
  <2>2. Promise!Forget({"account"})
    BY <2>1 DEF Promise!Forget
  <2> QED
    BY <2>2 DEF Promise!Next
<1>5. ASSUME NEW r \in requests, ServeDelete(r) PROVE Promise!Next
  <2>1. epoch' = issued' /\ issued < issued' /\ log' = <<>>
    BY <1>5, ServeDeleteKeeps
  <2> QED
    BY <1>1, <1>3, <2>1 DEF ServerInv
<1>6. ASSUME NEW r \in requests, Serve(r) PROVE Promise!Next \/ UNCHANGED Promise!vars
  <2>1. r.kind = "sync" /\ born' = born
    BY <1>6 DEF Serve
  <2>2. CASE ServeNew(r)
    <3>1. issued' = issued + 1 /\ epoch' = issued + 1 /\ log' = <<>>
      BY <2>1, <2>2, NewServed
    <3> QED
      BY <1>1, <1>3, <3>1
  <2>3. CASE ServeStale(r) \/ ServeInvalid(r)
    BY <1>2, <2>3 DEF ServeStale, ServeInvalid, server
  <2>4. CASE ServeBatch(r)
    BY <1>2, <2>1, <2>4, BatchRefines DEF Promise!Next
  <2> QED
    BY <1>6, <2>2, <2>3, <2>4 DEF Serve
<1>7. ASSUME NEW t \in Tabs, TabSteps(t) PROVE UNCHANGED <<issued, epoch, log>>
  BY <1>7 DEF TabSteps, Stops, StartSync, Tries, ReadGeneration, ReadCursor, Sends,
     SetGeneration, ImportPage, MarkSynced, SetCursor, ClearStale, BeginDelete,
     SendDelete, ClearDeleted, Edit, server
<1>8. UNCHANGED vars => UNCHANGED <<issued, epoch, log>>
  BY DEF vars, server
<1> QED
  BY <1>2, <1>4, <1>5, <1>6, <1>7, <1>8, StepsAre DEF ServiceSteps

\* What the devices of an account see of the service is the abstract log: however
\* requests are repeated, delayed or lost, it only ever extends the log, starts it
\* over under a generation nobody had, or removes it.
THEOREM Promised == Spec => ServiceKeepsPromise
<1>1. Inv /\ Inv' /\ [Next]_vars => [Promise!Next]_(Promise!vars)
  BY StepRefines
<1>2. Spec => Promise!Spec
  BY <1>1, Invariant, InitRefines, PTL DEF Spec, Promise!Spec
<1> QED
  BY <1>2 DEF ServiceKeepsPromise

-----------------------------------------------------------------------------
(* Layer five: the bounds of the model, and types.                             *)

Drains == {t \in Tabs : deletion[t].pc = "drain"}
Deletes == {r \in requests : r.kind = "delete"}

\* The generations issued, and those the service may still have to issue.
Owed == issued + (IF epoch = Unknown THEN 1 ELSE 0) + Cardinality(Drains) + Cardinality(Deletes)

Bounded ==
  /\ faults \in 0..MaxFaults /\ IsFiniteSet(requests) /\ Owed <= MaxGeneration
  /\ generation = [d \in Devices |-> generation[d]]
  /\ cursor = [d \in Devices |-> cursor[d]]

\* Syncs that drain and deletions under way can be counted.
LEMMA Counts ==
  ASSUME IsFiniteSet(requests)
  PROVE  /\ IsFiniteSet(Drains) /\ Cardinality(Drains) \in Nat
         /\ IsFiniteSet(Deletes) /\ Cardinality(Deletes) \in Nat
<1>1. IsFiniteSet(Tabs)
  BY DeviceType
<1>2. Drains \subseteq Tabs /\ Deletes \subseteq requests
  BY DEF Drains, Deletes
<1> QED
  BY <1>1, <1>2, FS_Subset, FS_CardinalityType

LEMMA OneMore ==
  ASSUME NEW S, NEW x, NEW T, IsFiniteSet(S), T = S \cup {x}
  PROVE  Cardinality(T) <= Cardinality(S) + 1 /\ Cardinality(T) \in Nat
<1>1. IsFiniteSet(T) /\ Cardinality(T) = IF x \in S THEN Cardinality(S) ELSE Cardinality(S) + 1
  BY FS_AddElement
<1>2. Cardinality(S) \in Nat
  BY FS_CardinalityType
<1> QED
  BY <1>1, <1>2

\* Faults are counted.
LEMMA FaultsBounded ==
  ASSUME faults \in 0..MaxFaults, [Next]_vars
  PROVE  faults' \in 0..MaxFaults
<1>1. CASE Fault
  BY <1>1, FaultType DEF Fault
<1>2. CASE faults' = faults
  BY <1>2
<1>3. Fault \/ faults' = faults
  BY DEF Next, StartSync, SyncStep, BeginAttempt, ReadGeneration, ReadCursor, ReadQueue, Refused,
     Blocked, SetGeneration, ImportPage, RejectPage, MarkSynced, SetCursor, ClearStale,
     BeginDelete, DeleteStep, AbortSync, SendDelete, ClearDeleted, Timeout, Crash, Edit, Serve,
     ServeDelete, Lose, Forget, vars
<1> QED
  BY <1>1, <1>2, <1>3

\* Every generation that is issued was owed.
LEMMA OwedNext ==
  ASSUME Inv, Bounded, Next
  PROVE  IsFiniteSet(requests') /\ Owed' <= MaxGeneration
<1>1. /\ ServerInv /\ issued \in Nat /\ DOMAIN deletion = Tabs /\ MaxGeneration \in Nat
      /\ IsFiniteSet(requests) /\ Owed <= MaxGeneration /\ IsFiniteSet(Tabs)
  BY BoundType, DeviceType DEF Inv, ServerInv, FunctionsOK, Bounded
<1>2. /\ IsFiniteSet(Drains) /\ Cardinality(Drains) \in Nat
      /\ IsFiniteSet(Deletes) /\ Cardinality(Deletes) \in Nat
  BY <1>1, Counts
<1>3. PICK drains, deletes : drains = Drains /\ deletes = Deletes
  OBVIOUS
\* Where the service does nothing, what is owed is what tabs ask for.
<1>4. ASSUME UNCHANGED server, IsFiniteSet(requests'), Drains' \subseteq drains,
             Deletes' \subseteq deletes
      PROVE  Owed' <= MaxGeneration
  <2>1. Cardinality(Drains') <= Cardinality(drains) /\ Cardinality(Drains') \in Nat
    BY <1>2, <1>3, <1>4, FS_Subset, FS_CardinalityType
  <2>2. Cardinality(Deletes') <= Cardinality(deletes) /\ Cardinality(Deletes') \in Nat
    BY <1>2, <1>3, <1>4, FS_Subset, FS_CardinalityType
  <2> QED
    BY <1>1, <1>2, <1>3, <1>4, <2>1, <2>2 DEF Owed, server
<1>5. Owed <= Committed
  <2> DEFINE asked == {t \in Tabs : deletion[t].pc \in {"drain", "wait"}}
  <2>1. Drains \subseteq asked /\ asked \subseteq Tabs
    BY DEF Drains
  <2>2. Cardinality(Drains) <= Cardinality(asked) /\ Cardinality(asked) \in Nat
    BY <1>1, <2>1, FS_Subset, FS_CardinalityType
  <2>3. Committed = issued + (IF epoch = Unknown THEN 1 ELSE 0) + Cardinality(asked)
                     + Cardinality(Deletes)
    BY DEF Committed, Deletes
  <2> QED
    BY <1>1, <1>2, <2>2, <2>3 DEF Owed
<1>6. ASSUME NEW t \in Tabs, TabSteps(t)
      PROVE  IsFiniteSet(requests') /\ Owed' <= MaxGeneration
  <2>1. UNCHANGED server
    BY <1>6 DEF TabSteps, Stops, StartSync, Tries, ReadGeneration, ReadCursor, Sends,
       SetGeneration, ImportPage, MarkSynced, SetCursor, ClearStale, BeginDelete,
       SendDelete, ClearDeleted, Edit
  <2>2. CASE BeginDelete(t)
    <3>1. /\ Committed < MaxGeneration /\ requests' = requests
          /\ deletion' = [deletion EXCEPT ![t] = [pc |-> "drain"]]
      BY <2>2 DEF BeginDelete
    <3>2. Drains' = drains \cup {t} /\ Deletes' = deletes
      BY <1>1, <1>3, <3>1 DEF Drains, Deletes
    <3>3. Cardinality(Drains') <= Cardinality(drains) + 1 /\ Cardinality(Drains') \in Nat
      BY <1>2, <1>3, <3>2, OneMore
    <3>4. Committed \in Nat
      <4>1. IsFiniteSet({u \in Tabs : deletion[u].pc \in {"drain", "wait"}})
        BY <1>1, FS_Subset
      <4> QED
        BY <1>1, <1>2, <4>1, FS_CardinalityType DEF Committed, Deletes
    <3> QED
      BY <1>1, <1>2, <1>3, <1>5, <2>1, <3>1, <3>2, <3>3, <3>4 DEF Owed, server
  <2>3. CASE SendDelete(t)
    <3>1. PICK request : request = [kind |-> "delete", tab |-> t]
      OBVIOUS
    <3>2. /\ deletion[t].pc = "drain" /\ requests' = requests \cup {request}
          /\ deletion' = [deletion EXCEPT ![t] = [pc |-> "wait"]]
          /\ request.kind = "delete"
      BY <2>3, <3>1 DEF SendDelete
    <3>3. Drains' = drains \ {t} /\ t \in drains /\ Deletes' = deletes \cup {request}
      BY <1>1, <1>3, <3>2 DEF Drains, Deletes
    <3>4. Cardinality(Drains') = Cardinality(drains) - 1
      BY <1>2, <1>3, <3>3, FS_RemoveElement
    <3>5. Cardinality(Deletes') <= Cardinality(deletes) + 1 /\ Cardinality(Deletes') \in Nat
      BY <1>2, <1>3, <3>3, OneMore
    <3>6. IsFiniteSet(requests')
      BY <1>1, <3>2, FS_AddElement
    <3> QED
      BY <1>1, <1>2, <1>3, <2>1, <3>4, <3>5, <3>6 DEF Owed, server
  <2>4. CASE ~BeginDelete(t) /\ ~SendDelete(t)
    <3>1. Drains' \subseteq drains
      <4>1. deletion' = deletion \/ Release(t)
        BY <1>6, <2>4 DEF TabSteps, Stops, StartSync, Tries, ReadGeneration, ReadCursor, Sends,
           SetGeneration, ImportPage, MarkSynced, SetCursor, ClearStale, ClearDeleted, Edit, Move
      <4>2. Release(t) => Drains' \subseteq drains
        BY <1>1, <1>3 DEF Release, Drains, NoDeletion
      <4> QED
        BY <1>3, <4>1, <4>2 DEF Drains
    <3>2. CASE Sends(t)
      <4>1. PICK request : requests' = requests \cup {request} /\ request.kind = "sync"
        BY <3>2 DEF Sends
      <4>2. IsFiniteSet(requests') /\ Deletes' \subseteq deletes
        BY <1>1, <1>3, <4>1, FS_AddElement DEF Deletes
      <4> QED
        BY <1>4, <2>1, <3>1, <4>2
    <3>3. CASE requests' \subseteq requests
      <4>1. IsFiniteSet(requests') /\ Deletes' \subseteq deletes
        BY <1>1, <1>3, <3>3, FS_Subset DEF Deletes
      <4> QED
        BY <1>4, <2>1, <3>1, <4>1
    <3>4. Sends(t) \/ requests' \subseteq requests
      BY <1>6, <2>4 DEF TabSteps, Stops, StartSync, Tries, ReadGeneration, ReadCursor,
         SetGeneration, ImportPage, MarkSynced, SetCursor, ClearStale, ClearDeleted, Edit
    <3> QED
      BY <3>2, <3>3, <3>4
  <2> QED
    BY <2>2, <2>3, <2>4
<1>7. ASSUME NEW r \in requests, Serve(r)
      PROVE  IsFiniteSet(requests') /\ Owed' <= MaxGeneration
  <2>1. /\ r.kind = "sync" /\ requests' = requests \ {r} /\ deletion' = deletion
        /\ born' = born
    BY <1>7 DEF Serve
  <2>2. IsFiniteSet(requests') /\ Deletes' = deletes /\ Drains' = drains
    BY <1>1, <1>3, <2>1, FS_Subset DEF Deletes, Drains
  <2>3. \/ epoch = Unknown /\ issued' = issued + 1 /\ epoch' = issued + 1
        \/ issued' = issued /\ epoch' = epoch
    BY <1>7 DEF Serve, ServeNew, ServeStale, ServeInvalid, ServeBatch, server
  <2> QED
    BY <1>1, <1>2, <1>3, <2>2, <2>3 DEF Owed, Unknown
<1>8. ASSUME NEW r \in requests, ServeDelete(r)
      PROVE  IsFiniteSet(requests') /\ Owed' <= MaxGeneration
  <2>1. /\ r.kind = "delete" /\ requests' = requests \ {r}
        /\ issued' = IF issued = 0 THEN 2 ELSE issued + 1
        /\ epoch' = issued'
    BY <1>8 DEF ServeDelete
  <2>2. Drains' \subseteq drains
    <3>1. PICK g : g = epoch'
      OBVIOUS
    <3>2. \/ deletion' = deletion
          \/ \E t \in Tabs : deletion' = [deletion EXCEPT ![t] = [pc |-> "clear", reply |-> g]]
      BY <1>8, <3>1 DEF ServeDelete, Inv, RequestInv
    <3> QED
      BY <1>1, <1>3, <3>2 DEF Drains
  <2>3. IsFiniteSet(requests') /\ Deletes' = deletes \ {r} /\ r \in deletes
    BY <1>1, <1>3, <2>1, FS_Subset DEF Deletes
  <2>4. Cardinality(Deletes') = Cardinality(deletes) - 1
    BY <1>2, <1>3, <2>3, FS_RemoveElement
  <2>5. Cardinality(Drains') <= Cardinality(drains) /\ Cardinality(Drains') \in Nat
    BY <1>2, <1>3, <2>2, FS_Subset, FS_CardinalityType
  <2>6. issued = 0 => epoch = Unknown
    BY <1>1 DEF ServerInv, Unknown
  <2> QED
    BY <1>1, <1>2, <1>3, <2>1, <2>3, <2>4, <2>5, <2>6 DEF Owed, Unknown
<1>9. CASE Forget
  <2>1. /\ epoch # Unknown /\ Committed < MaxGeneration /\ epoch' = Unknown
        /\ issued' = issued /\ requests' = requests /\ deletion' = deletion
    BY <1>9 DEF Forget
  <2>2. Drains' = drains /\ Deletes' = deletes
    BY <1>3, <2>1 DEF Drains, Deletes
  <2>3. Committed \in Nat
    <3>1. IsFiniteSet({u \in Tabs : deletion[u].pc \in {"drain", "wait"}})
      BY <1>1, FS_Subset
    <3> QED
      BY <1>1, <1>2, <3>1, FS_CardinalityType DEF Committed, Deletes
  <2> QED
    BY <1>1, <1>2, <1>3, <1>5, <2>1, <2>2, <2>3 DEF Owed
<1> QED
  BY <1>6, <1>7, <1>8, <1>9, StepsAre DEF ServiceSteps

LEMMA RecordsAreFunctions ==
  ASSUME Inv, Bounded, Next
  PROVE  /\ generation' = [d \in Devices |-> generation'[d]]
         /\ cursor' = [d \in Devices |-> cursor'[d]]
<1>1. /\ generation = [d \in Devices |-> generation[d]]
      /\ cursor = [d \in Devices |-> cursor[d]]
  BY DEF Bounded
<1>2. ASSUME NEW d, NEW g, generation' = [generation EXCEPT ![d] = g]
      PROVE  generation' = [e \in Devices |-> generation'[e]]
  BY <1>1, <1>2
<1>3. ASSUME NEW d, NEW c, cursor' = [cursor EXCEPT ![d] = c]
      PROVE  cursor' = [e \in Devices |-> cursor'[e]]
  BY <1>1, <1>3
<1>4. CASE \E t \in Tabs : TabSteps(t)
  <2>1. PICK t \in Tabs : TabSteps(t)
    BY <1>4
  <2>2. \/ UNCHANGED <<generation, cursor>> \/ (\E g : Clear(DeviceOf[t], g))
        \/ SetGeneration(t) \/ SetCursor(t)
    BY <2>1 DEF TabSteps, Stops, StartSync, Tries, ReadGeneration, ReadCursor, Sends,
       ImportPage, MarkSynced, ClearStale, ClearDeleted, BeginDelete, SendDelete, Edit, store
  <2>3. ASSUME NEW g, Clear(DeviceOf[t], g)
        PROVE  /\ generation' = [d \in Devices |-> generation'[d]]
               /\ cursor' = [d \in Devices |-> cursor'[d]]
    <3>1. /\ generation' = [generation EXCEPT ![DeviceOf[t]] = g]
          /\ cursor' = [cursor EXCEPT ![DeviceOf[t]] = 0]
      BY <2>3 DEF Clear
    <3> QED
      BY <1>2, <1>3, <3>1
  <2>4. CASE SetGeneration(t)
    <3>1. /\ generation' = [generation EXCEPT ![DeviceOf[t]] = session[t].reply]
          /\ cursor' = cursor
      BY <2>4 DEF SetGeneration
    <3> QED
      BY <1>1, <1>2, <3>1
  <2>5. CASE SetCursor(t)
    <3>1. /\ cursor' = [cursor EXCEPT ![DeviceOf[t]] = session[t].next]
          /\ generation' = generation
      BY <2>5 DEF SetCursor
    <3> QED
      BY <1>1, <1>3, <3>1
  <2> QED
    BY <1>1, <2>2, <2>3, <2>4, <2>5
<1>5. CASE Forget \/ \E r \in requests : ServiceSteps(r)
  BY <1>1, <1>5 DEF Forget, ServiceSteps, Serve, ServeDelete, store
<1> QED
  BY <1>4, <1>5, StepsAre

\* Generations, faults and requests stay in their bounds.
LEMMA BoundsHold == Spec => []Bounded
<1>1. Init => Bounded
  <2> SUFFICES ASSUME Init PROVE Bounded
    OBVIOUS
  <2>1. /\ issued = 0 /\ epoch = Unknown /\ requests = {} /\ faults = 0
        /\ \A t \in Tabs : deletion[t].pc = "none"
        /\ generation = [d \in Devices |-> Unknown] /\ cursor = [d \in Devices |-> 0]
    BY DEF Init, NoDeletion
  <2>2. Drains = {} /\ Deletes = {} /\ IsFiniteSet(requests)
    BY <2>1, FS_EmptySet DEF Drains, Deletes
  <2>3. Owed = 1
    BY <2>1, <2>2, FS_EmptySet DEF Owed
  <2>4. /\ generation = [d \in Devices |-> generation[d]]
        /\ cursor = [d \in Devices |-> cursor[d]]
    BY <2>1
  <2>5. 1 <= MaxGeneration /\ faults \in 0..MaxFaults
    <3>1. MaxGeneration \in Nat \ {0}
      BY BoundType
    <3>2. 1 <= MaxGeneration
      BY <3>1
    <3>3. faults \in 0..MaxFaults
      BY <2>1, FaultType
    <3> QED
      BY <3>2, <3>3
  <2> QED
    BY <2>2, <2>3, <2>4, <2>5 DEF Bounded
<1>2. UNCHANGED vars /\ Bounded => Bounded'
  <2> SUFFICES ASSUME UNCHANGED vars, Bounded PROVE Bounded'
    OBVIOUS
  <2>1. /\ issued' = issued /\ epoch' = epoch /\ requests' = requests /\ deletion' = deletion
        /\ generation' = generation /\ cursor' = cursor /\ faults' = faults
    BY DEF vars, server, store
  <2>2. Drains' = Drains /\ Deletes' = Deletes
    BY <2>1 DEF Drains, Deletes
  <2> QED
    BY <2>1, <2>2 DEF Bounded, Owed
<1>3. ASSUME Inv, Bounded, Next PROVE Bounded'
  <2>1. faults' \in 0..MaxFaults
    BY <1>3, FaultsBounded DEF Bounded
  <2> QED
    BY <1>3, <2>1, OwedNext, RecordsAreFunctions DEF Bounded
<1>4. Inv /\ Bounded /\ [Next]_vars => Bounded'
  BY <1>2, <1>3
<1> QED
  BY <1>1, <1>4, Invariant, PTL DEF Spec

\* The server row, the IndexedDB records and the local variables of each tab
\* hold what the code can put there, within the bounds of the model.
THEOREM TypeCorrect == Spec => []TypeOK
<1>1. ASSUME Inv, RowsInv, Bounded PROVE TypeOK
  <2> USE <1>1
  <2>1. /\ ServerInv /\ FunctionsOK /\ issued \in Nat
        /\ \A d \in Devices : DeviceInv(d)
        /\ \A t \in Tabs : SessionInv(t) /\ DeletionInv(t)
    BY DEF Inv, ServerInv
  <2>2. issued <= MaxGeneration /\ MaxGeneration \in Nat
    <3>1. /\ Owed <= MaxGeneration /\ MaxGeneration \in Nat
          /\ Cardinality(Drains) \in Nat /\ Cardinality(Deletes) \in Nat
      BY BoundType, Counts DEF Bounded
    <3> QED
      BY <2>1, <3>1 DEF Owed
  <2>3. Issued \subseteq Generations /\ issued \in Generations /\ epoch \in Generations
    BY <2>1, <2>2 DEF Issued, Generations, ServerInv, Unknown
  <2>4. generation \in [Devices -> Generations] /\ cursor \in [Devices -> Nat]
    <3>1. \A d \in Devices : generation[d] \in Generations /\ cursor[d] \in Nat
      BY <2>1, <2>3 DEF DeviceInv
    <3> QED
      BY <3>1 DEF Bounded
  <2>5. \A d \in Devices : base[d] \subseteq [seq : Nat, op : Operations]
    <3> SUFFICES ASSUME NEW d \in Devices
                 PROVE  base[d] \subseteq [seq : Nat, op : Operations]
      OBVIOUS
    <3>1. generation[d] \in Issued /\ base[d] \subseteq RowsOf(generation[d])
      BY <2>1, Holders DEF DeviceInv
    <3> QED
      BY <3>1 DEF RowsInv
  <2>6. \A d \in Devices :
          /\ queue[d] \in Seq(Edits[d]) /\ acked[d] \subseteq Ops(d)
          /\ lock[d] \in {NoTab} \cup {t \in Tabs : DeviceOf[t] = d}
    BY <2>1 DEF DeviceInv
  <2>7. \A t \in Tabs :
          /\ session[t].pc \in {"idle", "attempt", "generation", "cursor", "queue",
                                "wait", "apply", "import", "mark", "advance",
                                "clear", "invalid"}
          /\ deletion[t].pc \in {"none", "drain", "wait", "clear"}
    BY <2>1 DEF SessionInv, DeletionInv, Phases, HasGeneration
  <2>8. born \in [Operations -> Generations]
    BY <2>1, <2>3 DEF ServerInv
  <2> QED
    BY <2>1, <2>3, <2>4, <2>5, <2>6, <2>7, <2>8 DEF TypeOK, ServerInv, FunctionsOK, Bounded
<1> QED
  BY <1>1, Invariant, BoundsHold, PTL

=============================================================================
