-------------------------- MODULE EvidenceStoreProofs --------------------------
(***************************************************************************)
(* Proofs about EvidenceStore and its readers in Feeds, for any number of  *)
(* threads, subscribers and envelopes, any limit of a queue, of a replay   *)
(* and of a page, and any times of the envelopes.                          *)
(***************************************************************************)
EXTENDS Feeds, FiniteSetTheorems, FunctionTheorems, TLAPS

(* Rows stay rows when append() fills in a field. *)
LEMMA NumberedRow ==
    ASSUME NEW r \in Rows, NEW n \in Nat
    PROVE  [r EXCEPT !.sequence = n] \in Rows
    BY DEF Rows

LEMMA ChainedRow ==
    ASSUME NEW r \in Rows, NEW h \in Hashes
    PROVE  [r EXCEPT !.prev = h, !.hash = Digest(h, r.id)] \in Rows
<1>1. Digest(h, r.id) \in Hashes
  BY DEF Rows, Hashes, Digest
<1>. QED
  BY <1>1 DEF Rows

LEMMA FreshRow ==
    ASSUME NEW id \in Envelopes
    PROVE  Fresh(id) \in Rows /\ Fresh(id).sequence = 0
    BY DEF Fresh, Rows, Hashes, Genesis

LEMMA NoRowIsNoRow == NoRow \notin Rows
    BY StoreAssumption DEF Rows, Hashes

(* A tip is a digest. *)
LEMMA TipType ==
    ASSUME NEW table \in Seq(Rows)
    PROVE  TipOf(table) \in Hashes
<1>1. CASE table = <<>>
  BY <1>1 DEF TipOf, Genesis, Hashes
<1>2. CASE table # <<>>
  <2>1. Len(table) \in 1..Len(table)
    BY <1>2
  <2>2. table[Len(table)] \in Rows
    BY <2>1
  <2>. QED
    BY <1>2, <2>2 DEF TipOf, Rows
<1>. QED
  BY <1>1, <1>2

Notices == [id: Envelopes, sequence: Nat]

LEMMA UnsubscribedType == Unsubscribed \in Feeds
    BY DEF Unsubscribed, Feeds

LEMMA SubscribedType ==
    ASSUME NEW f \in Feeds, NEW n \in Nat
    PROVE  [f EXCEPT !.on = TRUE, !.next = n] \in Feeds
    BY DEF Feeds

(* put_nowait keeps a feed a feed, whether or not its queue is full. *)
LEMMA OfferType ==
    ASSUME NEW f \in Feeds, NEW e \in Rows
    PROVE  Offer(f, e) \in Feeds
<1>. DEFINE notice == [id |-> e.id, sequence |-> e.sequence]
<1>1. notice \in Notices
  BY DEF Rows, Notices
<1>2. Append(f.q, notice) \in Seq(Notices)
  BY <1>1 DEF Feeds, Notices
<1>3. [f EXCEPT !.q = Append(f.q, notice)] \in Feeds
  BY <1>2 DEF Feeds, Notices
<1>4. [f EXCEPT !.overflowed = TRUE] \in Feeds
  BY DEF Feeds
<1>. QED
  BY <1>3, <1>4 DEF Offer

(* A consumed feed stays a feed. *)
LEMMA ConsumedType ==
    ASSUME NEW f \in Feeds, f.q # <<>>
    PROVE  [f EXCEPT !.q = Tail(@), !.next = Head(f.q).sequence + 1] \in Feeds
<1>1. f.q \in Seq(Notices)
  BY DEF Feeds, Notices
<1>2. Tail(f.q) \in Seq(Notices) /\ Head(f.q) \in Notices
  BY <1>1
<1>3. Head(f.q).sequence + 1 \in Nat
  BY <1>2 DEF Notices
<1>. QED
  BY <1>2, <1>3 DEF Feeds, Notices

(* Every variable keeps its type under every interleaving of the threads,  *)
(* the subscribers, refused statements and restarts (evidence.py, the      *)
(* whole class).  What a thread holds in mid-append comes from Custody.    *)
LEMMA TypeStep ==
    ASSUME TypeOK, Custody, [Next]_vars
    PROVE  TypeOK'
<1>1. ASSUME NEW w \in Writers, Build(w) PROVE TypeOK'
  BY <1>1, FreshRow DEF Build, TypeOK
<1>2. ASSUME NEW w \in Writers, Acquire(w) PROVE TypeOK'
  BY <1>2 DEF Acquire, LockFree, TypeOK
<1>3. ASSUME NEW w \in Writers, Insert(w) PROVE TypeOK'
  <2>. DEFINE row == [env[w] EXCEPT !.prev = prevHash,
                                    !.hash = Digest(prevHash, env[w].id)]
  <2>1. env[w] \in Rows /\ prevHash \in Hashes
    BY <1>3 DEF Insert, Custody, ThreadCustody, TypeOK
  <2>2. row \in Rows
    BY <2>1, ChainedRow
  <2>3. staged' = row /\ env' = [env EXCEPT ![w] = row]
    BY <1>3 DEF Insert
  <2>4. staged' \in Rows \union {NoRow} /\ env' \in [Writers -> Rows \union {NoRow}]
    BY <2>2, <2>3 DEF TypeOK
  <2>. QED
    BY <1>3, <2>4 DEF Insert, TypeOK
<1>4. ASSUME NEW w \in Writers, Commit(w) PROVE TypeOK'
  <2>1. env[w] \in Rows /\ staged \in Rows
    BY <1>4 DEF Commit, Custody, ThreadCustody, Holding, TypeOK
  <2>2. Len(rows) + 1 \in Nat /\ Append(rows, staged) \in Seq(Rows)
    BY <2>1 DEF TypeOK
  <2>3. [env[w] EXCEPT !.sequence = Len(rows) + 1] \in Rows
    BY <2>1, <2>2, NumberedRow
  <2>4. env' \in [Writers -> Rows \union {NoRow}]
    BY <1>4, <2>3 DEF Commit, TypeOK
  <2>. QED
    BY <1>4, <2>2, <2>4 DEF Commit, TypeOK
<1>5. ASSUME NEW w \in Writers, Update(w) \/ CommitNumber(w) PROVE TypeOK'
  <2>1. /\ env[w].sequence = Len(rows)
        /\ Len(rows) \in 1..Len(rows)
        /\ rows[Len(rows)] \in Rows
    BY <1>5 DEF Update, CommitNumber, Custody, ThreadCustody, PastCommit, TypeOK
  <2>. DEFINE row == [rows[Len(rows)] EXCEPT !.sequence = Len(rows)]
  <2>2. row \in Rows
    BY <2>1, NumberedRow
  <2>3. Numbered(rows, env[w].sequence) = [rows EXCEPT ![Len(rows)] = row]
    BY <2>1 DEF Numbered
  <2>. HIDE DEF row
  <2>4. /\ Numbered(rows, env[w].sequence) \in Seq(Rows)
        /\ Numbered(rows, env[w].sequence)[env[w].sequence] \in Rows
    BY <2>1, <2>2, <2>3 DEF TypeOK
  <2>. QED
    BY <1>5, <2>4 DEF Update, CommitNumber, TypeOK
<1>6. ASSUME NEW w \in Writers, Publish(w) PROVE TypeOK'
  <2>1. env[w] \in Rows
    BY <1>6 DEF Publish, FanOut, Custody, ThreadCustody, TypeOK
  <2>2. feed' \in [Subscribers -> Feeds]
    BY <1>6, <2>1, OfferType DEF Publish, FanOut, TypeOK
  <2>3. prevHash' \in Hashes
    BY <1>6, <2>1 DEF Publish, FanOut, Rows
  <2>. QED
    BY <1>6, <2>2, <2>3 DEF Publish, FanOut, TypeOK
<1>7. ASSUME NEW w \in Writers, Refuse(w) PROVE TypeOK'
  BY <1>7 DEF Refuse, TypeOK
<1>8. ASSUME NEW s \in Subscribers, Subscribe(s) PROVE TypeOK'
  <2>1. Len(rows) + 1 \in Nat
    BY DEF TypeOK
  <2>2. [Unsubscribed EXCEPT !.on = TRUE, !.next = Len(rows) + 1] \in Feeds
    BY <2>1, UnsubscribedType, SubscribedType
  <2>. QED
    BY <1>8, <2>2 DEF Subscribe, LockFree, TypeOK
<1>9. ASSUME NEW s \in Subscribers, Unsubscribe(s) PROVE TypeOK'
  BY <1>9, UnsubscribedType DEF Unsubscribe, TypeOK
<1>10. ASSUME NEW s \in Subscribers, Consume(s) PROVE TypeOK'
  <2>. DEFINE rest == [feed[s] EXCEPT !.q = Tail(@),
                                      !.next = Head(feed[s].q).sequence + 1]
  <2>1. feed[s] \in Feeds /\ feed[s].q # <<>>
    BY <1>10 DEF Consume, TypeOK
  <2>2. rest \in Feeds
    BY <2>1, ConsumedType
  <2>3. feed' = [feed EXCEPT ![s] = rest]
    BY <1>10 DEF Consume, TypeOK
  <2>4. feed' \in [Subscribers -> Feeds]
    BY <2>2, <2>3 DEF TypeOK
  <2>. QED
    BY <1>10, <2>4 DEF Consume, TypeOK
<1>11. ASSUME Restart PROVE TypeOK'
  BY <1>11, TipType, UnsubscribedType DEF Restart, TypeOK
<1>12. CASE UNCHANGED vars
  BY <1>12 DEF vars, TypeOK
<1>. QED
  BY <1>1, <1>2, <1>3, <1>4, <1>5, <1>6, <1>7, <1>8, <1>9, <1>10, <1>11, <1>12
  DEF Next, AppendStep

-----------------------------------------------------------------------------
(* What an append may extend, when rows are kept, added or numbered. *)
LEMMA ExtendsSame ==
    ASSUME NEW table, NEW other, NEW hash, NEW n \in Nat, Extends(table, hash, n),
           \A k \in 1..n : /\ other[k].hash = table[k].hash
                           /\ other[k].sequence = table[k].sequence
    PROVE  Extends(other, hash, n)
<1>1. PICK j \in 0..n : /\ hash = HashAt(table, j)
                       /\ \A k \in (j + 1)..n : table[k].sequence = 0
  BY DEF Extends
<1>2. hash = HashAt(other, j)
  BY <1>1 DEF HashAt
<1>3. \A k \in (j + 1)..n : other[k].sequence = 0
  BY <1>1
<1>. QED
  BY <1>2, <1>3 DEF Extends

LEMMA ExtendsGrows ==
    ASSUME NEW table \in Seq(Rows), NEW hash, Extends(table, hash, Len(table)),
           NEW row \in Rows, row.sequence = 0
    PROVE  Extends(Append(table, row), hash, Len(Append(table, row)))
<1>. DEFINE longer == Append(table, row)
<1>1. /\ Len(table) \in Nat /\ Len(longer) = Len(table) + 1
      /\ \A k \in 1..Len(table) : longer[k] = table[k]
      /\ longer[Len(table) + 1] = row
  OBVIOUS
<1>. HIDE DEF longer
<1>2. PICK j \in 0..Len(table) : /\ hash = HashAt(table, j)
                                /\ \A k \in (j + 1)..Len(table) : table[k].sequence = 0
  BY DEF Extends
<1>3. hash = HashAt(longer, j)
  BY <1>1, <1>2 DEF HashAt
<1>4. ASSUME NEW k \in (j + 1)..(Len(table) + 1) PROVE longer[k].sequence = 0
  <2>1. CASE k = Len(table) + 1
    BY <1>1, <2>1
  <2>2. CASE k # Len(table) + 1
    <3>1. k \in (j + 1)..Len(table) /\ k \in 1..Len(table)
      BY <1>1, <2>2
    <3>. QED BY <1>1, <1>2, <3>1
  <2>. QED BY <2>1, <2>2
<1>5. j \in 0..(Len(table) + 1)
  BY <1>1
<1>6. Extends(longer, hash, Len(longer))
  BY <1>1, <1>3, <1>4, <1>5 DEF Extends
<1>. QED
  BY <1>6 DEF longer

LEMMA TipExtends ==
    ASSUME NEW table \in Seq(Rows)
    PROVE  Extends(table, TipOf(table), Len(table))
<1>1. Len(table) \in Nat /\ Len(table) \in 0..Len(table) /\ (table = <<>> <=> Len(table) = 0)
  OBVIOUS
<1>2. TipOf(table) = HashAt(table, Len(table))
  BY <1>1 DEF TipOf, HashAt
<1>3. \A k \in (Len(table) + 1)..Len(table) : table[k].sequence = 0
  BY <1>1
<1>. QED
  BY <1>1, <1>2, <1>3 DEF Extends

(* self._prev_hash may fall behind the table, by the rows whose second     *)
(* transaction was refused, but never by a row that was published.         *)
LEMMA CustodyStep ==
    ASSUME TypeOK, Custody, [Next]_vars
    PROVE  Custody'
<1>. USE DEF Custody, ThreadCustody, Holding, PastCommit
<1>0. ASSUME rows' = rows, prevHash' = prevHash,
             \A v \in Writers : pc[v] = "updated" => pc'[v] = "updated",
             \A v \in Writers : ThreadCustody(v)'
      PROVE  Custody'
  <2>. QED BY <1>0
<1>1. ASSUME NEW w \in Writers, Build(w) PROVE Custody'
  <2>1. \A id \in Envelopes : Fresh(id) # NoRow /\ Fresh(id).sequence = 0
    BY FreshRow, NoRowIsNoRow
  <2>2. ASSUME NEW v \in Writers
        PROVE  ThreadCustody(v)' /\ (pc[v] = "updated" => pc'[v] = "updated")
    BY <1>1, <2>1 DEF Build, TypeOK
  <2>. QED
    BY <1>0, <1>1, <2>2 DEF Build
<1>2. ASSUME NEW w \in Writers, Acquire(w) PROVE Custody'
  <2>1. ASSUME NEW v \in Writers
        PROVE  ThreadCustody(v)' /\ (pc[v] = "updated" => pc'[v] = "updated")
    BY <1>2, StoreAssumption DEF Acquire, LockFree, TypeOK
  <2>. QED
    BY <1>0, <1>2, <2>1 DEF Acquire, LockFree
<1>3. ASSUME NEW w \in Writers, Insert(w) PROVE Custody'
  <2>1. lock = w /\ env[w] \in Rows
    BY <1>3 DEF Insert, TypeOK
  <2>. DEFINE row == [env[w] EXCEPT !.prev = prevHash,
                                    !.hash = Digest(prevHash, env[w].id)]
  <2>2. row \in Rows
    BY <2>1, ChainedRow DEF TypeOK
  <2>3. /\ row # NoRow
        /\ row.prev = prevHash
        /\ row.hash = Digest(prevHash, row.id)
        /\ row.sequence = env[w].sequence
    BY <2>1, <2>2, NoRowIsNoRow DEF Rows
  <2>4. /\ staged' = row
        /\ env' = [env EXCEPT ![w] = row]
        /\ pc' = [pc EXCEPT ![w] = "inserted"]
        /\ UNCHANGED <<rows, prevHash, lock>>
        /\ pc[w] = "locked"
    BY <1>3 DEF Insert
  <2>. HIDE DEF row
  <2>5. ASSUME NEW v \in Writers
        PROVE  ThreadCustody(v)' /\ (pc[v] = "updated" => pc'[v] = "updated")
    <3>1. CASE v = w
      BY <1>3, <2>1, <2>3, <2>4, <3>1 DEF Insert, TypeOK
    <3>2. CASE v # w
      BY <2>1, <2>4, <3>2 DEF TypeOK
    <3>. QED BY <3>1, <3>2
  <2>. QED
    BY <1>0, <2>4, <2>5
<1>4. ASSUME NEW w \in Writers, Commit(w) PROVE Custody'
  <2>1. /\ lock = w
        /\ staged = env[w]
        /\ env[w] \in Rows /\ env[w] # NoRow
        /\ env[w].sequence = 0
        /\ rows' = Append(rows, env[w])
    BY <1>4 DEF Commit, TypeOK
  <2>2. /\ rows' # <<>>
        /\ Len(rows') = Len(rows) + 1
        /\ rows'[Len(rows')] = env[w]
    BY <2>1 DEF TypeOK
  <2>. DEFINE row == [env[w] EXCEPT !.sequence = Len(rows) + 1]
  <2>3. /\ row # NoRow
        /\ row.id = env[w].id /\ row.hash = env[w].hash
        /\ row.sequence = Len(rows) + 1
    <3>1. Len(rows) + 1 \in Nat
      BY DEF TypeOK
    <3>2. row \in Rows
      BY <2>1, <3>1, NumberedRow
    <3>. QED
      BY <2>1, <3>2, NoRowIsNoRow DEF Rows
  <2>4. /\ env' = [env EXCEPT ![w] = row]
        /\ pc' = [pc EXCEPT ![w] = "committed"]
        /\ lock' = lock /\ prevHash' = prevHash
        /\ pc[w] = "inserted"
    BY <1>4 DEF Commit, TypeOK
  <2>. HIDE DEF row
  <2>5. ASSUME NEW v \in Writers PROVE ThreadCustody(v)'
    <3>1. CASE v = w
      BY <2>1, <2>2, <2>3, <2>4, <3>1 DEF TypeOK, TipOf
    <3>2. CASE v # w
      BY <2>1, <2>4, <3>2 DEF TypeOK
    <3>. QED BY <3>1, <3>2
  <2>6. Extends(rows, prevHash, Len(rows))
    BY <2>1, <2>4
  <2>7. Extends(rows', prevHash, Len(rows'))
    BY <2>1, <2>6, ExtendsGrows DEF TypeOK
  <2>. QED
    BY <2>4, <2>5, <2>7
<1>5. ASSUME NEW w \in Writers, Update(w) PROVE Custody'
  <2>1. lock = w
    BY <1>5 DEF Update
  <2>2. ASSUME NEW v \in Writers
        PROVE  ThreadCustody(v)' /\ (pc[v] = "updated" => pc'[v] = "updated")
    <3>1. CASE v = w
      BY <1>5, <2>1, <3>1 DEF Update, TypeOK
    <3>2. CASE v # w
      BY <1>5, <2>1, <3>2 DEF Update, TypeOK
    <3>. QED BY <3>1, <3>2
  <2>. QED
    BY <1>0, <1>5, <2>2 DEF Update
<1>6. ASSUME NEW w \in Writers, CommitNumber(w) PROVE Custody'
  <2>1. /\ lock = w
        /\ env[w].sequence = Len(rows)
        /\ Len(rows) \in 1..Len(rows)
        /\ rows[Len(rows)] \in Rows
    BY <1>6 DEF CommitNumber, TypeOK
  <2>2. rows' = [rows EXCEPT ![Len(rows)] =
                    [rows[Len(rows)] EXCEPT !.sequence = Len(rows)]]
    BY <1>6, <2>1 DEF CommitNumber, Numbered
  <2>3. /\ Len(rows') = Len(rows) /\ rows' # <<>>
        /\ rows'[Len(rows)].hash = rows[Len(rows)].hash
        /\ rows'[Len(rows)].id = rows[Len(rows)].id
        /\ rows'[Len(rows)].sequence = Len(rows)
    BY <2>1, <2>2 DEF TypeOK, Rows
  <2>4. TipOf(rows') = TipOf(rows)
    BY <2>1, <2>3 DEF TipOf
  <2>5. /\ pc' = [pc EXCEPT ![w] = "updated"] /\ pc[w] = "numbering"
        /\ UNCHANGED <<prevHash, lock, env>>
    BY <1>6 DEF CommitNumber
  <2>6. ASSUME NEW v \in Writers PROVE ThreadCustody(v)'
    <3>1. CASE v = w
      BY <2>1, <2>3, <2>4, <2>5, <3>1 DEF TypeOK
    <3>2. CASE v # w
      BY <2>1, <2>5, <3>2 DEF TypeOK
    <3>. QED BY <3>1, <3>2
  <2>7. pc'[w] = "updated"
    BY <2>5 DEF TypeOK
  <2>. QED
    BY <2>6, <2>7
<1>7. ASSUME NEW w \in Writers, Publish(w) PROVE Custody'
  <2>1. lock = w /\ env[w].hash = TipOf(rows)
    BY <1>7 DEF Publish, FanOut, TypeOK
  <2>2. ASSUME NEW v \in Writers PROVE ThreadCustody(v)'
    <3>1. CASE v = w
      BY <1>7, <2>1, <3>1, StoreAssumption DEF Publish, FanOut, TypeOK
    <3>2. CASE v # w
      BY <1>7, <2>1, <3>2, StoreAssumption DEF Publish, FanOut, TypeOK
    <3>. QED BY <3>1, <3>2
  <2>3. rows' = rows /\ prevHash' = TipOf(rows)
    BY <1>7, <2>1 DEF Publish, FanOut
  <2>4. Extends(rows', prevHash', Len(rows'))
    BY <2>3, TipExtends DEF TypeOK
  <2>. QED
    BY <2>2, <2>4
<1>8. ASSUME NEW w \in Writers, Refuse(w) PROVE Custody'
  <2>1. lock = w /\ pc[w] # "updated"
    BY <1>8 DEF Refuse, TypeOK
  <2>2. ASSUME NEW v \in Writers
        PROVE  ThreadCustody(v)' /\ (pc[v] = "updated" => pc'[v] = "updated")
    <3>1. CASE v = w
      BY <1>8, <2>1, <3>1, StoreAssumption DEF Refuse, TypeOK
    <3>2. CASE v # w
      BY <1>8, <2>1, <3>2, StoreAssumption DEF Refuse, TypeOK
    <3>. QED BY <3>1, <3>2
  <2>. QED
    BY <1>0, <1>8, <2>2 DEF Refuse
<1>9. ASSUME NEW s \in Subscribers, Subscribe(s) \/ Unsubscribe(s) \/ Consume(s)
      PROVE  Custody'
  <2>1. rows' = rows /\ prevHash' = prevHash /\ UNCHANGED <<staged, lock, pc, env>>
    BY <1>9 DEF Subscribe, LockFree, Unsubscribe, Consume
  <2>. QED BY <1>0, <2>1
<1>10. ASSUME Restart PROVE Custody'
  <2>1. \A v \in Writers : ThreadCustody(v)'
    BY <1>10, StoreAssumption DEF Restart
  <2>2. rows' = rows /\ prevHash' = TipOf(rows)
    BY <1>10 DEF Restart
  <2>3. Extends(rows', prevHash', Len(rows'))
    BY <2>2, TipExtends DEF TypeOK
  <2>. QED BY <2>1, <2>3
<1>11. CASE UNCHANGED vars
  <2>1. rows' = rows /\ prevHash' = prevHash /\ UNCHANGED <<staged, lock, pc, env>>
    BY <1>11 DEF vars
  <2>. QED BY <1>0, <2>1
<1>. QED
  BY <1>1, <1>2, <1>3, <1>4, <1>5, <1>6, <1>7, <1>8, <1>9, <1>10, <1>11
  DEF Next, AppendStep

LEMMA CustodyInit == Init => TypeOK /\ Custody
<1>. SUFFICES ASSUME Init PROVE TypeOK /\ Custody
  OBVIOUS
<1>1. rows \in Seq(Rows) /\ TipOf(rows) \in Hashes
  <2>1. rows \in Seq(Rows)
    BY DEF Init
  <2>. QED
    BY <2>1, TipType
<1>2. TypeOK
  BY <1>1, UnsubscribedType DEF Init, TypeOK
<1>3. Custody
  <2>1. Extends(rows, prevHash, Len(rows))
    BY <1>1, TipExtends DEF Init
  <2>. QED
    BY <2>1, StoreAssumption DEF Init, Custody, ThreadCustody, Holding, PastCommit
<1>. QED
  BY <1>2, <1>3

(* The type invariant and the custody of the lock, the tip and the open    *)
(* transaction hold in every reachable state of append() and __init__.     *)
THEOREM CustodyCorrect == Spec => [](TypeOK /\ Custody)
<1>1. TypeOK /\ Custody /\ [Next]_vars => (TypeOK /\ Custody)'
  BY TypeStep, CustodyStep
<1>. QED
  BY <1>1, CustodyInit, PTL DEF Spec

(* Appending a row that extends the table keeps it chained. *)
LEMMA ChainGrows ==
    ASSUME TypeOK, Chained, NEW row \in Rows,
           Extends(rows, row.prev, Len(rows)), row.hash = Digest(row.prev, row.id),
           rows' = Append(rows, row)
    PROVE  Chained'
<1>1. /\ Len(rows') = Len(rows) + 1
      /\ \A i \in 1..Len(rows) : rows'[i] = rows[i]
      /\ rows'[Len(rows) + 1] = row
      /\ DOMAIN rows = 1..Len(rows) /\ DOMAIN rows' = 1..Len(rows) + 1
      /\ Len(rows) \in Nat
  BY DEF TypeOK
<1>2. ASSUME NEW i \in DOMAIN rows'
      PROVE  /\ Extends(rows', rows'[i].prev, i - 1)
             /\ rows'[i].hash = Digest(rows'[i].prev, rows'[i].id)
  <2>0. i - 1 \in Nat /\ \A k \in 1..(i - 1) : rows'[k] = rows[k]
    BY <1>1
  <2>1. Extends(rows, rows'[i].prev, i - 1) => Extends(rows', rows'[i].prev, i - 1)
    BY <2>0, ExtendsSame
  <2>2. CASE i \in 1..Len(rows)
    BY <1>1, <2>1, <2>2 DEF Chained
  <2>3. CASE i = Len(rows) + 1
    <3>1. i - 1 = Len(rows) /\ rows'[i] = row
      BY <1>1, <2>3
    <3>. QED
      BY <2>1, <3>1
  <2>. QED
    BY <1>1, <2>2, <2>3
<1>. QED
  BY <1>2 DEF Chained

(* Numbering the last row keeps the table chained. *)
LEMMA ChainKept ==
    ASSUME TypeOK, Chained, Len(rows') = Len(rows),
           DOMAIN rows' = DOMAIN rows,
           \A i \in DOMAIN rows : /\ rows'[i].id = rows[i].id
                                  /\ rows'[i].prev = rows[i].prev
                                  /\ rows'[i].hash = rows[i].hash
                                  /\ i < Len(rows) => rows'[i].sequence = rows[i].sequence
    PROVE  Chained'
<1>1. DOMAIN rows = 1..Len(rows) /\ Len(rows) \in Nat
  BY DEF TypeOK
<1>2. ASSUME NEW i \in DOMAIN rows PROVE Extends(rows', rows[i].prev, i - 1)
  <2>1. i - 1 \in Nat
    BY <1>1
  <2>2. \A k \in 1..(i - 1) : k \in DOMAIN rows /\ k < Len(rows)
    BY <1>1
  <2>3. Extends(rows, rows[i].prev, i - 1)
    BY DEF Chained
  <2>. QED
    BY <2>1, <2>2, <2>3, ExtendsSame
<1>. QED
  BY <1>2 DEF Chained

LEMMA ChainStep ==
    ASSUME TypeOK, Custody, Chained, [Next]_vars
    PROVE  Chained'
<1>1. ASSUME NEW w \in Writers, Commit(w) PROVE Chained'
  <2>1. /\ staged \in Rows
        /\ staged.prev = prevHash
        /\ staged.hash = Digest(staged.prev, staged.id)
        /\ rows' = Append(rows, staged)
        /\ lock = w /\ pc[w] = "inserted"
    BY <1>1 DEF Commit, Custody, ThreadCustody, Holding, PastCommit, TypeOK
  <2>2. Extends(rows, prevHash, Len(rows))
    BY <2>1 DEF Custody, ThreadCustody, Holding
  <2>. QED
    BY <2>1, <2>2, ChainGrows
<1>2. ASSUME NEW w \in Writers, CommitNumber(w) PROVE Chained'
  <2>1. env[w].sequence = Len(rows) /\ Len(rows) \in DOMAIN rows
    BY <1>2 DEF CommitNumber, Custody, ThreadCustody, PastCommit, TypeOK
  <2>2. rows' = [rows EXCEPT ![Len(rows)] =
                    [rows[Len(rows)] EXCEPT !.sequence = Len(rows)]]
    BY <1>2, <2>1 DEF CommitNumber, Numbered
  <2>3. \A i \in DOMAIN rows : rows[i] \in Rows
    BY DEF TypeOK
  <2>4. /\ DOMAIN rows' = DOMAIN rows /\ Len(rows') = Len(rows)
        /\ \A i \in DOMAIN rows : /\ rows'[i].id = rows[i].id
                                  /\ rows'[i].prev = rows[i].prev
                                  /\ rows'[i].hash = rows[i].hash
                                  /\ i < Len(rows) => rows'[i].sequence = rows[i].sequence
    BY <2>1, <2>2, <2>3 DEF Rows, TypeOK
  <2>. QED
    BY <2>4, ChainKept
<1>3. CASE UNCHANGED rows
  BY <1>3 DEF Chained
<1>4. ASSUME NEW w \in Writers,
             Build(w) \/ Acquire(w) \/ Insert(w) \/ Update(w) \/ Publish(w) \/ Refuse(w)
      PROVE  UNCHANGED rows
  BY <1>4 DEF Build, Acquire, LockFree, Insert, Update, Publish, FanOut, Refuse
<1>5. ASSUME NEW s \in Subscribers, Subscribe(s) \/ Unsubscribe(s) \/ Consume(s)
      PROVE  UNCHANGED rows
  BY <1>5 DEF Subscribe, LockFree, Unsubscribe, Consume
<1>. QED
  BY <1>1, <1>2, <1>3, <1>4, <1>5 DEF Next, AppendStep, Restart, vars

(* Every digest of the committed table covers its row and the last row     *)
(* that was published before it, for any number of threads appending       *)
(* through EvidenceStore.append, with crashes anywhere and with any INSERT,*)
(* UPDATE or COMMIT refused.                                               *)
THEOREM ChainIntact ==
    Spec => []Chained
<1>1. Init => Chained
  BY DEF Init, Chained
<1>2. TypeOK /\ Custody /\ Chained /\ [Next]_vars => Chained'
  BY ChainStep
<1>3. Spec => [](TypeOK /\ Custody)
  BY CustodyCorrect
<1>. QED
  BY <1>1, <1>2, <1>3, PTL DEF Spec

(* The run's invariant: types, custody of lock and tip, and the chain.     *)
THEOREM EvidenceIsSound ==
    Spec => []Sound
<1>1. TypeOK /\ Custody /\ Chained => Sound
  BY DEF Sound
<1>. QED
  BY <1>1, CustodyCorrect, ChainIntact, PTL

-----------------------------------------------------------------------------
(* A committed envelope is never rewritten, moved or removed: the only     *)
(* write append() makes to an old row adds its missing sequence.           *)
THEOREM EvidenceIsImmutable ==
    Spec => RowsAreImmutable
<1>. DEFINE Kept == /\ Len(rows') >= Len(rows)
                    /\ \A i \in DOMAIN rows :
                        rows'[i] = rows[i]
                            \/ (/\ rows[i].sequence = 0
                                /\ rows'[i] = [rows[i] EXCEPT !.sequence = i])
<1>1. TypeOK /\ Custody /\ [Next]_vars => [Kept]_rows
  <2>. SUFFICES ASSUME TypeOK, Custody, [Next]_vars, rows' # rows PROVE Kept
    OBVIOUS
  <2>1. ASSUME NEW w \in Writers, Commit(w) PROVE Kept
    <3>1. staged \in Rows /\ rows' = Append(rows, staged)
      BY <2>1 DEF Commit, Custody, ThreadCustody, Holding, PastCommit, TypeOK
    <3>. QED
      BY <3>1 DEF TypeOK
  <2>2. ASSUME NEW w \in Writers, CommitNumber(w) PROVE Kept
    <3>1. /\ env[w].sequence = Len(rows) /\ Len(rows) \in DOMAIN rows
          /\ rows[Len(rows)].sequence = 0
      BY <2>2 DEF CommitNumber, Numbered, Custody, ThreadCustody, PastCommit, TypeOK
    <3>2. rows' = [rows EXCEPT ![Len(rows)] =
                      [rows[Len(rows)] EXCEPT !.sequence = Len(rows)]]
      BY <2>2, <3>1 DEF CommitNumber, Numbered
    <3>. QED
      BY <3>1, <3>2 DEF TypeOK
  <2>3. ASSUME NEW w \in Writers,
               Build(w) \/ Acquire(w) \/ Insert(w) \/ Update(w) \/ Publish(w) \/ Refuse(w)
        PROVE  FALSE
    BY <2>3 DEF Build, Acquire, LockFree, Insert, Update, Publish, FanOut, Refuse
  <2>4. ASSUME NEW s \in Subscribers,
               Subscribe(s) \/ Unsubscribe(s) \/ Consume(s)
        PROVE  FALSE
    BY <2>4 DEF Subscribe, LockFree, Unsubscribe, Consume
  <2>. QED
    BY <2>1, <2>2, <2>3, <2>4 DEF Next, AppendStep, Restart, vars
<1>2. Spec => [](TypeOK /\ Custody)
  BY CustodyCorrect
<1>. QED
  BY <1>1, <1>2, PTL DEF Spec, RowsAreImmutable

-----------------------------------------------------------------------------
(* A notice is durable when its row is committed under its id and number.  *)
Durable(notice) ==
    /\ notice.sequence \in DOMAIN rows
    /\ rows[notice.sequence].id = notice.id
    /\ rows[notice.sequence].sequence = notice.sequence

(* No step takes a durable row back. *)
LEMMA DurableStays ==
    ASSUME TypeOK, Custody, [Next]_vars, NEW n \in Notices, Durable(n)
    PROVE  Durable(n)'
<1>1. ASSUME NEW w \in Writers, Commit(w) PROVE Durable(n)'
  <2>1. staged \in Rows /\ rows' = Append(rows, staged)
    BY <1>1 DEF Commit, Custody, ThreadCustody, Holding, PastCommit, TypeOK
  <2>. QED
    BY <2>1 DEF TypeOK, Durable
<1>2. ASSUME NEW w \in Writers, CommitNumber(w) PROVE Durable(n)'
  <2>1. /\ env[w].sequence = Len(rows) /\ Len(rows) \in DOMAIN rows
        /\ \A i \in DOMAIN rows : rows[i] \in Rows
    BY <1>2 DEF CommitNumber, Numbered, Custody, ThreadCustody, PastCommit, TypeOK
  <2>2. rows' = [rows EXCEPT ![Len(rows)] =
                    [rows[Len(rows)] EXCEPT !.sequence = Len(rows)]]
    BY <1>2, <2>1 DEF CommitNumber, Numbered
  <2>. QED
    BY <2>1, <2>2 DEF Durable, Rows, TypeOK
<1>3. CASE UNCHANGED rows
  BY <1>3 DEF Durable
<1>4. ASSUME NEW w \in Writers,
             Build(w) \/ Acquire(w) \/ Insert(w) \/ Update(w) \/ Publish(w) \/ Refuse(w)
      PROVE  UNCHANGED rows
  BY <1>4 DEF Build, Acquire, LockFree, Insert, Update, Publish, FanOut, Refuse
<1>5. ASSUME NEW s \in Subscribers, Subscribe(s) \/ Unsubscribe(s) \/ Consume(s)
      PROVE  UNCHANGED rows
  BY <1>5 DEF Subscribe, LockFree, Unsubscribe, Consume
<1>. QED
  BY <1>1, <1>2, <1>3, <1>4, <1>5 DEF Next, AppendStep, Restart, vars

(* What a queue may hold after one step: what it held, or the envelope     *)
(* whose row the publishing thread has just numbered.                      *)
LEMMA OfferedIsDurable ==
    ASSUME TypeOK, Custody, [Next]_vars, PublishedIsDurable,
           NEW s \in Subscribers, NEW i \in DOMAIN feed'[s].q
    PROVE  feed'[s].q[i] \in Notices /\ Durable(feed'[s].q[i])
<1>0. /\ feed[s] \in Feeds /\ feed[s].q \in Seq(Notices)
      /\ \A j \in DOMAIN feed[s].q : feed[s].q[j] \in Notices /\ Durable(feed[s].q[j])
  <2>1. feed[s] \in Feeds
    BY DEF TypeOK
  <2>2. feed[s].q \in Seq(Notices)
    BY <2>1 DEF Feeds, Notices
  <2>3. \A j \in DOMAIN feed[s].q : feed[s].q[j] \in Notices
    BY <2>2
  <2>4. \A j \in DOMAIN feed[s].q : Durable(feed[s].q[j])
    BY DEF PublishedIsDurable, Durable
  <2>. QED
    BY <2>1, <2>2, <2>3, <2>4
<1>1. CASE feed'[s] = feed[s] \/ feed'[s].q = feed[s].q
  BY <1>0, <1>1
<1>2. CASE feed'[s].q = <<>>
  BY <1>2
<1>3. CASE feed[s].q # <<>> /\ feed'[s].q = Tail(feed[s].q)
  BY <1>0, <1>3
<1>4. ASSUME NEW w \in Writers, Publish(w)
      PROVE  feed'[s].q[i] \in Notices /\ Durable(feed'[s].q[i])
  <2>. DEFINE notice == [id |-> env[w].id, sequence |-> env[w].sequence]
  <2>1. /\ env[w] \in Rows
        /\ env[w].sequence = Len(rows) /\ Len(rows) \in DOMAIN rows
        /\ env[w].id = rows[Len(rows)].id
        /\ rows[Len(rows)].sequence = Len(rows)
    BY <1>4 DEF Publish, FanOut, Custody, ThreadCustody, PastCommit, TypeOK
  <2>2. notice \in Notices /\ Durable(notice)
    BY <2>1 DEF Rows, Notices, Durable
  <2>3. feed'[s] = Offer(feed[s], env[w])
    BY <1>4 DEF Publish, FanOut
  <2>4. feed'[s].q = feed[s].q \/ feed'[s].q = Append(feed[s].q, notice)
    BY <1>0, <2>3 DEF Offer, Feeds
  <2>5. CASE feed'[s].q = Append(feed[s].q, notice)
    BY <1>0, <2>2, <2>5
  <2>. QED
    BY <1>1, <2>4, <2>5
<1>5. ASSUME NEW w \in Writers,
             \/ Build(w) \/ Acquire(w) \/ Insert(w) \/ Commit(w)
             \/ Update(w) \/ CommitNumber(w) \/ Refuse(w)
      PROVE  feed' = feed
  BY <1>5 DEF Build, Acquire, LockFree, Insert, Commit, Update, CommitNumber, Refuse
<1>6. ASSUME NEW r \in Subscribers, Subscribe(r) \/ Unsubscribe(r)
      PROVE  feed'[s] = feed[s] \/ feed'[s].q = <<>>
  <2>1. [Unsubscribed EXCEPT !.on = TRUE, !.next = Len(rows) + 1].q = <<>>
    BY DEF Unsubscribed
  <2>2. Unsubscribed.q = <<>>
    BY DEF Unsubscribed
  <2>3. CASE r # s
    BY <1>6, <2>3 DEF Subscribe, LockFree, Unsubscribe, TypeOK
  <2>4. CASE r = s
    BY <1>6, <2>1, <2>2, <2>4 DEF Subscribe, LockFree, Unsubscribe, TypeOK
  <2>. QED
    BY <2>3, <2>4
<1>7. ASSUME NEW r \in Subscribers, Consume(r)
      PROVE  \/ feed'[s] = feed[s]
             \/ feed[s].q # <<>> /\ feed'[s].q = Tail(feed[s].q)
  BY <1>0, <1>7 DEF Consume, TypeOK, Feeds
<1>8. ASSUME Restart PROVE feed'[s].q = <<>>
  BY <1>8 DEF Restart, Unsubscribed
<1>. QED
  BY <1>1, <1>2, <1>3, <1>4, <1>5, <1>6, <1>7, <1>8 DEF Next, AppendStep, vars

(* What a subscriber reads from its queue is durable under the id and the  *)
(* sequence it carries, whatever crashes: append() publishes last.         *)
THEOREM FanOutIsDurable ==
    Spec => []PublishedIsDurable
<1>1. Init => PublishedIsDurable
  BY DEF Init, PublishedIsDurable, Unsubscribed
<1>2. TypeOK /\ Custody /\ PublishedIsDurable /\ [Next]_vars => PublishedIsDurable'
  <2>. SUFFICES ASSUME TypeOK, Custody, PublishedIsDurable, [Next]_vars,
                       NEW s \in Subscribers, NEW i \in DOMAIN feed'[s].q
                PROVE  /\ feed'[s].q[i].sequence \in DOMAIN rows'
                       /\ rows'[feed'[s].q[i].sequence].id = feed'[s].q[i].id
                       /\ rows'[feed'[s].q[i].sequence].sequence
                                = feed'[s].q[i].sequence
    BY DEF PublishedIsDurable
  <2>1. \A n \in Notices : Durable(n) =>
            /\ n.sequence \in DOMAIN rows'
            /\ rows'[n.sequence].id = n.id
            /\ rows'[n.sequence].sequence = n.sequence
    BY DurableStays DEF Durable
  <2>2. feed'[s].q[i] \in Notices /\ Durable(feed'[s].q[i])
    BY OfferedIsDurable
  <2>. QED
    BY <2>1, <2>2
<1>3. Spec => [](TypeOK /\ Custody)
  BY CustodyCorrect
<1>. QED
  BY <1>1, <1>2, <1>3, PTL DEF Spec

-----------------------------------------------------------------------------
(* The readers (Feeds): the server-sent events and the exports.            *)

(* The place in the table of a row that was read. *)
Place(entry) == entry.at

(* A row knows its place in the table or nothing of it, and the open       *)
(* transaction adds a row that does not, or numbers the last one.          *)
Positions ==
    /\ \A n \in DOMAIN rows : rows[n].sequence \in {0, n}
    /\ staged # NoRow =>
            \/ staged.sequence = 0
            \/ /\ Len(rows) \in DOMAIN rows
               /\ staged = [rows[Len(rows)] EXCEPT !.sequence = Len(rows)]

Late == \E w \in Writers : PastCommit(w)

(* The first number that append() has still to offer to the queues.        *)
Unoffered == IF Late THEN Len(rows) ELSE Len(rows) + 1

(* A queue follows the numbered rows without a gap, up to what was offered. *)
Follows(table, f, end) ==
    (f.on /\ ~f.overflowed) =>
        /\ f.next \in 1 .. end
        /\ \A i \in DOMAIN f.q : f.q[i].sequence \in f.next .. (end - 1)
        /\ \A i, j \in DOMAIN f.q : i < j => f.q[i].sequence < f.q[j].sequence
        /\ \A n \in f.next .. (end - 1) :
                table[n].sequence # 0 => \E i \in DOMAIN f.q : f.q[i].sequence = n

(* A client with events `had` and queue `q` has had everything numbered up *)
(* to its last event, the rows it has still to write come right after that,*)
(* and once these were read, everything numbered below `end` is there or   *)
(* on its way.                                                             *)
Tracks(table, c, had, q, end) ==
    /\ c.last = 0 \/ c.last \in had
    /\ \A n \in 1 .. c.last : table[n].sequence # 0 => n \in had
    /\ \A i \in DOMAIN c.todo : Place(c.todo[i]) = c.last + i
    /\ c.pc = "live" =>
            \A n \in 1 .. (end - 1) :
                \/ table[n].sequence = 0
                \/ n \in had
                \/ \E i \in DOMAIN c.todo : Place(c.todo[i]) = n
                \/ \E i \in DOMAIN q : q[i].sequence = n

(* A connected client is subscribed, and it tracks the table until a       *)
(* replay is cut short or its queue overflows.                             *)
Replaying ==
    /\ client.pc = "off" => feed[Sse] = Unsubscribed
    /\ client.pc # "off" => feed[Sse].on
    /\ client.last <= Len(rows)
    /\ \A i \in DOMAIN client.todo :
            \/ client.todo[i].row.sequence = 0
            \/ /\ client.todo[i].row.sequence = Place(client.todo[i])
               /\ Place(client.todo[i]) <= Len(rows)
    /\ ~gap /\ ~feed[Sse].overflowed =>
            Tracks(rows, client, got, feed[Sse].q, Unoffered)

Following ==
    /\ FeedsTypeOK
    /\ \A s \in Subscribers : Follows(rows, feed[s], Unoffered)
    /\ Replaying

(* Two forms of a row, with and without its number. *)
SameRow(r, q) == r.id = q.id /\ r.prev = q.prev /\ r.hash = q.hash

(* The table has the row that was read, where it was read. *)
InTable(table, e) ==
    /\ Place(e) \in DOMAIN table
    /\ SameRow(table[Place(e)], e.row)

(* Rows in the table's order, none after the cursor; with no latest time,  *)
(* all from the first after `since`.                                       *)
Slice(list, since, cursor, until) ==
    /\ \A i \in DOMAIN list :
            /\ Place(list[i]) <= cursor
            /\ i > 1 => Place(list[i - 1]) < Place(list[i])
    /\ until = Forever =>
            /\ cursor = since + Len(list)
            /\ \A i \in DOMAIN list : Place(list[i]) = since + i

Exporting ==
    export.pc \in {"reading", "built"} =>
        /\ \A i \in DOMAIN export.rows : InTable(rows, export.rows[i])
        /\ Slice(export.rows, export.since, export.cursor, export.until)

-----------------------------------------------------------------------------
(* How many members of a set of numbers come before one. *)
RankIn(S, n) == Cardinality({k \in S : k < n})

LEMMA RankType ==
    ASSUME NEW S \in SUBSET Nat, IsFiniteSet(S), NEW n
    PROVE  RankIn(S, n) \in Nat
<1>1. {k \in S : k < n} \in SUBSET S
  OBVIOUS
<1>. QED BY <1>1, FS_Subset, FS_CardinalityType DEF RankIn

LEMMA RankGrows ==
    ASSUME NEW S \in SUBSET Nat, IsFiniteSet(S), NEW m \in S, NEW n \in Nat, m < n
    PROVE  RankIn(S, m) < RankIn(S, n)
<1> DEFINE A == {k \in S : k < m}
           B == {k \in S : k < n}
<1>1. m \in Nat /\ \A k \in S : k \in Nat
  OBVIOUS
<1>0. \A k \in S : k < m => k < n
  BY <1>1
<1>2. A \in SUBSET B /\ B \in SUBSET S
  BY <1>0
<1>3. m \in B /\ m \notin A
  BY <1>1
<1>4. IsFiniteSet(B) /\ IsFiniteSet(A)
  BY <1>2, FS_Subset
<1>5. Cardinality(A) <= Cardinality(B) /\ (Cardinality(A) = Cardinality(B) => A = B)
  BY <1>2, <1>4, FS_Subset
<1>6. Cardinality(A) \in Nat /\ Cardinality(B) \in Nat
  BY <1>4, FS_CardinalityType
<1>7. Cardinality(A) # Cardinality(B)
  BY <1>3, <1>5
<1>8. Cardinality(A) < Cardinality(B)
  BY <1>5, <1>6, <1>7
<1>. QED BY <1>8 DEF RankIn

LEMMA RankIsBelow ==
    ASSUME NEW S \in SUBSET Nat, IsFiniteSet(S), NEW n \in S
    PROVE  RankIn(S, n) \in 0 .. (Cardinality(S) - 1)
<1> DEFINE A == {k \in S : k < n}
<1>1. A \in SUBSET S /\ n \in S /\ n \notin A
  OBVIOUS
<1>2. Cardinality(A) <= Cardinality(S) /\ (Cardinality(A) = Cardinality(S) => A = S)
  BY <1>1, FS_Subset
<1>3. Cardinality(A) # Cardinality(S)
  BY <1>1, <1>2
<1>4. Cardinality(A) \in Nat /\ Cardinality(S) \in Nat
  BY <1>1, FS_Subset, FS_CardinalityType
<1>5. Cardinality(A) \in 0 .. (Cardinality(S) - 1)
  BY <1>2, <1>3, <1>4
<1>. QED BY <1>5 DEF RankIn

(* Every place of a finite set of numbers is taken. *)
LEMMA RankIsTaken ==
    ASSUME NEW S \in SUBSET Nat, IsFiniteSet(S), NEW i \in 1 .. Cardinality(S)
    PROVE  \E n \in S : RankIn(S, n) = i - 1
<1> DEFINE T == 0 .. (Cardinality(S) - 1)
           rank == [n \in S |-> RankIn(S, n)]
<1>1. Cardinality(S) \in Nat
  BY FS_CardinalityType
<1>2. rank \in [S -> T]
  BY RankIsBelow
<1>3. \A n \in S : rank[n] = RankIn(S, n) /\ rank[n] \in Int
  BY RankType
<1>. HIDE DEF rank
<1>4. ASSUME NEW m \in S, NEW n \in S, rank[m] = rank[n] PROVE m = n
  <2>1. m \in Nat /\ n \in Nat
    OBVIOUS
  <2>2. ~(m < n) /\ ~(n < m)
    BY <1>3, <1>4, <2>1, RankGrows
  <2>. QED BY <2>1, <2>2
<1>5. rank \in Injection(S, T)
  BY <1>2, <1>4, Fun_IsInj
<1>6. IsFiniteSet(T) /\ Cardinality(T) = Cardinality(S)
  <2> DEFINE c == Cardinality(S) - 1
  <2>1. c \in Int /\ c + 1 = Cardinality(S) /\ (0 > c => Cardinality(S) = 0)
    BY <1>1
  <2>. HIDE DEF c
  <2>2. IsFiniteSet(0 .. c) /\ Cardinality(0 .. c) = IF 0 > c THEN 0 ELSE c - 0 + 1
    BY <2>1, FS_Interval
  <2>3. Cardinality(0 .. c) = Cardinality(S)
    BY <2>1, <2>2
  <2>. QED BY <2>2, <2>3 DEF c
<1>. HIDE DEF T
<1>7. rank \in Surjection(S, T)
  BY <1>5, <1>6, FS_Injection
<1>8. \A t \in T : \E n \in S : rank[n] = t
  BY <1>7, Fun_SurjectionProperties
<1>9. i - 1 \in T
  BY <1>1 DEF T
<1>. QED BY <1>3, <1>8, <1>9

(* InOrder lists a set of numbers in their order. *)
LEMMA InOrderLists ==
    ASSUME NEW S \in SUBSET Nat, IsFiniteSet(S)
    PROVE  /\ DOMAIN InOrder(S) = 1 .. Cardinality(S)
           /\ Cardinality(S) \in Nat
           /\ \A i \in 1 .. Cardinality(S) :
                InOrder(S)[i] \in S /\ RankIn(S, InOrder(S)[i]) = i - 1
           /\ \A i, j \in 1 .. Cardinality(S) : i < j => InOrder(S)[i] < InOrder(S)[j]
<1>1. DOMAIN InOrder(S) = 1 .. Cardinality(S)
  BY DEF InOrder
<1>2. ASSUME NEW i \in 1 .. Cardinality(S)
      PROVE  InOrder(S)[i] \in S /\ RankIn(S, InOrder(S)[i]) = i - 1
  <2>1. InOrder(S)[i] = CHOOSE n \in S : RankIn(S, n) = i - 1
    BY DEF InOrder, RankIn
  <2>. QED BY <2>1, RankIsTaken
<1>3. ASSUME NEW i \in 1 .. Cardinality(S), NEW j \in 1 .. Cardinality(S), i < j
      PROVE  InOrder(S)[i] < InOrder(S)[j]
  <2>1. PICK m \in S : m = InOrder(S)[i] /\ RankIn(S, m) = i - 1
    BY <1>2
  <2>2. PICK n \in S : n = InOrder(S)[j] /\ RankIn(S, n) = j - 1
    BY <1>2
  <2>3. m \in Nat /\ n \in Nat /\ RankIn(S, m) \in Nat /\ RankIn(S, n) \in Nat
    BY RankType
  <2>4. ~(n < m)
    BY <1>3, <2>1, <2>2, <2>3, RankGrows
  <2>5. m # n
    BY <1>3, <2>1, <2>2
  <2>6. m < n
    BY <2>3, <2>4, <2>5
  <2>. QED BY <2>1, <2>2, <2>6
<1>4. Cardinality(S) \in Nat
  BY FS_CardinalityType
<1>. QED BY <1>1, <1>2, <1>3, <1>4

(* The first of a set have in it the places they have among themselves. *)
LEMMA FirstsAreFirst ==
    ASSUME NEW S \in SUBSET Nat, IsFiniteSet(S), NEW limit \in Nat \ {0}
    PROVE  /\ FirstOf(S, limit) \in SUBSET S
           /\ IsFiniteSet(FirstOf(S, limit))
           /\ \A n \in FirstOf(S, limit) : RankIn(FirstOf(S, limit), n) = RankIn(S, n)
           /\ Cardinality(S) <= limit => FirstOf(S, limit) = S
<1> DEFINE T == FirstOf(S, limit)
<1>1. T = {n \in S : RankIn(S, n) < limit}
  BY DEF FirstOf, RankIn
<1>2. T \in SUBSET S /\ IsFiniteSet(T)
  BY <1>1, FS_Subset
<1>. HIDE DEF T
<1>3. ASSUME NEW n \in T PROVE RankIn(T, n) = RankIn(S, n)
  <2>1. n \in Nat /\ n \in S /\ RankIn(S, n) < limit
    BY <1>1
  <2>2. ASSUME NEW k \in S, k < n PROVE k \in T
    <3>1. RankIn(S, k) < RankIn(S, n)
      BY <2>1, <2>2, RankGrows
    <3>2. RankIn(S, k) \in Nat /\ RankIn(S, n) \in Nat
      BY RankType
    <3>3. RankIn(S, k) < limit
      BY <2>1, <3>1, <3>2
    <3>. QED BY <1>1, <3>3
  <2>3. {k \in T : k < n} = {k \in S : k < n}
    BY <1>2, <2>2
  <2>. QED BY <2>3 DEF RankIn
<1>4. ASSUME Cardinality(S) <= limit PROVE T = S
  <2>1. ASSUME NEW n \in S PROVE RankIn(S, n) < limit
    <3>1. RankIn(S, n) \in 0 .. (Cardinality(S) - 1) /\ Cardinality(S) \in Nat
      BY RankIsBelow, FS_CardinalityType
    <3>. QED BY <1>4, <3>1
  <2>. QED BY <1>1, <2>1
<1>. QED BY <1>2, <1>3, <1>4 DEF T

(* A page of consecutive numbers is consecutive from the first. *)
LEMMA PageOfInterval ==
    ASSUME NEW a \in Nat, NEW b \in Nat, NEW limit \in Nat \ {0}
    PROVE  LET T == FirstOf(a .. b, limit)
           IN  /\ \A i \in 1 .. Cardinality(T) : InOrder(T)[i] = a + i - 1
               /\ Cardinality(a .. b) <= limit =>
                    \A n \in a .. b : n - a + 1 \in 1 .. Cardinality(T)
<1> DEFINE S == a .. b
           T == FirstOf(S, limit)
<1>1. S \in SUBSET Nat /\ IsFiniteSet(S)
      /\ Cardinality(S) = IF a > b THEN 0 ELSE b - a + 1
  BY FS_Interval
<1>2. ASSUME NEW n \in S PROVE RankIn(S, n) = n - a
  <2>1. {k \in S : k < n} = a .. (n - 1)
    OBVIOUS
  <2>2. Cardinality(a .. (n - 1)) = IF a > n - 1 THEN 0 ELSE n - 1 - a + 1
    BY FS_Interval
  <2>3. n \in Nat /\ a <= n
    OBVIOUS
  <2>4. Cardinality(a .. (n - 1)) = n - a
    BY <2>2, <2>3
  <2>5. RankIn(S, n) = Cardinality(a .. (n - 1))
    BY <2>1 DEF RankIn
  <2>. QED BY <2>4, <2>5
<1>3. \A n \in S : n \in Nat
  OBVIOUS
<1>4. ASSUME Cardinality(S) <= limit, NEW n \in S PROVE n - a + 1 \in 1 .. Cardinality(S)
  BY <1>1
<1>. HIDE DEF S
<1>5. /\ T \in SUBSET S /\ T \in SUBSET Nat /\ IsFiniteSet(T)
      /\ \A n \in T : RankIn(T, n) = RankIn(S, n)
      /\ Cardinality(S) <= limit => T = S
  BY <1>1, FirstsAreFirst
<1>. HIDE DEF T
<1>6. ASSUME NEW i \in 1 .. Cardinality(T) PROVE InOrder(T)[i] = a + i - 1
  <2>1. PICK n \in T : n = InOrder(T)[i] /\ RankIn(T, n) = i - 1
    BY <1>5, InOrderLists
  <2>2. n - a = i - 1 /\ n \in Nat
    BY <1>2, <1>3, <1>5, <2>1
  <2>3. n = a + i - 1
    BY <2>2
  <2>. QED BY <2>1, <2>3
<1>7. Cardinality(S) <= limit => \A n \in S : n - a + 1 \in 1 .. Cardinality(T)
  BY <1>4, <1>5
<1>. QED BY <1>6, <1>7 DEF S, T

-----------------------------------------------------------------------------
(* What a reader sees of the table: every row, the last of them perhaps    *)
(* with the number it is being given, and the open one after them.         *)
LEMMA WhatIsVisible ==
    ASSUME TypeOK, Positions
    PROVE  /\ Visible \in Seq(Rows)
           /\ \A n \in DOMAIN Visible : /\ Visible[n] \in Rows
                                        /\ \/ Visible[n].sequence = 0
                                           \/ Visible[n].sequence = n /\ n \in DOMAIN rows
           /\ \A n \in DOMAIN rows : n \in DOMAIN Visible /\ SameRow(Visible[n], rows[n])
<1>1. rows \in Seq(Rows) /\ Len(rows) \in Nat /\ DOMAIN rows = 1 .. Len(rows)
      /\ \A n \in DOMAIN rows : rows[n] \in Rows
  BY DEF TypeOK
<1>2. CASE staged = NoRow
  BY <1>1, <1>2 DEF Visible, Positions, SameRow
<1>3. CASE staged # NoRow /\ staged.sequence = 0
  <2>1. staged \in Rows
    BY <1>3 DEF TypeOK
  <2>2. /\ Visible = Append(rows, staged) /\ Append(rows, staged) \in Seq(Rows)
        /\ DOMAIN Append(rows, staged) = 1 .. (Len(rows) + 1)
        /\ \A n \in 1 .. Len(rows) : Append(rows, staged)[n] = rows[n]
        /\ Append(rows, staged)[Len(rows) + 1] = staged
    BY <1>1, <1>3, <2>1 DEF Visible
  <2>3. \A n \in DOMAIN Visible : n \in 1 .. Len(rows) \/ n = Len(rows) + 1
    BY <1>1, <2>2
  <2>. QED BY <1>1, <1>3, <2>1, <2>2, <2>3 DEF Positions, SameRow
<1>4. CASE staged # NoRow /\ staged.sequence # 0
  <2>1. /\ Len(rows) \in DOMAIN rows /\ staged \in Rows
        /\ staged = [rows[Len(rows)] EXCEPT !.sequence = Len(rows)]
    BY <1>4 DEF Positions, TypeOK
  <2>2. staged.sequence = Len(rows) /\ SameRow(staged, rows[Len(rows)])
    BY <1>1, <2>1 DEF Rows, SameRow
  <2>3. Visible = [rows EXCEPT ![Len(rows)] = staged]
    BY <1>4, <2>2 DEF Visible
  <2>4. /\ Visible \in Seq(Rows) /\ DOMAIN Visible = DOMAIN rows
        /\ \A n \in DOMAIN rows : Visible[n] = IF n = Len(rows) THEN staged ELSE rows[n]
    BY <1>1, <2>1, <2>3
  <2>. QED BY <1>1, <2>1, <2>2, <2>4 DEF Positions, SameRow
<1>. QED BY <1>2, <1>3, <1>4

(* What query() returns: rows after `since`, at their places and in their  *)
(* order; with no latest time, one after the other from the first, and all *)
(* of them if they are no more than the limit.                             *)
LEMMA QueryReturns ==
    ASSUME TypeOK, Positions, NEW since \in Nat, NEW until, NEW limit \in Nat \ {0}
    PROVE  LET batch == Query(since, until, limit)
           IN  /\ batch \in Seq(Entries)
               /\ \A i \in DOMAIN batch :
                    /\ Place(batch[i]) \in DOMAIN Visible
                    /\ Place(batch[i]) > since
                    /\ batch[i].row = Visible[Place(batch[i])]
               /\ \A i, j \in DOMAIN batch : i < j => Place(batch[i]) < Place(batch[j])
               /\ until = Forever => \A i \in DOMAIN batch : Place(batch[i]) = since + i
               /\ (until = Forever /\ Cardinality(Numbers(since, until)) <= limit) =>
                    \A n \in DOMAIN Visible : n > since =>
                        \E i \in DOMAIN batch : Place(batch[i]) = n
               /\ Cardinality(Numbers(since, until)) \in Nat
<1> DEFINE S == Numbers(since, until)
           T == FirstOf(S, limit)
           page == InOrder(T)
           batch == Query(since, until, limit)
<1>1. /\ Visible \in Seq(Rows) /\ Len(Visible) \in Nat
      /\ DOMAIN Visible = 1 .. Len(Visible)
      /\ \A n \in DOMAIN Visible : Visible[n] \in Rows
  <2>1. /\ Visible \in Seq(Rows)
        /\ \A n \in DOMAIN Visible : Visible[n] \in Rows
    BY WhatIsVisible
  <2>. QED BY <2>1
<1>2. /\ S \in SUBSET Nat /\ IsFiniteSet(S)
      /\ \A n \in S : n \in DOMAIN Visible /\ n > since
  <2>1. S \in SUBSET (1 .. Len(Visible)) /\ \A n \in S : n \in DOMAIN Visible /\ n > since
    BY <1>1 DEF Numbers
  <2>2. IsFiniteSet(1 .. Len(Visible))
    BY <1>1, FS_Interval
  <2>. QED BY <2>1, <2>2, FS_Subset
<1>3. until = Forever => S = (since + 1) .. Len(Visible)
  <2>. SUFFICES ASSUME until = Forever PROVE S = (since + 1) .. Len(Visible)
    OBVIOUS
  <2>1. \A n \in DOMAIN Visible : TimeOf[Visible[n].id] <= Forever
    BY <1>1, FeedsAssumption DEF Rows
  <2>2. S = {n \in 1 .. Len(Visible) : n > since}
    BY <1>1, <2>1 DEF Numbers
  <2>. QED BY <1>1, <2>2
<1>. HIDE DEF S
<1>4. T \in SUBSET S /\ T \in SUBSET Nat /\ IsFiniteSet(T)
  BY <1>2, FirstsAreFirst
<1>. HIDE DEF T
<1>5. /\ DOMAIN page = 1 .. Cardinality(T) /\ Cardinality(T) \in Nat
      /\ \A i \in DOMAIN page : page[i] \in T
      /\ \A i, j \in DOMAIN page : i < j => page[i] < page[j]
  BY <1>4, InOrderLists
<1>6. batch = [i \in DOMAIN page |-> [at |-> page[i], row |-> Visible[page[i]]]]
  BY DEF Query, T, S
<1>. HIDE DEF page, batch
<1>7. \A i \in DOMAIN page : page[i] \in DOMAIN Visible /\ page[i] > since
  BY <1>2, <1>4, <1>5
<1>8. DOMAIN batch = 1 .. Cardinality(T)
      /\ \A i \in DOMAIN batch : /\ batch[i].row = Visible[page[i]]
                                 /\ batch[i] \in Entries
                                 /\ Place(batch[i]) = page[i]
  <2>1. \A i \in DOMAIN page : page[i] \in Nat /\ Visible[page[i]] \in Rows
    BY <1>1, <1>7
  <2>. QED BY <1>5, <1>6, <2>1 DEF Place, Entries
<1>9. batch \in Seq(Entries)
  <2>1. batch \in [1 .. Cardinality(T) -> Entries]
    BY <1>6, <1>8
  <2>. QED BY <1>5, <2>1
<1>10. ASSUME until = Forever
       PROVE  /\ \A i \in DOMAIN batch : Place(batch[i]) = since + i
              /\ Cardinality(S) <= limit =>
                    \A n \in DOMAIN Visible : n > since =>
                        \E i \in DOMAIN batch : Place(batch[i]) = n
  <2> DEFINE a == since + 1
             b == Len(Visible)
  <2>1. a \in Nat /\ b \in Nat /\ S = a .. b
    BY <1>1, <1>3, <1>10
  <2>. HIDE DEF a, b
  <2>2. /\ \A i \in 1 .. Cardinality(T) : page[i] = a + i - 1
        /\ Cardinality(S) <= limit => \A n \in S : n - a + 1 \in 1 .. Cardinality(T)
    <3>1. T = FirstOf(a .. b, limit) /\ page = InOrder(FirstOf(a .. b, limit))
      BY <2>1 DEF T, page
    <3>2. LET P == FirstOf(a .. b, limit)
          IN  /\ \A i \in 1 .. Cardinality(P) : InOrder(P)[i] = a + i - 1
              /\ Cardinality(a .. b) <= limit =>
                    \A n \in a .. b : n - a + 1 \in 1 .. Cardinality(P)
      <4>1. a \in Nat /\ b \in Nat
        BY <2>1
      <4>. QED BY ONLY <4>1, limit \in Nat \ {0}, PageOfInterval
    <3>. QED BY ONLY <2>1, <3>1, <3>2
  <2>3. \A i \in DOMAIN batch : Place(batch[i]) = since + i
    BY <1>8, <2>2 DEF a
  <2>4. ASSUME Cardinality(S) <= limit, NEW n \in DOMAIN Visible, n > since
        PROVE  \E i \in DOMAIN batch : Place(batch[i]) = n
    <3>1. n \in S /\ n \in Nat
      BY <1>1, <1>3, <1>10, <2>4
    <3>2. n - a + 1 \in DOMAIN batch /\ since + (n - a + 1) = n
      BY <1>8, <2>2, <2>4, <3>1 DEF a
    <3>. QED BY <2>3, <3>2
  <2>. QED BY <2>3, <2>4
<1>11. \A i \in DOMAIN batch : Place(batch[i]) \in DOMAIN Visible /\ Place(batch[i]) > since
                               /\ batch[i].row = Visible[Place(batch[i])]
  BY <1>5, <1>7, <1>8
<1>12. \A i, j \in DOMAIN batch : i < j => Place(batch[i]) < Place(batch[j])
  BY <1>5, <1>8
<1>13. Cardinality(S) \in Nat
  BY <1>2, FS_CardinalityType
<1>. QED BY <1>9, <1>10, <1>11, <1>12, <1>13 DEF batch, S

-----------------------------------------------------------------------------
(* The readers change nothing of the store but their own queue. *)
LEMMA ReadersStep ==
    ASSUME [FeedsNext]_allVars PROVE [Next]_vars
<1>1. Sse \in Subscribers
  BY FeedsAssumption
<1>2. CASE StoreStep
  BY <1>2 DEF StoreStep, Next
<1>3. CASE Connect \/ KeyError \/ WriteLive \/ ClientLeaves
  BY <1>1, <1>3 DEF Connect, KeyError, WriteLive, ClientLeaves, HangsUp, Next
<1>4. CASE AllRestart
  BY <1>4 DEF AllRestart, Next
<1>5. CASE Replay \/ WriteReplayed \/ Page \/ Served
           \/ \E until \in Windows \union {Forever} : Begins(until)
  BY <1>5 DEF Replay, WriteReplayed, Page, Served, Begins
<1>6. CASE UNCHANGED allVars
  BY <1>6 DEF allVars
<1>. QED BY <1>2, <1>3, <1>4, <1>5, <1>6 DEF FeedsNext

LEMMA ReadersOnlyRead == FeedsSpec => Spec
<1>1. FeedsInit => Init
  BY DEF FeedsInit
<1>2. [FeedsNext]_allVars => [Next]_vars
  BY ReadersStep
<1>. QED BY <1>1, <1>2, PTL DEF FeedsSpec, Spec

(* The thread that is about to insert or to commit is the only one that    *)
(* has the lock.                                                           *)
LEMMA Inserter ==
    ASSUME TypeOK, Custody, NEW w \in Writers, pc[w] \in {"locked", "inserted"}
    PROVE  /\ lock = w /\ ~Late
           /\ env[w] \in Rows /\ env[w] # NoRow /\ env[w].sequence = 0
           /\ pc[w] = "inserted" => staged = env[w]
<1>1. lock = w /\ ~PastCommit(w) /\ pc[w] # "idle"
  BY DEF Custody, ThreadCustody, Holding, PastCommit
<1>2. \A v \in Writers : PastCommit(v) => lock = v
  BY DEF Custody, ThreadCustody, Holding, PastCommit
<1>3. ~Late
  BY <1>1, <1>2 DEF Late
<1>4. env[w] # NoRow /\ env[w].sequence = 0
  BY <1>1 DEF Custody, ThreadCustody
<1>5. env[w] \in Rows
  BY <1>4 DEF TypeOK
<1>6. pc[w] = "inserted" => staged = env[w]
  BY DEF Custody, ThreadCustody
<1>. QED BY <1>1, <1>3, <1>4, <1>5, <1>6

(* What the second transaction works on is the last row. *)
LEMMA Numberer ==
    ASSUME TypeOK, Custody, NEW w \in Writers, PastCommit(w)
    PROVE  /\ lock = w /\ Late
           /\ env[w] \in Rows /\ env[w].sequence = Len(rows) /\ Len(rows) \in DOMAIN rows
           /\ Numbered(rows, Len(rows))
                    = [rows EXCEPT ![Len(rows)] =
                            [rows[Len(rows)] EXCEPT !.sequence = Len(rows)]]
           /\ pc[w] # "updated" => rows[Len(rows)].sequence = 0
<1>1. /\ lock = w /\ env[w] # NoRow /\ rows # <<>> /\ env[w].sequence = Len(rows)
      /\ pc[w] # "updated" => rows[Len(rows)].sequence = 0
  BY DEF Custody, ThreadCustody, Holding, PastCommit
<1>2. Late
  BY DEF Late
<1>3. env[w] \in Rows /\ Len(rows) \in DOMAIN rows
  BY <1>1 DEF TypeOK
<1>. QED BY <1>1, <1>2, <1>3 DEF Numbered

LEMMA PositionsStep ==
    ASSUME TypeOK, Custody, Positions, [Next]_vars
    PROVE  Positions'
<1>1. rows \in Seq(Rows) /\ Len(rows) \in Nat /\ DOMAIN rows = 1 .. Len(rows)
      /\ \A n \in DOMAIN rows : rows[n] \in Rows
  BY DEF TypeOK
<1>2. CASE rows' = rows /\ (staged' = staged \/ staged' = NoRow)
  BY <1>2 DEF Positions
<1>3. ASSUME NEW w \in Writers, Insert(w) PROVE Positions'
  <2>1. env[w] \in Rows /\ env[w].sequence = 0
    BY <1>3, Inserter DEF Insert
  <2>2. rows' = rows /\ staged'.sequence = env[w].sequence
    BY <1>3, <2>1 DEF Insert, Rows
  <2>. QED BY <2>1, <2>2 DEF Positions
<1>4. ASSUME NEW w \in Writers, Commit(w) PROVE Positions'
  <2>1. /\ staged \in Rows /\ staged.sequence = 0
        /\ rows' = Append(rows, staged) /\ staged' = NoRow
    BY <1>4, Inserter DEF Commit
  <2>2. /\ DOMAIN rows' = 1 .. (Len(rows) + 1) /\ rows'[Len(rows) + 1] = staged
        /\ \A n \in 1 .. Len(rows) : rows'[n] = rows[n]
    BY <1>1, <2>1
  <2>. QED BY <1>1, <2>1, <2>2 DEF Positions
<1>5. ASSUME NEW w \in Writers, Update(w) PROVE Positions'
  <2>1. PastCommit(w)
    BY <1>5 DEF Update, PastCommit
  <2>2. /\ Len(rows) \in DOMAIN rows /\ rows' = rows
        /\ staged' = Numbered(rows, Len(rows))[Len(rows)]
    BY <1>5, <2>1, Numberer DEF Update
  <2>3. staged' = [rows[Len(rows)] EXCEPT !.sequence = Len(rows)]
    BY <2>1, <2>2, Numberer
  <2>. QED BY <2>2, <2>3 DEF Positions
<1>6. ASSUME NEW w \in Writers, CommitNumber(w) PROVE Positions'
  <2>1. PastCommit(w)
    BY <1>6 DEF CommitNumber, PastCommit
  <2>2. /\ Len(rows) \in DOMAIN rows /\ staged' = NoRow
        /\ rows' = [rows EXCEPT ![Len(rows)] =
                        [rows[Len(rows)] EXCEPT !.sequence = Len(rows)]]
    BY <1>6, <2>1, Numberer DEF CommitNumber
  <2>3. /\ DOMAIN rows' = DOMAIN rows
        /\ \A n \in DOMAIN rows : n # Len(rows) => rows'[n] = rows[n]
        /\ rows'[Len(rows)].sequence = Len(rows)
    BY <1>1, <2>2 DEF Rows
  <2>. QED BY <2>2, <2>3 DEF Positions
<1>7. ASSUME NEW w \in Writers, Build(w) \/ Acquire(w) \/ Publish(w) \/ Refuse(w)
      PROVE  rows' = rows /\ (staged' = staged \/ staged' = NoRow)
  BY <1>7 DEF Build, Acquire, Publish, Refuse
<1>8. ASSUME NEW s \in Subscribers, Subscribe(s) \/ Unsubscribe(s) \/ Consume(s)
      PROVE  rows' = rows /\ staged' = staged
  BY <1>8 DEF Subscribe, Unsubscribe, Consume
<1>9. (Restart \/ UNCHANGED vars) => rows' = rows /\ (staged' = staged \/ staged' = NoRow)
  BY DEF Restart, vars
<1>. QED BY <1>2, <1>3, <1>4, <1>5, <1>6, <1>7, <1>8, <1>9 DEF Next, AppendStep

(* What a step of append() does to the table and to the queues: nothing, a *)
(* row without a number at the end, its number, its number given up, or    *)
(* the offer of what has its number.                                       *)
LEMMA AppendEffects ==
    ASSUME TypeOK, Custody, NEW w \in Writers,
           Build(w) \/ AppendStep(w) \/ Refuse(w)
    PROVE  \/ feed' = feed /\ rows' = rows /\ (Late' <=> Late)
           \/ /\ feed' = feed /\ rows' = Append(rows, staged) /\ staged \in Rows
              /\ staged.sequence = 0 /\ ~Late /\ Late'
           \/ /\ feed' = feed /\ Len(rows') = Len(rows) /\ Late /\ Late'
              /\ \A n \in DOMAIN rows : n # Len(rows) => rows'[n] = rows[n]
           \/ /\ feed' = feed /\ rows' = rows /\ Late /\ ~Late'
              /\ Len(rows) \in DOMAIN rows /\ rows[Len(rows)].sequence = 0
           \/ /\ Late /\ ~Late' /\ rows' = rows /\ env[w] \in Rows
              /\ env[w].sequence = Len(rows) /\ Len(rows) \in DOMAIN rows
              /\ \A s \in Subscribers : feed'[s] = Offer(feed[s], env[w])
<1>1. \A v \in Writers : PastCommit(v) => lock = v
  BY DEF Custody, ThreadCustody, Holding, PastCommit
<1>2. CASE Build(w) \/ Acquire(w) \/ Insert(w) \/ Update(w) \/ (Refuse(w) /\ ~PastCommit(w))
  <2>1. feed' = feed /\ rows' = rows
    BY <1>2 DEF Build, Acquire, Insert, Update, Refuse
  <2>2. \A v \in Writers : PastCommit(v)' <=> PastCommit(v)
    BY <1>2 DEF Build, Acquire, Insert, Update, Refuse, PastCommit, TypeOK
  <2>. QED BY <2>1, <2>2 DEF Late
<1>3. CASE Commit(w)
  <2>1. staged \in Rows /\ staged.sequence = 0 /\ ~Late
    BY <1>3, Inserter DEF Commit
  <2>2. feed' = feed /\ rows' = Append(rows, staged) /\ pc'[w] = "committed"
    BY <1>3 DEF Commit, TypeOK
  <2>3. Late'
    BY <2>2 DEF Late, PastCommit
  <2>. QED BY <2>1, <2>2, <2>3
<1>4. CASE CommitNumber(w)
  <2>1. PastCommit(w)
    BY <1>4 DEF CommitNumber, PastCommit
  <2>2. /\ feed' = feed /\ pc'[w] = "updated" /\ Late /\ Len(rows) \in DOMAIN rows
        /\ rows' = [rows EXCEPT ![Len(rows)] =
                        [rows[Len(rows)] EXCEPT !.sequence = Len(rows)]]
    BY <1>4, <2>1, Numberer DEF CommitNumber, TypeOK
  <2>3. /\ Len(rows') = Len(rows)
        /\ \A n \in DOMAIN rows : n # Len(rows) => rows'[n] = rows[n]
    BY <2>2 DEF TypeOK
  <2>4. Late'
    BY <2>2 DEF Late, PastCommit
  <2>. QED BY <2>2, <2>3, <2>4
<1>5. CASE Refuse(w) /\ PastCommit(w)
  <2>1. /\ Late /\ lock = w /\ Len(rows) \in DOMAIN rows
        /\ pc[w] # "updated" /\ rows[Len(rows)].sequence = 0
    BY <1>5, Numberer DEF Refuse
  <2>2. feed' = feed /\ rows' = rows /\ pc' = [pc EXCEPT ![w] = "idle"]
    BY <1>5 DEF Refuse
  <2>3. \A v \in Writers : ~PastCommit(v)'
    BY <1>1, <2>1, <2>2 DEF PastCommit, TypeOK
  <2>. QED BY <2>1, <2>2, <2>3 DEF Late
<1>6. CASE Publish(w)
  <2>1. PastCommit(w)
    BY <1>6 DEF Publish, PastCommit
  <2>2. /\ Late /\ lock = w /\ env[w] \in Rows /\ env[w].sequence = Len(rows)
        /\ Len(rows) \in DOMAIN rows
    BY <2>1, Numberer
  <2>3. /\ rows' = rows /\ pc' = [pc EXCEPT ![w] = "idle"]
        /\ \A s \in Subscribers : feed'[s] = Offer(feed[s], env[w])
    BY <1>6 DEF Publish, FanOut
  <2>4. \A v \in Writers : ~PastCommit(v)'
    BY <1>1, <2>2, <2>3 DEF PastCommit, TypeOK
  <2>. QED BY <2>2, <2>3, <2>4 DEF Late
<1>. QED BY <1>2, <1>3, <1>4, <1>5, <1>6 DEF AppendStep

LEMMA FreeIsOnTime ==
    ASSUME TypeOK, Custody, LockFree PROVE ~Late
  BY StoreAssumption DEF Custody, ThreadCustody, Holding, PastCommit, Late, LockFree

LEMMA LateIsLast ==
    ASSUME TypeOK, Custody, Late PROVE Len(rows) \in DOMAIN rows
<1>1. rows # <<>>
  BY DEF Late, Custody, ThreadCustody
<1>. QED BY <1>1 DEF TypeOK

LEMMA UnofferedType ==
    ASSUME TypeOK, Custody
    PROVE  Unoffered \in Nat \ {0} /\ Unoffered - 1 \in 0 .. Len(rows)
<1>1. Late => Len(rows) # 0
  BY LateIsLast DEF TypeOK
<1>. QED BY <1>1 DEF TypeOK, Unoffered

-----------------------------------------------------------------------------
LEMMA QueueType ==
    ASSUME NEW f \in Feeds
    PROVE  /\ f.q \in Seq(Notices) /\ f.next \in Nat
           /\ \A i \in DOMAIN f.q : f.q[i] \in Notices /\ f.q[i].sequence \in Nat
<1>1. f.q \in Seq(Notices) /\ f.next \in Nat
  BY DEF Feeds, Notices
<1>2. \A i \in DOMAIN f.q : f.q[i] \in Notices
  BY <1>1
<1>3. \A n \in Notices : n.sequence \in Nat
  BY DEF Notices
<1>. QED BY <1>1, <1>2, <1>3

(* No step leaves a gap in a queue. *)
LEMMA OfferFollows ==
    ASSUME NEW table, NEW f \in Feeds, NEW e \in Rows, Follows(table, f, e.sequence)
    PROVE  Follows(table, Offer(f, e), e.sequence + 1)
<1>. DEFINE notice == [id |-> e.id, sequence |-> e.sequence]
            longer == Append(f.q, notice)
<1>1. /\ f.q \in Seq(Notices) /\ notice \in Notices /\ f.next \in Nat /\ e.sequence \in Nat
      /\ notice.sequence = e.sequence
  BY DEF Feeds, Notices, Rows
<1>2. CASE ~f.on
  BY <1>2 DEF Offer, Follows
<1>3. CASE f.on /\ ~(Len(f.q) < QueueLimit)
  <2>1. Offer(f, e).overflowed
    BY <1>3 DEF Offer, Feeds
  <2>. QED BY <2>1 DEF Follows
<1>4. CASE f.on /\ Len(f.q) < QueueLimit
  <2>1. /\ Offer(f, e).q = longer /\ Offer(f, e).next = f.next
        /\ Offer(f, e).on = f.on /\ Offer(f, e).overflowed = f.overflowed
    BY <1>4 DEF Offer, Feeds
  <2>2. /\ \A i \in DOMAIN f.q : i \in DOMAIN longer /\ longer[i] = f.q[i]
        /\ \A i \in DOMAIN longer : i \in DOMAIN f.q \/ (i = Len(f.q) + 1 /\ longer[i] = notice)
        /\ Len(f.q) + 1 \in DOMAIN longer /\ longer[Len(f.q) + 1] = notice
        /\ DOMAIN f.q = 1 .. Len(f.q) /\ Len(f.q) \in Nat
    BY <1>1
  <2>. HIDE DEF longer, notice
  <2>3. ASSUME ~f.overflowed
        PROVE  /\ f.next \in 1 .. (e.sequence + 1)
               /\ \A i \in DOMAIN longer : longer[i].sequence \in f.next .. e.sequence
               /\ \A i, j \in DOMAIN longer : i < j => longer[i].sequence < longer[j].sequence
               /\ \A n \in f.next .. e.sequence :
                    table[n].sequence # 0 => \E i \in DOMAIN longer : longer[i].sequence = n
    <3>1. /\ f.next \in 1 .. e.sequence
          /\ \A i \in DOMAIN f.q : f.q[i].sequence \in f.next .. (e.sequence - 1)
          /\ \A i, j \in DOMAIN f.q : i < j => f.q[i].sequence < f.q[j].sequence
          /\ \A n \in f.next .. (e.sequence - 1) :
                table[n].sequence # 0 => \E i \in DOMAIN f.q : f.q[i].sequence = n
      BY <1>4, <2>3 DEF Follows
    <3>2. ASSUME NEW i \in DOMAIN longer PROVE longer[i].sequence \in f.next .. e.sequence
      BY <1>1, <2>2, <3>1
    <3>3. ASSUME NEW i \in DOMAIN longer, NEW j \in DOMAIN longer, i < j
          PROVE  longer[i].sequence < longer[j].sequence
      <4>1. i \in DOMAIN f.q
        BY <2>2, <3>3
      <4>2. CASE j \in DOMAIN f.q
        BY <2>2, <3>1, <3>3, <4>1, <4>2
      <4>3. CASE j \notin DOMAIN f.q
        <5>1. longer[j].sequence = e.sequence
          BY <1>1, <2>2, <4>3
        <5>2. longer[i] = f.q[i] /\ f.q[i].sequence \in f.next .. (e.sequence - 1)
          BY <2>2, <3>1, <4>1
        <5>. QED BY <1>1, <5>1, <5>2
      <4>. QED BY <4>2, <4>3
    <3>4. ASSUME NEW n \in f.next .. e.sequence, table[n].sequence # 0
          PROVE  \E i \in DOMAIN longer : longer[i].sequence = n
      <4>1. CASE n = e.sequence
        BY <1>1, <2>2, <4>1
      <4>2. CASE n # e.sequence
        <5>1. n \in f.next .. (e.sequence - 1)
          BY <1>1, <4>2
        <5>. QED BY <2>2, <3>1, <3>4, <5>1
      <4>. QED BY <4>1, <4>2
    <3>5. f.next \in 1 .. (e.sequence + 1)
      BY <1>1, <3>1
    <3>. QED BY <3>2, <3>3, <3>4, <3>5
  <2>. DEFINE end == e.sequence + 1
  <2>4. end - 1 = e.sequence
    BY <1>1
  <2>5. ASSUME ~f.overflowed
        PROVE  /\ f.next \in 1 .. end
               /\ \A i \in DOMAIN longer : longer[i].sequence \in f.next .. (end - 1)
               /\ \A i, j \in DOMAIN longer : i < j => longer[i].sequence < longer[j].sequence
               /\ \A n \in f.next .. (end - 1) :
                    table[n].sequence # 0 => \E i \in DOMAIN longer : longer[i].sequence = n
    BY <2>3, <2>4, <2>5
  <2>. HIDE DEF end
  <2>6. Follows(table, Offer(f, e), end)
    BY <2>1, <2>5 DEF Follows
  <2>. QED BY <2>6 DEF end
<1>. QED BY <1>2, <1>3, <1>4

(* A queue after get(). *)
Drained(f) == [f EXCEPT !.q = Tail(@), !.next = Head(f.q).sequence + 1]

LEMMA DrainFollows ==
    ASSUME NEW table, NEW f \in Feeds, f.q # <<>>, NEW end \in Nat, Follows(table, f, end)
    PROVE  Follows(table, Drained(f), end)
<1>. DEFINE rest == Tail(f.q)
            next == f.q[1].sequence + 1
<1>1. f.q \in Seq(Notices) /\ f.next \in Nat
  BY DEF Feeds, Notices
<1>2. /\ Drained(f).q = rest /\ Drained(f).next = next
      /\ Drained(f).on = f.on /\ Drained(f).overflowed = f.overflowed
  BY <1>1 DEF Drained, Feeds
<1>3. /\ 1 \in DOMAIN f.q /\ DOMAIN f.q = 1 .. Len(f.q) /\ Len(f.q) \in Nat
      /\ \A i \in DOMAIN rest : i \in Nat /\ rest[i] = f.q[i + 1] /\ i + 1 \in DOMAIN f.q
      /\ \A i \in DOMAIN f.q : i # 1 => i - 1 \in DOMAIN rest /\ rest[i - 1] = f.q[i]
  BY <1>1
<1>4. \A i \in DOMAIN f.q : f.q[i].sequence \in Nat
  BY QueueType
<1>. HIDE DEF rest
<1>6. ASSUME f.on, ~f.overflowed
      PROVE  /\ next \in 1 .. end
             /\ \A i \in DOMAIN rest : rest[i].sequence \in next .. (end - 1)
             /\ \A i, j \in DOMAIN rest : i < j => rest[i].sequence < rest[j].sequence
             /\ \A n \in next .. (end - 1) :
                    table[n].sequence # 0 => \E i \in DOMAIN rest : rest[i].sequence = n
  <2>1. /\ f.next \in 1 .. end
        /\ \A i \in DOMAIN f.q : f.q[i].sequence \in f.next .. (end - 1)
        /\ \A i, j \in DOMAIN f.q : i < j => f.q[i].sequence < f.q[j].sequence
        /\ \A n \in f.next .. (end - 1) :
                table[n].sequence # 0 => \E i \in DOMAIN f.q : f.q[i].sequence = n
    BY <1>6 DEF Follows
  <2>2. ASSUME NEW n \in next .. (end - 1), table[n].sequence # 0, n >= f.next
        PROVE  \E i \in DOMAIN rest : rest[i].sequence = n
    <3>1. n \in f.next .. (end - 1) /\ n > f.q[1].sequence
      BY <1>1, <1>3, <1>4, <2>2
    <3>2. PICK i \in DOMAIN f.q : f.q[i].sequence = n
      BY <2>1, <2>2, <3>1
    <3>3. i # 1
      BY <1>3, <1>4, <3>1, <3>2
    <3>. QED BY <1>3, <3>2, <3>3
  <2>3. ASSUME NEW i \in DOMAIN rest, NEW j \in DOMAIN rest, i < j
        PROVE  rest[i].sequence < rest[j].sequence
    <3>1. i + 1 < j + 1
      BY <1>3, <2>3
    <3>. QED BY <1>3, <2>1, <3>1
  <2>4. \A n \in next .. (end - 1) : n >= f.next
    BY <1>1, <1>3, <1>4, <2>1
  <2>5. next \in 1 .. end
    BY <1>3, <1>4, <2>1
  <2>6. ASSUME NEW i \in DOMAIN rest PROVE rest[i].sequence \in next .. (end - 1)
    <3>1. PICK k \in DOMAIN f.q : 1 < k /\ rest[i] = f.q[k]
      <4>1. i \in Nat /\ i # 0
        BY <1>1 DEF rest
      <4>. QED BY <1>3, <4>1
    <3>2. f.q[1].sequence < f.q[k].sequence
      BY <1>3, <2>1, <3>1
    <3>3. f.q[k].sequence \in f.next .. (end - 1)
      BY <2>1
    <3>4. f.q[1].sequence \in Nat /\ f.q[k].sequence \in Nat
      BY <1>3, <1>4
    <3>. QED BY <3>1, <3>2, <3>3, <3>4
  <2>. QED BY <2>2, <2>3, <2>4, <2>5, <2>6
<1>. HIDE DEF next
<1>. QED BY <1>2, <1>6 DEF Follows

LEMMA FreshFollows ==
    ASSUME NEW table, NEW end \in Nat \ {0}
    PROVE  /\ Follows(table, Unsubscribed, end)
           /\ Follows(table, [Unsubscribed EXCEPT !.on = TRUE, !.next = end], end)
<1>1. ~Unsubscribed.on
  BY DEF Unsubscribed
<1> DEFINE f == [Unsubscribed EXCEPT !.on = TRUE, !.next = end]
<1>3. f.q = <<>> /\ f.next = end
  BY DEF Unsubscribed
<1>. HIDE DEF f
<1>4. Follows(table, f, end)
  BY <1>3 DEF Follows
<1>. QED BY <1>1, <1>4 DEF Follows, f

(* A queue follows two tables that number the same rows. *)
LEMMA FollowsSame ==
    ASSUME NEW table, NEW other, NEW f \in Feeds, NEW end \in Nat, Follows(table, f, end),
           \A n \in 1 .. (end - 1) : other[n] = table[n]
    PROVE  Follows(other, f, end)
<1>1. f.next \in Nat
  BY DEF Feeds
<1>2. f.next \in 1 .. end => \A n \in f.next .. (end - 1) : n \in 1 .. (end - 1)
  BY <1>1
<1>. QED BY <1>2 DEF Follows

(* A row that is left without its number is offered to no queue. *)
LEMMA FollowsPast ==
    ASSUME NEW table, NEW f \in Feeds, NEW last \in Nat, Follows(table, f, last),
           table[last].sequence = 0
    PROVE  Follows(table, f, last + 1)
<1>1. f.next \in Nat /\ f.q \in Seq(Notices)
  BY DEF Feeds, Notices
<1>2. \A i \in DOMAIN f.q : f.q[i].sequence \in Nat
  BY QueueType
<1>3. /\ \A i \in DOMAIN f.q : f.q[i].sequence \in f.next .. (last - 1)
            => f.q[i].sequence \in f.next .. ((last + 1) - 1)
      /\ f.next \in 1 .. last => f.next \in 1 .. (last + 1)
  BY <1>1, <1>2
<1>4. \A n \in f.next .. ((last + 1) - 1) : n = last \/ n \in f.next .. (last - 1)
  BY <1>1
<1>. QED BY <1>3, <1>4 DEF Follows

LEMMA FollowsStep ==
    ASSUME TypeOK, Custody, [Next]_vars,
           \A s \in Subscribers : Follows(rows, feed[s], Unoffered)
    PROVE  \A s \in Subscribers : Follows(rows', feed'[s], Unoffered')
<1>. SUFFICES ASSUME NEW s \in Subscribers PROVE Follows(rows', feed'[s], Unoffered')
  OBVIOUS
<1>0. /\ rows \in Seq(Rows) /\ Len(rows) \in Nat /\ DOMAIN rows = 1 .. Len(rows)
      /\ feed[s] \in Feeds
      /\ Unoffered \in Nat \ {0} /\ Follows(rows, feed[s], Unoffered)
  BY UnofferedType DEF TypeOK
<1>1. ASSUME NEW w \in Writers, Build(w) \/ AppendStep(w) \/ Refuse(w)
      PROVE  Follows(rows', feed'[s], Unoffered')
  <2>1. CASE feed' = feed /\ rows' = rows /\ (Late' <=> Late)
    <3>1. Unoffered' = Unoffered
      BY <2>1 DEF Unoffered
    <3>. QED BY <1>0, <2>1, <3>1
  <2>2. CASE /\ feed' = feed /\ rows' = Append(rows, staged) /\ staged \in Rows
             /\ ~Late /\ Late'
    <3>1. Len(rows') = Len(rows) + 1 /\ \A n \in 1 .. Len(rows) : rows'[n] = rows[n]
      BY <1>0, <2>2
    <3>2. Unoffered' = Unoffered /\ Unoffered - 1 = Len(rows)
      BY <1>0, <2>2, <3>1 DEF Unoffered
    <3>3. Follows(rows', feed[s], Unoffered)
      BY <1>0, <3>1, <3>2, FollowsSame
    <3>. QED BY <2>2, <3>2, <3>3
  <2>3. CASE /\ feed' = feed /\ Len(rows') = Len(rows) /\ Late /\ Late'
             /\ \A n \in DOMAIN rows : n # Len(rows) => rows'[n] = rows[n]
    <3>1. Unoffered' = Unoffered /\ Unoffered = Len(rows)
      BY <2>3 DEF Unoffered
    <3>2. \A n \in 1 .. (Unoffered - 1) : rows'[n] = rows[n]
      BY <1>0, <2>3, <3>1
    <3>3. Follows(rows', feed[s], Unoffered)
      BY <1>0, <3>2, FollowsSame
    <3>. QED BY <2>3, <3>1, <3>3
  <2>4. CASE /\ feed' = feed /\ rows' = rows /\ Late /\ ~Late'
             /\ rows[Len(rows)].sequence = 0
    <3>1. Unoffered = Len(rows) /\ Unoffered' = Len(rows) + 1
      BY <2>4 DEF Unoffered
    <3>. QED BY <1>0, <2>4, <3>1, FollowsPast
  <2>5. CASE /\ Late /\ ~Late' /\ rows' = rows /\ env[w] \in Rows
             /\ env[w].sequence = Len(rows)
             /\ \A r \in Subscribers : feed'[r] = Offer(feed[r], env[w])
    <3>1. Unoffered = env[w].sequence /\ Unoffered' = env[w].sequence + 1
      BY <2>5 DEF Unoffered
    <3>. QED BY <1>0, <2>5, <3>1, OfferFollows
  <2>. QED BY <1>1, <2>1, <2>2, <2>3, <2>4, <2>5, AppendEffects
<1>2. ASSUME rows' = rows, pc' = pc PROVE Unoffered' = Unoffered
  BY <1>2 DEF Unoffered, Late, PastCommit
<1>3. ASSUME NEW r \in Subscribers, Subscribe(r) PROVE Follows(rows', feed'[s], Unoffered')
  <2>1. rows' = rows /\ Unoffered' = Unoffered /\ Unoffered = Len(rows) + 1
    BY <1>2, <1>3, FreeIsOnTime DEF Subscribe, Unoffered
  <2>2. \/ feed'[s] = feed[s]
        \/ feed'[s] = [Unsubscribed EXCEPT !.on = TRUE, !.next = Len(rows) + 1]
    BY <1>3 DEF Subscribe, TypeOK
  <2>3. Len(rows) + 1 \in Nat \ {0}
    BY <1>0
  <2>4. Follows(rows, [Unsubscribed EXCEPT !.on = TRUE, !.next = Len(rows) + 1], Len(rows) + 1)
    BY <2>3, FreshFollows
  <2>. QED BY <1>0, <2>1, <2>2, <2>4
<1>4. ASSUME NEW r \in Subscribers, Unsubscribe(r) PROVE Follows(rows', feed'[s], Unoffered')
  <2>1. rows' = rows /\ Unoffered' = Unoffered
    BY <1>2, <1>4 DEF Unsubscribe
  <2>2. feed'[s] = feed[s] \/ feed'[s] = Unsubscribed
    BY <1>4 DEF Unsubscribe, TypeOK
  <2>. QED BY <1>0, <2>1, <2>2, FreshFollows
<1>5. ASSUME NEW r \in Subscribers, Consume(r) PROVE Follows(rows', feed'[s], Unoffered')
  <2>1. rows' = rows /\ Unoffered' = Unoffered
    BY <1>2, <1>5 DEF Consume
  <2>2. feed'[s] = feed[s] \/ (feed[s].q # <<>> /\ feed'[s] = Drained(feed[s]))
    BY <1>5 DEF Consume, TypeOK, Drained
  <2>. QED BY <1>0, <2>1, <2>2, DrainFollows
<1>6. ASSUME Restart PROVE Follows(rows', feed'[s], Unoffered')
  <2>1. feed'[s] = Unsubscribed
    BY <1>6 DEF Restart
  <2>. QED BY <2>1 DEF Follows, Unsubscribed
<1>7. ASSUME UNCHANGED vars PROVE Follows(rows', feed'[s], Unoffered')
  <2>1. rows' = rows /\ pc' = pc /\ feed' = feed
    BY <1>7 DEF vars
  <2>. QED BY <1>0, <1>2, <2>1
<1>. QED BY <1>1, <1>3, <1>4, <1>5, <1>6, <1>7 DEF Next

-----------------------------------------------------------------------------
(* The readers keep their types. *)
LEMMA ReadersTyped ==
    ASSUME TypeOK, Positions, PublishedIsDurable, FeedsTypeOK, [FeedsNext]_allVars
    PROVE  FeedsTypeOK'
<1>0. /\ Sse \in Subscribers /\ feed[Sse] \in Feeds
      /\ ReplayLimit \in Nat \ {0} /\ PageSize \in Nat \ {0} /\ client.last \in Nat
      /\ export.cursor \in Nat /\ \A i \in DOMAIN client.todo : client.todo[i] \in Entries
  BY FeedsAssumption DEF TypeOK, FeedsTypeOK
<1>0a. <<>> \in Seq(Entries)
  OBVIOUS
<1>1. CASE UNCHANGED readers
  BY <1>1 DEF readers, FeedsTypeOK
<1>2. CASE Connect
  BY <1>2 DEF Connect, FeedsTypeOK
<1>3. CASE Replay
  <2>1. Query(client.last, Forever, ReplayLimit) \in Seq(Entries)
    BY <1>0, QueryReturns
  <2>. QED BY <1>3, <2>1 DEF Replay, FeedsTypeOK
<1>4. CASE KeyError \/ ClientLeaves \/ AllRestart
  <2>1. /\ client' = [client EXCEPT !.pc = "off", !.todo = <<>>] /\ got' = got
        /\ gap' = (gap \/ feed[Sse].overflowed) /\ (export' = export \/ export' = NoExport)
    BY <1>4 DEF KeyError, ClientLeaves, AllRestart, HangsUp
  <2>2. client' \in [pc: {"off", "subscribed", "live"}, last: Nat, todo: Seq(Entries)]
    BY <1>0a, <2>1 DEF FeedsTypeOK
  <2>3. gap' \in BOOLEAN
    BY <2>1
  <2>4. export' \in [pc: {"none", "reading", "built"}, since: Nat, cursor: Nat,
                     until: Windows \union {Forever}, rows: Seq(Entries)]
    <3>1. CASE export' = export
      BY <3>1 DEF FeedsTypeOK
    <3>2. CASE export' = NoExport
      BY <1>0a, <3>2, FeedsAssumption DEF NoExport
    <3>. QED BY <2>1, <3>1, <3>2
  <2>. QED BY <2>1, <2>2, <2>3, <2>4 DEF FeedsTypeOK
<1>5. CASE WriteReplayed
  <2>1. Head(client.todo) \in Entries /\ Tail(client.todo) \in Seq(Entries)
    BY <1>5 DEF WriteReplayed, FeedsTypeOK
  <2>2. Head(client.todo).row.sequence \in Nat \ {0}
    BY <1>5, <2>1 DEF WriteReplayed, Numberless, Entries, Rows
  <2>. QED BY <1>5, <2>1, <2>2 DEF WriteReplayed, Receives, FeedsTypeOK
<1>6. CASE WriteLive
  <2>1. 1 \in DOMAIN feed[Sse].q
    BY <1>0, <1>6 DEF WriteLive, Consume, Feeds
  <2>2. feed[Sse].q[1].sequence \in DOMAIN rows
    BY <1>0, <2>1 DEF PublishedIsDurable
  <2>3. Head(feed[Sse].q).sequence \in Nat \ {0}
    BY <2>1, <2>2 DEF TypeOK
  <2>. QED BY <1>6, <2>3 DEF WriteLive, Receives, FeedsTypeOK
<1>7. ASSUME NEW until \in Windows \union {Forever}, Begins(until) PROVE FeedsTypeOK'
  BY <1>7 DEF Begins, FeedsTypeOK, TypeOK
<1>8. CASE Page
  <2> DEFINE batch == Query(export.cursor, export.until, PageSize)
  <2>1. batch \in Seq(Entries)
    BY <1>0, QueryReturns
  <2>2. /\ UNCHANGED <<client, got, gap>>
        /\ export' = IF batch = <<>>
                     THEN IF export.rows # <<>> /\ Numberless(export.rows[1])
                          THEN NoExport ELSE [export EXCEPT !.pc = "built"]
                     ELSE IF Numberless(batch[Len(batch)]) THEN NoExport
                     ELSE [export EXCEPT !.rows = @ \o batch, !.cursor = CursorAfter(batch)]
    BY <1>8 DEF Page
  <2>. HIDE DEF batch
  <2>3. CASE export' = NoExport
    <3>1. export' \in [pc: {"none", "reading", "built"}, since: Nat, cursor: Nat,
                       until: Windows \union {Forever}, rows: Seq(Entries)]
      BY <1>0a, <2>3, FeedsAssumption DEF NoExport
    <3>. QED BY <2>2, <3>1 DEF FeedsTypeOK
  <2>4. CASE export' = [export EXCEPT !.pc = "built"]
    BY <2>2, <2>4 DEF FeedsTypeOK
  <2>5. CASE batch # <<>> /\ ~Numberless(batch[Len(batch)])
    <3>0. Len(batch) \in DOMAIN batch
      BY <2>1, <2>5
    <3>0a. batch[Len(batch)] \in Entries
      BY <2>1, <3>0
    <3>1. CursorAfter(batch) \in Nat
      BY <3>0a DEF CursorAfter, Entries, Rows
    <3>2. export.rows \o batch \in Seq(Entries)
      BY <2>1 DEF FeedsTypeOK
    <3>3. export' = [export EXCEPT !.rows = export.rows \o batch,
                                   !.cursor = CursorAfter(batch)]
      BY <2>2, <2>5
    <3>. HIDE DEF CursorAfter
    <3>. QED BY <2>2, <3>1, <3>2, <3>3 DEF FeedsTypeOK
  <2>. QED BY <2>2, <2>3, <2>4, <2>5
<1>9. CASE Served
  BY <1>9 DEF Served, FeedsTypeOK, NoExport
<1>. QED
  BY <1>1, <1>2, <1>3, <1>4, <1>5, <1>6, <1>7, <1>8, <1>9
  DEF FeedsNext, StoreStep, allVars, readers

-----------------------------------------------------------------------------
(* The client writes the next row of its replay, or the next of its queue, *)
(* and the queue is offered one envelope more.                             *)
Clients == [pc: {"off", "subscribed", "live"}, last: Nat, todo: Seq(Entries)]

LEMMA ReplayedTracks ==
    ASSUME NEW table, NEW c \in Clients, NEW had \in SUBSET Nat, NEW q, NEW end \in Nat \ {0},
           Tracks(table, c, had, q, end), c.todo # <<>>,
           Head(c.todo).row.sequence = Place(Head(c.todo))
    PROVE  Tracks(table, [c EXCEPT !.last = Head(c.todo).row.sequence, !.todo = Tail(@)],
                  had \union {Head(c.todo).row.sequence}, q, end)
<1> DEFINE n == Head(c.todo).row.sequence
           d == [c EXCEPT !.last = n, !.todo = Tail(@)]
<1>1. /\ c.todo \in Seq(Entries) /\ c.last \in Nat /\ 1 \in DOMAIN c.todo
      /\ Head(c.todo) = c.todo[1]
  BY DEF Clients
<1>2. n = c.last + 1
  BY <1>1 DEF Tracks
<1>3. d.pc = c.pc /\ d.last = n /\ d.todo = Tail(c.todo)
  BY DEF Clients
<1>4. /\ \A i \in DOMAIN Tail(c.todo) : Tail(c.todo)[i] = c.todo[i + 1]
                                        /\ i + 1 \in DOMAIN c.todo
      /\ \A i \in DOMAIN c.todo : i # 1 => i - 1 \in DOMAIN Tail(c.todo)
                                           /\ Tail(c.todo)[i - 1] = c.todo[i]
  BY <1>1
<1>5. Place(c.todo[1]) = n
  BY <1>1
<1>. HIDE DEF n, d
<1>6. /\ d.last \in had \union {n}
      /\ \A k \in 1 .. d.last : table[k].sequence # 0 => k \in had \union {n}
  BY <1>1, <1>2, <1>3 DEF Tracks
<1>7. \A i \in DOMAIN d.todo : Place(d.todo[i]) = d.last + i
  <2>. SUFFICES ASSUME NEW i \in DOMAIN Tail(c.todo)
                PROVE  Place(Tail(c.todo)[i]) = n + i
    BY <1>3
  <2>1. i \in Nat
    BY <1>1
  <2>2. Place(c.todo[i + 1]) = c.last + (i + 1)
    BY <1>4 DEF Tracks
  <2>3. c.last + (i + 1) = n + i
    BY <1>1, <1>2, <2>1
  <2>. QED BY <1>4, <2>2, <2>3
<1>8. ASSUME d.pc = "live", NEW k \in 1 .. (end - 1), table[k].sequence # 0
      PROVE  \/ k \in had \union {n}
             \/ \E i \in DOMAIN d.todo : Place(d.todo[i]) = k
             \/ \E i \in DOMAIN q : q[i].sequence = k
  <2>1. \/ k \in had
        \/ \E i \in DOMAIN c.todo : Place(c.todo[i]) = k
        \/ \E i \in DOMAIN q : q[i].sequence = k
    BY <1>3, <1>8 DEF Tracks
  <2>2. ASSUME NEW i \in DOMAIN c.todo, Place(c.todo[i]) = k, k # n
        PROVE  \E j \in DOMAIN d.todo : Place(d.todo[j]) = k
    <3>1. i # 1
      BY <1>5, <2>2
    <3>2. i - 1 \in DOMAIN d.todo /\ d.todo[i - 1] = c.todo[i]
      BY <1>3, <1>4, <3>1
    <3>. QED BY <2>2, <3>2
  <2>. QED BY <2>1, <2>2
<1>9. Tracks(table, d, had \union {n}, q, end)
  BY <1>6, <1>7, <1>8 DEF Tracks
<1>. QED BY <1>9 DEF d, n

LEMMA LiveTracks ==
    ASSUME NEW table, NEW c \in Clients, NEW had \in SUBSET Nat, NEW f \in Feeds,
           NEW end \in Nat \ {0},
           Tracks(table, c, had, f.q, end), c.pc = "live", c.todo = <<>>, f.q # <<>>,
           Follows(table, f, end), f.on, ~f.overflowed
    PROVE  Tracks(table, [c EXCEPT !.last = Head(f.q).sequence],
                  had \union {Head(f.q).sequence}, Tail(f.q), end)
<1> DEFINE n == Head(f.q).sequence
           d == [c EXCEPT !.last = n]
<1>1. /\ f.q \in Seq(Notices) /\ 1 \in DOMAIN f.q /\ Head(f.q) = f.q[1]
      /\ DOMAIN f.q = 1 .. Len(f.q) /\ Len(f.q) \in Nat
      /\ \A i \in DOMAIN f.q : f.q[i].sequence \in Nat
  <2>1. f.q \in Seq(Notices) /\ \A i \in DOMAIN f.q : f.q[i].sequence \in Nat
    BY QueueType
  <2>. QED BY <2>1
<1>2. /\ f.next \in 1 .. end
      /\ \A i \in DOMAIN f.q : f.q[i].sequence \in f.next .. (end - 1)
      /\ \A i, j \in DOMAIN f.q : i < j => f.q[i].sequence < f.q[j].sequence
  BY DEF Follows
<1>3. n \in Nat /\ n < end /\ f.q[1].sequence = n
  BY <1>1, <1>2
<1>4. d.pc = "live" /\ d.last = n /\ d.todo = <<>>
  BY DEF Clients
<1>5. \A i \in DOMAIN f.q : i # 1 => i - 1 \in DOMAIN Tail(f.q)
                                     /\ Tail(f.q)[i - 1] = f.q[i]
  BY <1>1
<1>. HIDE DEF n, d
<1>6. ASSUME NEW k \in 1 .. (end - 1), table[k].sequence # 0
      PROVE  k \in had \/ \E i \in DOMAIN f.q : f.q[i].sequence = k
  BY <1>6 DEF Tracks
<1>7. ASSUME NEW k \in 1 .. n, table[k].sequence # 0 PROVE k \in had \union {n}
  <2>1. k \in 1 .. (end - 1)
    BY <1>3
  <2>2. ASSUME NEW i \in DOMAIN f.q, f.q[i].sequence = k PROVE k = n
    <3>1. ASSUME i # 1 PROVE n < k
      <4>1. 1 < i
        BY <1>1, <2>2, <3>1
      <4>2. f.q[1].sequence < f.q[i].sequence
        BY <1>1, <1>2, <2>2, <4>1
      <4>. QED BY <1>3, <2>2, <4>2
    <3>. QED BY <1>3, <2>2, <3>1
  <2>. QED BY <1>6, <1>7, <2>1, <2>2
<1>8. ASSUME NEW k \in 1 .. (end - 1), table[k].sequence # 0, k \notin had \union {n}
      PROVE  \E i \in DOMAIN Tail(f.q) : Tail(f.q)[i].sequence = k
  <2>1. PICK i \in DOMAIN f.q : f.q[i].sequence = k
    BY <1>6, <1>8
  <2>2. i # 1
    BY <1>3, <1>8, <2>1
  <2>3. i - 1 \in DOMAIN Tail(f.q) /\ Tail(f.q)[i - 1] = f.q[i]
    BY <1>5, <2>2
  <2>. QED BY <2>1, <2>3
<1>9. Tracks(table, d, had \union {n}, Tail(f.q), end)
  BY <1>4, <1>7, <1>8 DEF Tracks
<1>. QED BY <1>9 DEF d, n

LEMMA OfferTracks ==
    ASSUME NEW table, NEW c \in Clients, NEW had \in SUBSET Nat, NEW f \in Feeds, f.on,
           NEW e \in Rows, e.sequence # 0, Tracks(table, c, had, f.q, e.sequence),
           ~Offer(f, e).overflowed
    PROVE  Tracks(table, c, had, Offer(f, e).q, e.sequence + 1)
<1>. DEFINE notice == [id |-> e.id, sequence |-> e.sequence]
            longer == Append(f.q, notice)
<1>1. f.q \in Seq(Notices) /\ notice \in Notices /\ e.sequence \in Nat
  BY DEF Feeds, Notices, Rows
<1>2. Len(f.q) < QueueLimit
  BY DEF Offer, Feeds
<1>3. Offer(f, e).q = longer
  BY <1>2 DEF Offer, Feeds
<1>4. /\ \A i \in DOMAIN f.q : i \in DOMAIN longer /\ longer[i] = f.q[i]
      /\ Len(f.q) + 1 \in DOMAIN longer /\ longer[Len(f.q) + 1] = notice
  BY <1>1
<1>5. longer[Len(f.q) + 1].sequence = e.sequence
  BY <1>4
<1>. HIDE DEF longer, notice
<1>6. ASSUME c.pc = "live", NEW n \in 1 .. e.sequence
      PROVE  \/ table[n].sequence = 0
             \/ n \in had
             \/ \E i \in DOMAIN c.todo : Place(c.todo[i]) = n
             \/ \E i \in DOMAIN longer : longer[i].sequence = n
  <2>1. CASE n = e.sequence
    BY <1>4, <1>5, <2>1
  <2>2. CASE n # e.sequence
    <3>1. n \in 1 .. (e.sequence - 1)
      BY <1>1, <2>2
    <3>2. \/ table[n].sequence = 0
          \/ n \in had
          \/ \E i \in DOMAIN c.todo : Place(c.todo[i]) = n
          \/ \E i \in DOMAIN f.q : f.q[i].sequence = n
      BY <1>6, <3>1 DEF Tracks
    <3>. QED BY <1>4, <3>2
  <2>. QED BY <2>1, <2>2
<1> DEFINE end == e.sequence + 1
<1>7. end - 1 = e.sequence
  BY <1>1
<1>8. /\ c.last = 0 \/ c.last \in had
      /\ \A n \in 1 .. c.last : table[n].sequence # 0 => n \in had
      /\ \A i \in DOMAIN c.todo : Place(c.todo[i]) = c.last + i
  BY DEF Tracks
<1>. HIDE DEF end
<1>9. c.pc = "live" =>
        \A n \in 1 .. (end - 1) :
            \/ table[n].sequence = 0
            \/ n \in had
            \/ \E i \in DOMAIN c.todo : Place(c.todo[i]) = n
            \/ \E i \in DOMAIN longer : longer[i].sequence = n
  BY <1>6, <1>7
<1>10. Tracks(table, c, had, longer, end)
  BY <1>8, <1>9 DEF Tracks
<1>. QED BY <1>3, <1>10 DEF end

(* Only the row a client has had last may get its number behind its back.  *)
LEMMA TracksSame ==
    ASSUME NEW table, NEW other, NEW c \in Clients, NEW had, NEW q, NEW end \in Nat,
           Tracks(table, c, had, q, end),
           \A n \in 1 .. (end - 1) : other[n] = table[n],
           \A n \in 1 .. c.last : n = c.last \/ other[n] = table[n]
    PROVE  Tracks(other, c, had, q, end)
<1>1. c.last \in Nat
  BY DEF Clients
<1>2. ASSUME NEW n \in 1 .. c.last, other[n].sequence # 0 PROVE n \in had
  <2>1. CASE n = c.last
    BY <1>1, <2>1 DEF Tracks
  <2>2. CASE n # c.last
    BY <1>2, <2>2 DEF Tracks
  <2>. QED BY <2>1, <2>2
<1>. QED BY <1>2 DEF Tracks

LEMMA TracksPast ==
    ASSUME NEW table, NEW c \in Clients, NEW had, NEW q, NEW last \in Nat,
           Tracks(table, c, had, q, last), table[last].sequence = 0
    PROVE  Tracks(table, c, had, q, last + 1)
<1>1. \A n \in 1 .. ((last + 1) - 1) : n = last \/ n \in 1 .. (last - 1)
  OBVIOUS
<1>. QED BY <1>1 DEF Tracks

LEMMA UnofferedKept ==
    ASSUME rows' = rows, pc' = pc PROVE Unoffered' = Unoffered
  BY DEF Unoffered, Late, PastCommit

(* A client that is not following the queue tracks any end. *)
LEMMA AwayTracks ==
    ASSUME NEW table, NEW c \in Clients, NEW had, NEW q, NEW end,
           Tracks(table, c, had, q, end),
           NEW d \in Clients, d.pc # "live", d.last = c.last,
           d.todo = c.todo \/ d.todo = <<>>, NEW p, NEW other
    PROVE  Tracks(table, d, had, p, other)
  BY DEF Tracks

LEMMA ReplayingStep ==
    ASSUME TypeOK, Custody, PublishedIsDurable, Positions, Following,
           [FeedsNext]_allVars
    PROVE  Replaying'
<1>0. /\ Sse \in Subscribers /\ feed[Sse] \in Feeds /\ client \in Clients
      /\ got \in SUBSET Nat /\ Unoffered \in Nat \ {0} /\ client' \in Clients
      /\ ReplayLimit \in Nat \ {0} /\ client.last \in Nat /\ gap \in BOOLEAN
      /\ Follows(rows, feed[Sse], Unoffered)
  <2>1. FeedsTypeOK'
    BY ReadersTyped DEF Following
  <2>. QED BY <2>1, FeedsAssumption, UnofferedType
           DEF TypeOK, Following, FeedsTypeOK, Clients
<1>0a. /\ rows \in Seq(Rows) /\ Len(rows) \in Nat /\ DOMAIN rows = 1 .. Len(rows)
       /\ client.last <= Len(rows)
       /\ \A i \in DOMAIN client.todo : Place(client.todo[i]) \in Nat
  <2>1. \A i \in DOMAIN client.todo : client.todo[i] \in Entries
    BY <1>0 DEF Clients
  <2>. QED BY <2>1 DEF TypeOK, Following, Replaying, Entries, Place
<1>1. CASE StoreStep
  <2>1. PICK w \in Writers : Build(w) \/ AppendStep(w) \/ Refuse(w)
    BY <1>1 DEF StoreStep
  <2>2. client' = client /\ got' = got /\ gap' = gap
    BY <1>1 DEF StoreStep, readers
  <2>3. ASSUME feed' = feed, Len(rows') \in Nat, Len(rows') >= Len(rows),
               Tracks(rows, client, got, feed[Sse].q, Unoffered)
                    => Tracks(rows', client, got, feed[Sse].q, Unoffered')
        PROVE  Replaying'
    <3>1. /\ client.last <= Len(rows')
          /\ \A i \in DOMAIN client.todo :
                Place(client.todo[i]) <= Len(rows) => Place(client.todo[i]) <= Len(rows')
      BY <1>0, <1>0a, <2>3
    <3>. QED BY <2>2, <2>3, <3>1 DEF Following, Replaying
  <2>4. CASE feed' = feed /\ rows' = rows /\ (Late' <=> Late)
    <3>1. Unoffered' = Unoffered
      BY <2>4 DEF Unoffered
    <3>. QED BY <1>0a, <2>3, <2>4, <3>1
  <2>5. CASE /\ feed' = feed /\ rows' = Append(rows, staged) /\ staged \in Rows
             /\ ~Late /\ Late'
    <3>1. Len(rows') = Len(rows) + 1 /\ \A n \in 1 .. Len(rows) : rows'[n] = rows[n]
      BY <1>0a, <2>5
    <3>2. Unoffered' = Unoffered /\ Unoffered - 1 = Len(rows)
      BY <1>0a, <2>5, <3>1 DEF Unoffered
    <3>3. \A n \in 1 .. client.last : n \in 1 .. Len(rows)
      BY <1>0, <1>0a
    <3>4. ASSUME Tracks(rows, client, got, feed[Sse].q, Unoffered)
          PROVE  Tracks(rows', client, got, feed[Sse].q, Unoffered)
      BY <1>0, <3>1, <3>2, <3>3, <3>4, TracksSame
    <3>. QED BY <1>0a, <2>3, <2>5, <3>1, <3>2, <3>4
  <2>6. CASE /\ feed' = feed /\ Len(rows') = Len(rows) /\ Late /\ Late'
             /\ \A n \in DOMAIN rows : n # Len(rows) => rows'[n] = rows[n]
    <3>1. Unoffered' = Unoffered /\ Unoffered = Len(rows)
      BY <2>6 DEF Unoffered
    <3>2. /\ \A n \in 1 .. (Unoffered - 1) : rows'[n] = rows[n]
          /\ \A n \in 1 .. client.last : n = client.last \/ rows'[n] = rows[n]
      BY <1>0, <1>0a, <2>6, <3>1
    <3>3. ASSUME Tracks(rows, client, got, feed[Sse].q, Unoffered)
          PROVE  Tracks(rows', client, got, feed[Sse].q, Unoffered)
      BY <1>0, <3>2, <3>3, TracksSame
    <3>. QED BY <1>0a, <2>3, <2>6, <3>1, <3>3
  <2>7. CASE /\ feed' = feed /\ rows' = rows /\ Late /\ ~Late'
             /\ rows[Len(rows)].sequence = 0
    <3>1. Unoffered = Len(rows) /\ Unoffered' = Len(rows) + 1
      BY <2>7 DEF Unoffered
    <3>2. ASSUME Tracks(rows, client, got, feed[Sse].q, Unoffered)
          PROVE  Tracks(rows, client, got, feed[Sse].q, Unoffered')
      BY <1>0, <1>0a, <2>7, <3>1, <3>2, TracksPast
    <3>. QED BY <1>0a, <2>3, <2>7, <3>2
  <2>8. CASE /\ Late /\ ~Late' /\ rows' = rows /\ env[w] \in Rows
             /\ env[w].sequence = Len(rows) /\ Len(rows) \in DOMAIN rows
             /\ feed'[Sse] = Offer(feed[Sse], env[w])
    <3>1. /\ Unoffered = env[w].sequence /\ Unoffered' = env[w].sequence + 1
          /\ env[w].sequence # 0
      BY <2>8, <1>0a DEF Unoffered
    <3>2. CASE client.pc = "off"
      <4>1. feed[Sse] = Unsubscribed /\ ~feed[Sse].on
        BY <3>2 DEF Following, Replaying, Unsubscribed
      <4>2. feed'[Sse] = feed[Sse]
        BY <2>8, <4>1 DEF Offer
      <4>3. ~gap => Tracks(rows, client, got, feed[Sse].q, Unoffered')
        BY <1>0, <3>2, <4>1, AwayTracks DEF Following, Replaying, Unsubscribed
      <4>. QED BY <2>2, <2>8, <3>2, <4>1, <4>2, <4>3 DEF Following, Replaying
    <3>3. CASE client.pc # "off"
      <4>1. feed[Sse].on
        BY <3>3 DEF Following, Replaying
      <4>2. feed'[Sse].on /\ (feed[Sse].overflowed => feed'[Sse].overflowed)
        BY <1>0, <2>8, <4>1 DEF Offer, Feeds
      <4>3. ASSUME ~gap, ~feed'[Sse].overflowed
            PROVE  Tracks(rows, client, got, feed'[Sse].q, Unoffered')
        <5>1. Tracks(rows, client, got, feed[Sse].q, env[w].sequence)
          BY <3>1, <4>2, <4>3 DEF Following, Replaying
        <5>. QED BY <1>0, <2>8, <3>1, <4>1, <4>3, <5>1, OfferTracks
      <4>. QED BY <2>2, <2>8, <3>3, <4>2, <4>3 DEF Following, Replaying
    <3>. QED BY <3>2, <3>3
  <2>. QED BY <1>0, <2>1, <2>4, <2>5, <2>6, <2>7, <2>8, AppendEffects
<1>2. CASE Connect
  <2>1. /\ client' = [client EXCEPT !.pc = "subscribed"] /\ got' = got /\ gap' = gap
        /\ client.pc = "off"
        /\ feed' = [feed EXCEPT ![Sse] = [Unsubscribed EXCEPT !.on = TRUE,
                                                             !.next = Len(rows) + 1]]
    BY <1>2 DEF Connect, Subscribe
  <2>2. feed'[Sse].on /\ ~feed[Sse].overflowed
    BY <1>0, <2>1 DEF Following, Replaying, Unsubscribed, TypeOK
  <2>3. client'.pc = "subscribed" /\ client'.last = client.last /\ client'.todo = client.todo
    BY <1>0, <2>1 DEF Clients
  <2>4. rows' = rows
    BY <1>2 DEF Connect, Subscribe
  <2>5. ~gap' => Tracks(rows, client', got', feed'[Sse].q, Unoffered')
    BY <1>0, <2>1, <2>2, <2>3, AwayTracks DEF Following, Replaying
  <2>. QED BY <2>1, <2>2, <2>3, <2>4, <2>5 DEF Following, Replaying
<1>3. CASE Replay
  <2> DEFINE batch == Query(client.last, Forever, ReplayLimit)
             total == Cardinality(Numbers(client.last, Forever))
  <2>1. /\ client.pc = "subscribed" /\ rows' = rows /\ pc' = pc /\ feed' = feed /\ got' = got
        /\ client' = [client EXCEPT !.pc = "live", !.todo = batch]
        /\ gap' = (gap \/ total > ReplayLimit)
    BY <1>3 DEF Replay, vars
  <2>2. client'.pc = "live" /\ client'.last = client.last /\ client'.todo = batch
    BY <1>0, <2>1 DEF Clients
  <2>3. Unoffered' = Unoffered
    BY <2>1, UnofferedKept
  <2>4. feed[Sse].on
    BY <2>1 DEF Following, Replaying
  <2>5. /\ \A i \in DOMAIN batch : /\ Place(batch[i]) \in DOMAIN Visible
                                   /\ batch[i].row = Visible[Place(batch[i])]
        /\ \A i \in DOMAIN batch : Place(batch[i]) = client.last + i
        /\ total <= ReplayLimit =>
             \A n \in DOMAIN Visible : n > client.last =>
                \E i \in DOMAIN batch : Place(batch[i]) = n
        /\ total \in Nat
    <3>1. /\ \A i \in DOMAIN batch : /\ Place(batch[i]) \in DOMAIN Visible
                                     /\ Place(batch[i]) > client.last
                                     /\ batch[i].row = Visible[Place(batch[i])]
          /\ Forever = Forever => \A i \in DOMAIN batch : Place(batch[i]) = client.last + i
          /\ (Forever = Forever /\ total <= ReplayLimit) =>
               \A n \in DOMAIN Visible : n > client.last =>
                  \E i \in DOMAIN batch : Place(batch[i]) = n
          /\ total \in Nat
      BY <1>0, QueryReturns
    <3>. HIDE DEF batch, total
    <3>. QED BY <3>1
  <2>. HIDE DEF batch, total
  <2>6. \A i \in DOMAIN batch :
            \/ batch[i].row.sequence = 0
            \/ batch[i].row.sequence = Place(batch[i]) /\ Place(batch[i]) <= Len(rows)
    BY <1>0a, <2>5, WhatIsVisible
  <2>7. ASSUME ~gap', ~feed'[Sse].overflowed
        PROVE  Tracks(rows, client', got', feed'[Sse].q, Unoffered')
    <3>0. ~gap /\ ~(total > ReplayLimit)
      BY <2>1, <2>7, Zenon
    <3>1. ~gap /\ total <= ReplayLimit
      BY <1>0, <2>5, <3>0
    <3>2. /\ \A n \in 1 .. client.last : rows[n].sequence # 0 => n \in got
          /\ client.last = 0 \/ client.last \in got
      BY <2>1, <2>7, <3>1 DEF Following, Replaying, Tracks
    <3>3. ASSUME NEW n \in 1 .. (Unoffered - 1), rows[n].sequence # 0
          PROVE  n \in got \/ \E i \in DOMAIN batch : Place(batch[i]) = n
      <4>1. n \in DOMAIN rows /\ n \in Nat \ {0}
        BY <3>3, UnofferedType DEF TypeOK
      <4>2. n \in DOMAIN Visible
        BY <4>1, WhatIsVisible
      <4>3. CASE n <= client.last
        BY <1>0, <3>2, <3>3, <4>1, <4>3
      <4>4. CASE n > client.last
        BY <2>5, <3>1, <4>2, <4>4
      <4>. QED BY <1>0, <4>1, <4>3, <4>4
    <3>. QED BY <2>1, <2>2, <2>3, <2>5, <3>2, <3>3 DEF Tracks
  <2>. QED BY <1>0a, <2>1, <2>2, <2>4, <2>6, <2>7 DEF Replaying
<1>4. CASE KeyError \/ ClientLeaves \/ AllRestart
  <2>1. /\ client' = [client EXCEPT !.pc = "off", !.todo = <<>>] /\ got' = got
        /\ gap' = (gap \/ feed[Sse].overflowed) /\ feed'[Sse] = Unsubscribed
        /\ rows' = rows
    BY <1>0, <1>4 DEF KeyError, ClientLeaves, AllRestart, HangsUp, Unsubscribe, Restart, TypeOK
  <2>2. client'.pc = "off" /\ client'.last = client.last /\ client'.todo = <<>>
    BY <1>0, <2>1 DEF Clients
  <2>3. ASSUME ~gap' PROVE Tracks(rows, client', got', feed'[Sse].q, Unoffered')
    <3>1. Tracks(rows, client, got, feed[Sse].q, Unoffered)
      BY <2>1, <2>3 DEF Following, Replaying
    <3>. QED BY <1>0, <2>1, <2>2, <3>1, AwayTracks
  <2>. QED BY <1>0a, <2>1, <2>2, <2>3 DEF Replaying
<1>5. CASE WriteReplayed
  <2> DEFINE n == Head(client.todo).row.sequence
  <2>1. /\ client.pc = "live" /\ client.todo # <<>> /\ n # 0
        /\ client' = [client EXCEPT !.last = n, !.todo = Tail(@)]
        /\ got' = got \union {n} /\ gap' = gap /\ rows' = rows /\ pc' = pc /\ feed' = feed
    BY <1>5 DEF WriteReplayed, Receives, Numberless, vars
  <2>2. /\ client.todo \in Seq(Entries) /\ 1 \in DOMAIN client.todo
        /\ Head(client.todo) = client.todo[1]
    BY <1>0, <2>1 DEF Clients
  <2>3. n = Place(Head(client.todo)) /\ n <= Len(rows)
    BY <2>1, <2>2 DEF Following, Replaying
  <2>4. client'.pc = "live" /\ client'.todo = Tail(client.todo) /\ client'.last = n
    BY <1>0, <2>1 DEF Clients
  <2>5. \A i \in DOMAIN Tail(client.todo) :
            Tail(client.todo)[i] = client.todo[i + 1] /\ i + 1 \in DOMAIN client.todo
    BY <2>1, <2>2
  <2>6. \A i \in DOMAIN client'.todo :
            \/ client'.todo[i].row.sequence = 0
            \/ /\ client'.todo[i].row.sequence = Place(client'.todo[i])
               /\ Place(client'.todo[i]) <= Len(rows)
    BY <2>4, <2>5 DEF Following, Replaying
  <2>7. Unoffered' = Unoffered
    BY <2>1, UnofferedKept
  <2>8. ASSUME ~gap, ~feed[Sse].overflowed
        PROVE  Tracks(rows, client', got', feed[Sse].q, Unoffered)
    <3>1. Tracks(rows, client, got, feed[Sse].q, Unoffered)
      BY <2>8 DEF Following, Replaying
    <3>. QED BY <1>0, <2>1, <2>3, <3>1, ReplayedTracks
  <2>9. feed[Sse].on
    BY <2>1 DEF Following, Replaying
  <2>. HIDE DEF n
  <2>. QED BY <2>1, <2>3, <2>4, <2>6, <2>7, <2>8, <2>9 DEF Replaying
<1>6. CASE WriteLive
  <2> DEFINE n == Head(feed[Sse].q).sequence
  <2>1. /\ client.pc = "live" /\ client.todo = <<>> /\ feed[Sse].q # <<>>
        /\ client' = [client EXCEPT !.last = n]
        /\ got' = got \union {n} /\ gap' = gap /\ rows' = rows /\ pc' = pc
        /\ feed'[Sse] = Drained(feed[Sse])
    BY <1>0, <1>6 DEF WriteLive, Receives, Consume, Drained, TypeOK
  <2>2. client'.pc = "live" /\ client'.todo = <<>> /\ client'.last = n
    BY <1>0, <2>1 DEF Clients
  <2>2a. n <= Len(rows)
    <3>1. 1 \in DOMAIN feed[Sse].q /\ Head(feed[Sse].q) = feed[Sse].q[1]
      BY <1>0, <2>1 DEF Feeds
    <3>2. n \in DOMAIN rows
      BY <1>0, <3>1 DEF PublishedIsDurable
    <3>. QED BY <1>0a, <3>2
  <2>3. /\ feed'[Sse].q = Tail(feed[Sse].q) /\ feed'[Sse].on = feed[Sse].on
        /\ feed'[Sse].overflowed = feed[Sse].overflowed /\ feed[Sse].on
    BY <1>0, <2>1 DEF Drained, Feeds, Following, Replaying
  <2>4. Unoffered' = Unoffered
    BY <2>1, UnofferedKept
  <2>5. ASSUME ~gap, ~feed[Sse].overflowed
        PROVE  Tracks(rows, client', got', feed'[Sse].q, Unoffered)
    <3>1. Tracks(rows, client, got, feed[Sse].q, Unoffered)
      BY <2>5 DEF Following, Replaying
    <3>2. Tracks(rows, [client EXCEPT !.last = Head(feed[Sse].q).sequence],
                 got \union {Head(feed[Sse].q).sequence}, Tail(feed[Sse].q), Unoffered)
      BY <1>0, <2>1, <2>3, <2>5, <3>1, LiveTracks
    <3>. QED BY <2>1, <2>3, <3>2
  <2>. HIDE DEF n
  <2>. QED BY <2>1, <2>2, <2>2a, <2>3, <2>4, <2>5 DEF Replaying
<1>7. CASE \/ UNCHANGED allVars \/ Page \/ Served
           \/ \E until \in Windows \union {Forever} : Begins(until)
  <2>1. client' = client /\ got' = got /\ gap' = gap /\ rows' = rows /\ pc' = pc /\ feed' = feed
    BY <1>7 DEF allVars, readers, vars, Page, Served, Begins
  <2>2. Unoffered' = Unoffered
    BY <2>1, UnofferedKept
  <2>. QED BY <2>1, <2>2 DEF Following, Replaying
<1>. QED
  BY <1>1, <1>2, <1>3, <1>4, <1>5, <1>6, <1>7 DEF FeedsNext

-----------------------------------------------------------------------------
LEMMA PlaceType ==
    ASSUME NEW list \in Seq(Entries)
    PROVE  /\ \A i \in DOMAIN list : list[i] \in Entries /\ Place(list[i]) \in Nat
           /\ DOMAIN list = 1 .. Len(list) /\ Len(list) \in Nat
           /\ list # <<>> => Len(list) \in DOMAIN list
<1>1. ASSUME NEW e \in Entries PROVE Place(e) \in Nat
  BY DEF Entries, Place
<1>2. /\ \A i \in DOMAIN list : list[i] \in Entries
      /\ DOMAIN list = 1 .. Len(list) /\ Len(list) \in Nat
      /\ list # <<>> => Len(list) \in DOMAIN list
  OBVIOUS
<1>. QED BY <1>1, <1>2

(* A committed row keeps its contents. *)
LEMMA StaysInTable ==
    ASSUME TypeOK, Custody, [Next]_vars, NEW e, InTable(rows, e)
    PROVE  InTable(rows', e)
<1>1. ASSUME NEW w \in Writers, Commit(w) PROVE InTable(rows', e)
  <2>1. staged \in Rows /\ rows' = Append(rows, staged)
    BY <1>1, Inserter DEF Commit
  <2>2. \A n \in DOMAIN rows : n \in DOMAIN rows' /\ rows'[n] = rows[n]
    BY <2>1 DEF TypeOK
  <2>. QED BY <2>2 DEF InTable
<1>2. ASSUME NEW w \in Writers, CommitNumber(w) PROVE InTable(rows', e)
  <2>1. PastCommit(w)
    BY <1>2 DEF CommitNumber, PastCommit
  <2>2. /\ Len(rows) \in DOMAIN rows
        /\ rows' = [rows EXCEPT ![Len(rows)] =
                        [rows[Len(rows)] EXCEPT !.sequence = Len(rows)]]
    BY <1>2, <2>1, Numberer DEF CommitNumber
  <2>3. rows[Len(rows)] \in Rows
    BY <2>2 DEF TypeOK
  <2>4. \A n \in DOMAIN rows :
            /\ n \in DOMAIN rows' /\ rows'[n].hash = rows[n].hash
            /\ rows'[n].prev = rows[n].prev /\ rows'[n].id = rows[n].id
    BY <2>2, <2>3 DEF Rows, TypeOK
  <2>. QED BY <2>4 DEF InTable, SameRow
<1>3. CASE rows' = rows
  BY <1>3 DEF InTable
<1>4. ASSUME NEW w \in Writers,
             Build(w) \/ Acquire(w) \/ Insert(w) \/ Update(w) \/ Publish(w) \/ Refuse(w)
      PROVE  rows' = rows
  BY <1>4 DEF Build, Acquire, Insert, Update, Publish, Refuse
<1>5. ASSUME NEW s \in Subscribers, Subscribe(s) \/ Unsubscribe(s) \/ Consume(s)
      PROVE  rows' = rows
  BY <1>5 DEF Subscribe, Unsubscribe, Consume
<1>. QED
  BY <1>1, <1>2, <1>3, <1>4, <1>5 DEF Next, AppendStep, Restart, vars

(* The next page goes on where the rows so far end. *)
LEMMA PageGoesOn ==
    ASSUME NEW list \in Seq(Entries), NEW since \in Nat, NEW cursor \in Nat, NEW until,
           Slice(list, since, cursor, until),
           NEW batch \in Seq(Entries), batch # <<>>,
           \A i \in DOMAIN batch : Place(batch[i]) > cursor,
           \A i, j \in DOMAIN batch : i < j => Place(batch[i]) < Place(batch[j]),
           until = Forever => \A i \in DOMAIN batch : Place(batch[i]) = cursor + i
    PROVE  Slice(list \o batch, since, Place(batch[Len(batch)]), until)
<1> DEFINE long == list \o batch
           last == Place(batch[Len(batch)])
<1>1. /\ \A i \in DOMAIN list : Place(list[i]) \in Nat
      /\ \A i \in DOMAIN batch : Place(batch[i]) \in Nat
      /\ Len(batch) \in DOMAIN batch /\ Len(batch) \in Nat /\ Len(list) \in Nat
      /\ DOMAIN list = 1 .. Len(list) /\ DOMAIN batch = 1 .. Len(batch)
  BY PlaceType
<1>2. /\ DOMAIN long = 1 .. (Len(list) + Len(batch))
      /\ \A i \in DOMAIN list : long[i] = list[i]
      /\ \A i \in DOMAIN long : i \notin DOMAIN list =>
            i - Len(list) \in DOMAIN batch /\ long[i] = batch[i - Len(list)]
      /\ Len(long) = Len(list) + Len(batch)
  OBVIOUS
<1>. HIDE DEF long
<1>3. \A i \in DOMAIN batch : Place(batch[i]) <= last
  BY <1>1
<1>4. last \in Nat /\ last > cursor
  BY <1>1
<1>. HIDE DEF last
<1>5. ASSUME NEW i \in DOMAIN long PROVE Place(long[i]) <= last
  <2>1. CASE i \in DOMAIN list
    BY <1>1, <1>2, <1>4, <2>1 DEF Slice
  <2>2. CASE i \notin DOMAIN list
    BY <1>2, <1>3, <2>2
  <2>. QED BY <2>1, <2>2
<1>6. ASSUME NEW i \in DOMAIN long, i > 1 PROVE Place(long[i - 1]) < Place(long[i])
  <2>1. CASE i \in DOMAIN list
    <3>1. i - 1 \in DOMAIN list
      BY <1>1, <1>6, <2>1
    <3>. QED BY <1>2, <1>6, <2>1, <3>1 DEF Slice
  <2>2. CASE i = Len(list) + 1
    <3>1. i \notin DOMAIN list /\ i - 1 \in DOMAIN list
      BY <1>1, <1>6, <2>2
    <3>2. Place(long[i]) > cursor /\ Place(long[i]) \in Nat
      BY <1>1, <1>2, <3>1
    <3>3. Place(long[i - 1]) <= cursor /\ Place(long[i - 1]) \in Nat
      BY <1>1, <1>2, <3>1 DEF Slice
    <3>. QED BY <3>2, <3>3
  <2>3. CASE i \notin DOMAIN list /\ i # Len(list) + 1
    <3>1. /\ i - 1 \in DOMAIN long /\ i - 1 \notin DOMAIN list
          /\ i - 1 - Len(list) < i - Len(list)
      BY <1>1, <1>2, <1>6, <2>3
    <3>2. /\ long[i] = batch[i - Len(list)] /\ i - Len(list) \in DOMAIN batch
          /\ long[i - 1] = batch[i - 1 - Len(list)] /\ i - 1 - Len(list) \in DOMAIN batch
      BY <1>2, <2>3, <3>1
    <3>. QED BY <3>1, <3>2
  <2>. QED BY <2>1, <2>2, <2>3
<1>7. ASSUME until = Forever
      PROVE  /\ last = since + Len(long)
             /\ \A i \in DOMAIN long : Place(long[i]) = since + i
  <2>1. cursor = since + Len(list) /\ \A i \in DOMAIN list : Place(list[i]) = since + i
    BY <1>7 DEF Slice
  <2>2. \A i \in DOMAIN batch : Place(batch[i]) = cursor + i
    BY <1>7
  <2>3. last = since + Len(long)
    BY <1>1, <1>2, <2>1, <2>2 DEF last
  <2>4. ASSUME NEW i \in DOMAIN long PROVE Place(long[i]) = since + i
    <3>1. i \in Nat
      BY <1>1, <1>2
    <3>2. CASE i \in DOMAIN list
      BY <1>2, <2>1, <3>2
    <3>3. CASE i \notin DOMAIN list
      <4>1. Place(long[i]) = cursor + (i - Len(list))
        BY <1>2, <2>2, <3>3
      <4>. QED BY <1>1, <2>1, <3>1, <4>1
    <3>. QED BY <3>2, <3>3
  <2>. QED BY <2>3, <2>4
<1>8. Slice(long, since, last, until)
  BY <1>5, <1>6, <1>7 DEF Slice
<1>. QED BY <1>8 DEF long, last

LEMMA ExportingStep ==
    ASSUME TypeOK, Custody, Positions, FeedsTypeOK, Exporting, [FeedsNext]_allVars
    PROVE  Exporting'
<1>0. /\ export.rows \in Seq(Entries) /\ export.since \in Nat /\ export.cursor \in Nat
      /\ PageSize \in Nat \ {0}
  BY FeedsAssumption DEF FeedsTypeOK
<1>1. \A e \in Entries : InTable(rows, e) => InTable(rows', e)
  BY ReadersStep, StaysInTable
<1>2. CASE export' = export
  <2>1. \A i \in DOMAIN export.rows : export.rows[i] \in Entries
    BY <1>0
  <2>. QED BY <1>1, <1>2, <2>1 DEF Exporting
<1>3. CASE export'.pc \notin {"reading", "built"}
  BY <1>3 DEF Exporting
<1>4. CASE Page
  <2> DEFINE batch == Query(export.cursor, export.until, PageSize)
  <2>1. /\ batch \in Seq(Entries)
        /\ \A i \in DOMAIN batch : /\ Place(batch[i]) \in DOMAIN Visible
                                   /\ Place(batch[i]) > export.cursor
                                   /\ batch[i].row = Visible[Place(batch[i])]
        /\ \A i, j \in DOMAIN batch : i < j => Place(batch[i]) < Place(batch[j])
        /\ export.until = Forever => \A i \in DOMAIN batch : Place(batch[i]) = export.cursor + i
    BY <1>0, QueryReturns
  <2>2. /\ export.pc = "reading" /\ rows' = rows
        /\ export' = IF batch = <<>>
                     THEN IF export.rows # <<>> /\ Numberless(export.rows[1])
                          THEN NoExport ELSE [export EXCEPT !.pc = "built"]
                     ELSE IF Numberless(batch[Len(batch)]) THEN NoExport
                     ELSE [export EXCEPT !.rows = @ \o batch,
                                         !.cursor = CursorAfter(batch)]
    BY <1>4 DEF Page, vars
  <2>. HIDE DEF batch
  <2>3. /\ \A i \in DOMAIN export.rows : InTable(rows, export.rows[i])
        /\ Slice(export.rows, export.since, export.cursor, export.until)
    BY <2>2 DEF Exporting
  <2>4. CASE export' = [export EXCEPT !.pc = "built"]
    <3>1. /\ export'.rows = export.rows /\ export'.since = export.since
          /\ export'.cursor = export.cursor /\ export'.until = export.until
      BY <2>4 DEF FeedsTypeOK
    <3>2. \A i \in DOMAIN export.rows : InTable(rows', export.rows[i])
      BY <1>0, <1>1, <2>3
    <3>. QED BY <2>3, <3>1, <3>2 DEF Exporting
  <2>5. CASE export' = NoExport
    BY <1>3, <2>5 DEF NoExport
  <2>6. CASE batch # <<>> /\ ~Numberless(batch[Len(batch)])
    <3> DEFINE last == batch[Len(batch)]
               long == export.rows \o batch
    <3>1. /\ Len(batch) \in DOMAIN batch /\ DOMAIN batch = 1 .. Len(batch)
          /\ Len(batch) \in Nat /\ last \in Entries
          /\ \A i \in DOMAIN batch : batch[i] \in Entries /\ Place(batch[i]) \in Nat
      BY <2>1, <2>6, PlaceType
    <3>2. last.row = Visible[Place(last)] /\ Place(last) \in DOMAIN Visible
          /\ last.row.sequence # 0
      BY <2>1, <2>6, <3>1 DEF Numberless
    <3>3. last.row.sequence = Place(last) /\ Place(last) \in DOMAIN rows
      BY <3>2, WhatIsVisible
    <3>4. ASSUME NEW i \in DOMAIN batch PROVE InTable(rows, batch[i])
      <4>1. Place(batch[i]) <= Place(last)
        BY <2>1, <3>1
      <4>2. Place(batch[i]) \in DOMAIN rows
        <5>1. DOMAIN rows = 1 .. Len(rows) /\ Len(rows) \in Nat
          BY DEF TypeOK
        <5>2. Place(batch[i]) > export.cursor
          BY <2>1
        <5>. QED BY <1>0, <3>1, <3>3, <4>1, <5>1, <5>2
      <4>3. SameRow(batch[i].row, rows[Place(batch[i])])
        BY <2>1, <4>2, WhatIsVisible
      <4>. QED BY <4>2, <4>3 DEF InTable, SameRow
    <3>5. export' = [export EXCEPT !.rows = long, !.cursor = last.row.sequence]
      BY <2>2, <2>6 DEF CursorAfter
    <3>6. /\ export'.rows = long /\ export'.cursor = Place(last)
          /\ export'.since = export.since /\ export'.until = export.until
      BY <3>3, <3>5 DEF FeedsTypeOK
    <3>7. Slice(long, export.since, Place(last), export.until)
      BY <1>0, <2>1, <2>3, <2>6, PageGoesOn
    <3>8. /\ \A i \in DOMAIN long : i \in DOMAIN export.rows => long[i] = export.rows[i]
          /\ \A i \in DOMAIN long : i \notin DOMAIN export.rows =>
                \E j \in DOMAIN batch : long[i] = batch[j]
      <4>1. \A i \in DOMAIN long : i \notin DOMAIN export.rows =>
                i - Len(export.rows) \in DOMAIN batch /\ long[i] = batch[i - Len(export.rows)]
        BY <1>0, <2>1
      <4>2. \A i \in DOMAIN long : i \in DOMAIN export.rows => long[i] = export.rows[i]
        BY <1>0, <2>1
      <4>. QED BY <4>1, <4>2
    <3>. HIDE DEF long, last
    <3>9. \A i \in DOMAIN long : InTable(rows, long[i])
      BY <2>3, <3>4, <3>8
    <3>10. \A i \in DOMAIN long : InTable(rows', long[i])
      BY <2>2, <3>9 DEF InTable
    <3>. QED BY <3>6, <3>7, <3>10 DEF Exporting
  <2>. QED BY <2>2, <2>4, <2>5, <2>6
<1>5. ASSUME NEW until \in Windows \union {Forever}, Begins(until) PROVE Exporting'
  <2>1. PICK since \in 0 .. Len(rows) :
            export' = [pc |-> "reading", since |-> since, cursor |-> since, until |-> until,
                       rows |-> <<>>]
    BY <1>5 DEF Begins
  <2>2. since \in Nat
    BY DEF TypeOK
  <2>. QED BY <2>1, <2>2 DEF Exporting, Slice
<1>6. Served \/ AllRestart => export'.pc = "none"
  BY DEF Served, AllRestart, NoExport
<1>7. (StoreStep \/ Connect \/ Replay \/ WriteReplayed \/ KeyError \/ WriteLive
        \/ ClientLeaves \/ UNCHANGED allVars) => export' = export
  BY DEF StoreStep, Connect, Replay, WriteReplayed, KeyError, WriteLive, ClientLeaves,
         HangsUp, Receives, allVars, readers
<1>. QED
  BY <1>2, <1>3, <1>4, <1>5, <1>6, <1>7 DEF FeedsNext

-----------------------------------------------------------------------------
(* What the readers rely on holds with every step of every thread and of   *)
(* every reader, and whatever statements of append() are refused: a row    *)
(* has the number of its place or none, each queue follows the numbered    *)
(* rows, the SSE client tracks them and the export is a part of the table. *)
THEOREM ReadersInvariant ==
    FeedsSpec => [](Positions /\ Following /\ Exporting)
<1>1. FeedsInit => Positions /\ Following /\ Exporting
  <2>. SUFFICES ASSUME FeedsInit PROVE Positions /\ Following /\ Exporting
    OBVIOUS
  <2>1. Positions
    BY DEF FeedsInit, Init, Positions
  <2>2. FeedsTypeOK
    <3>1. <<>> \in Seq(Entries)
      OBVIOUS
    <3>2. client \in [pc: {"off", "subscribed", "live"}, last: Nat, todo: Seq(Entries)]
      BY <3>1 DEF FeedsInit, Away
    <3>3. export \in [pc: {"none", "reading", "built"}, since: Nat, cursor: Nat,
                      until: Windows \union {Forever}, rows: Seq(Entries)]
      BY <3>1, FeedsAssumption DEF FeedsInit, NoExport
    <3>4. got \subseteq Nat \ {0} /\ gap \in BOOLEAN
      BY DEF FeedsInit
    <3>. QED BY <3>2, <3>3, <3>4 DEF FeedsTypeOK
  <2>3. \A s \in Subscribers : Follows(rows, feed[s], Unoffered)
    BY DEF FeedsInit, Init, Follows, Unsubscribed
  <2>4. Replaying
    BY FeedsAssumption DEF FeedsInit, Init, Away, Replaying, Tracks
  <2>5. Exporting
    BY DEF FeedsInit, NoExport, Exporting
  <2>. QED BY <2>1, <2>2, <2>3, <2>4, <2>5 DEF Following
<1>2. /\ TypeOK /\ Custody /\ PublishedIsDurable
      /\ Positions /\ Following /\ Exporting /\ [FeedsNext]_allVars
      => (Positions /\ Following /\ Exporting)'
  <2>. SUFFICES ASSUME TypeOK, Custody, PublishedIsDurable, Positions, Following, Exporting,
                       [FeedsNext]_allVars
                PROVE  (Positions /\ Following /\ Exporting)'
    OBVIOUS
  <2>1. [Next]_vars
    BY ReadersStep
  <2>2. Positions'
    BY <2>1, PositionsStep
  <2>3. FeedsTypeOK'
    BY ReadersTyped DEF Following
  <2>4. \A s \in Subscribers : Follows(rows', feed'[s], Unoffered')
    BY <2>1, FollowsStep DEF Following
  <2>5. Replaying'
    BY ReplayingStep
  <2>6. Exporting'
    BY ExportingStep DEF Following
  <2>. QED BY <2>2, <2>3, <2>4, <2>5, <2>6 DEF Following
<1>. QED
  BY <1>1, <1>2, ReadersOnlyRead, CustodyCorrect, FanOutIsDurable, PTL DEF FeedsSpec

(* A connected SSE client has had, or will still get, every event that has *)
(* its number, and no subscriber's queue leaves one out: whatever threads  *)
(* append while _sse() subscribes, replays from Last-Event-ID and follows, *)
(* and wherever statements are refused, connections break, replays raise   *)
(* KeyError and the hub restarts; for every number of threads and every    *)
(* size of a queue and of a replay.                                        *)
THEOREM SseResumes ==
    FeedsSpec => []SseHasNoGap
<1>1. TypeOK /\ Custody /\ Following => SseHasNoGap
  <2>. SUFFICES ASSUME TypeOK, Custody, Following PROVE SseHasNoGap
    OBVIOUS
  <2>1. FeedHasNoGap
    <3>. SUFFICES ASSUME NEW s \in Subscribers, feed[s].on, ~feed[s].overflowed
                  PROVE  LET numbers == [i \in DOMAIN feed[s].q |-> feed[s].q[i].sequence]
                         IN  /\ \A i, j \in DOMAIN numbers : i < j => numbers[i] < numbers[j]
                             /\ \A n \in feed[s].next .. Len(rows) :
                                    \/ rows[n].sequence = 0
                                    \/ n = Len(rows) /\ ~LockFree
                                    \/ \E i \in DOMAIN numbers : numbers[i] = n
      BY DEF FeedHasNoGap
    <3>1. Follows(rows, feed[s], Unoffered)
      BY DEF Following
    <3>2. ASSUME NEW n \in feed[s].next .. Len(rows), rows[n].sequence # 0
          PROVE  \/ n = Len(rows) /\ ~LockFree
                 \/ \E i \in DOMAIN feed[s].q : feed[s].q[i].sequence = n
      <4>1. Len(rows) \in Nat /\ feed[s].next \in Nat
        BY QueueType DEF TypeOK
      <4>2. CASE Late /\ n = Len(rows)
        BY <4>2, FreeIsOnTime
      <4>3. CASE ~(Late /\ n = Len(rows))
        <5>1. n \in feed[s].next .. (Unoffered - 1)
          BY <4>1, <4>3 DEF Unoffered
        <5>. QED BY <3>1, <3>2, <5>1 DEF Follows
      <4>. QED BY <4>2, <4>3
    <3>. QED BY <3>1, <3>2 DEF Follows
  <2>2. ASSUME client.pc = "live", ~gap, ~feed[Sse].overflowed, NEW n \in DOMAIN rows
        PROVE  \/ rows[n].sequence = 0
               \/ n \in got \/ Awaited(n) \/ Queued(n) \/ Unpublished(n)
    <3>1. n \in 1 .. Len(rows) /\ Len(rows) \in Nat
      BY DEF TypeOK
    <3>2. CASE Late /\ n = Len(rows)
      <4>1. ~LockFree
        BY <3>2, FreeIsOnTime
      <4>. QED BY <3>2, <4>1 DEF Unpublished
    <3>3. CASE ~(Late /\ n = Len(rows))
      <4>1. n \in 1 .. (Unoffered - 1)
        BY <3>1, <3>3 DEF Unoffered
      <4>. QED BY <2>2, <4>1 DEF Following, Replaying, Tracks, Awaited, Queued, Place
    <3>. QED BY <3>2, <3>3
  <2>. QED BY <2>1, <2>2 DEF SseHasNoGap, Following
<1>. QED
  BY <1>1, ReadersInvariant, ReadersOnlyRead, CustodyCorrect, PTL

(* What extends a numbered row extends no earlier one. *)
LEMMA ExtendsNumbered ==
    ASSUME NEW table, NEW hash, NEW n \in Nat \ {0}, Extends(table, hash, n),
           table[n].sequence # 0
    PROVE  hash = table[n].hash
<1>1. PICK j \in 0 .. n : /\ hash = HashAt(table, j)
                         /\ \A k \in (j + 1) .. n : table[k].sequence = 0
  BY DEF Extends
<1>2. j = n
  BY <1>1
<1>. QED BY <1>1, <1>2 DEF HashAt

(* An export bundle holds committed rows only, in the table's order and    *)
(* none twice, although its pages are read while threads append and their  *)
(* statements are refused; with no latest time it starts right after the   *)
(* asked sequence, leaves no row out and passes verify_bundle(), except    *)
(* for the link to a row that never got its number.                        *)
THEOREM BundlesAreHonest ==
    FeedsSpec => []BundleIsHonest
<1>1. TypeOK /\ Chained /\ Positions /\ Following /\ Exporting => BundleIsHonest
  <2>. SUFFICES ASSUME TypeOK, Chained, Positions, Following, Exporting, export.pc = "built"
                PROVE  BundleIsHonest
    BY DEF BundleIsHonest
  <2>. DEFINE list == export.rows
  <2>1. /\ \A i \in DOMAIN list : InTable(rows, list[i])
        /\ Slice(list, export.since, export.cursor, export.until)
    BY DEF Exporting
  <2>2. list \in Seq(Entries) /\ export.since \in Nat
    BY DEF Following, FeedsTypeOK
  <2>3. /\ \A i \in DOMAIN list : i \in Nat \ {0} /\ list[i] \in Entries
        /\ \A i \in DOMAIN list : i > 1 => i - 1 \in DOMAIN list
    BY <2>2
  <2>3a. \A i \in DOMAIN list : list[i].at \in DOMAIN rows /\ list[i].row \in Rows
    BY <2>1, <2>3 DEF InTable, Place, Entries
  <2>. HIDE DEF list
  <2>4. ASSUME NEW i \in DOMAIN list
        PROVE  /\ list[i].row = [rows[list[i].at] EXCEPT !.sequence = list[i].row.sequence]
               /\ i > 1 => list[i - 1].at < list[i].at
    <3>1. /\ rows[list[i].at] \in Rows /\ list[i].row \in Rows
          /\ SameRow(rows[list[i].at], list[i].row)
      BY <2>1, <2>3a DEF InTable, Place, TypeOK
    <3>2. list[i].row = [rows[list[i].at] EXCEPT !.sequence = list[i].row.sequence]
      BY <3>1 DEF Rows, SameRow
    <3>. QED BY <2>1, <3>2 DEF Slice, Place
  <2>5. ASSUME export.until = Forever, NEW i \in DOMAIN list
        PROVE  /\ list[i].at = export.since + i
               /\ list[i].row.hash = Digest(list[i].row.prev, list[i].row.id)
               /\ (i > 1 /\ rows[list[i - 1].at].sequence # 0) => Linked(list, i)
    <3>1. \A k \in DOMAIN list : list[k].at = export.since + k
      BY <2>1, <2>5 DEF Slice, Place
    <3>2. /\ list[i].at \in DOMAIN rows
          /\ \A k \in DOMAIN list : SameRow(rows[list[k].at], list[k].row)
      BY <2>1 DEF InTable, Place
    <3>3. list[i].row.hash = Digest(list[i].row.prev, list[i].row.id)
      BY <3>2 DEF Chained, SameRow
    <3>4. ASSUME i > 1, rows[list[i - 1].at].sequence # 0 PROVE Linked(list, i)
      <4>0. i - 1 \in DOMAIN list /\ i \in Nat
        BY <2>3, <3>4
      <4>0a. list[i - 1].at = export.since + (i - 1) /\ list[i].at = export.since + i
        BY <3>1, <4>0
      <4>1. i - 1 \in DOMAIN list /\ list[i - 1].at = list[i].at - 1
        BY <2>2, <4>0, <4>0a
      <4>2. Extends(rows, rows[list[i].at].prev, list[i].at - 1)
        BY <3>2 DEF Chained
      <4>3. list[i - 1].at \in Nat \ {0}
        BY <2>3a, <4>1 DEF TypeOK
      <4>4. rows[list[i].at].prev = rows[list[i - 1].at].hash
        BY <3>4, <4>1, <4>2, <4>3, ExtendsNumbered
      <4>. QED BY <3>2, <4>1, <4>4 DEF SameRow, Linked
    <3>. QED BY <3>1, <3>3, <3>4
  <2>. QED BY <2>1, <2>3a, <2>4, <2>5 DEF BundleIsHonest, Digests, list
<1>. QED
  BY <1>1, ReadersInvariant, ReadersOnlyRead, CustodyCorrect, ChainIntact, PTL

=============================================================================
