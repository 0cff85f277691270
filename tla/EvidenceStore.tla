----------------------------- MODULE EvidenceStore -----------------------------
(***************************************************************************)
(* The evidence store of the hub: uii/hub/evidence.py.                     *)
(*                                                                         *)
(* Every thread of the hub (the event loop with the module sessions, the   *)
(* HTTP handlers, the detection, scheduler and foam services) appends      *)
(* envelopes to one SQLite table through EvidenceStore.append.  An append  *)
(* builds the envelope, takes the store's lock, chains the envelope to the *)
(* previous hash, INSERTs and commits it, writes the row number back into  *)
(* the stored body with a second transaction, remembers the new tip and    *)
(* offers the envelope to every subscriber queue.  Subscribers come and go *)
(* and drain their queues at their own pace; a full queue loses the        *)
(* envelope.  The process can die between any two of these steps, and a    *)
(* restart reads the tip back from the last row.                           *)
(*                                                                         *)
(* Abstractions: an envelope's content is its identity (the payload that   *)
(* is hashed); SHA-256 is collision free; a COMMIT is durable (WAL with    *)
(* the default synchronous=FULL).  Any of the four statements may be       *)
(* refused (disk full, I/O error), which rolls the open transaction back.  *)
(***************************************************************************)
EXTENDS Naturals, Sequences

CONSTANTS
    Writers,         \* the threads that append
    Subscribers,     \* the queues handed out by subscribe()
    Envelopes,       \* envelope identities: uuid7() never repeats one
    NoWriter,        \* the lock is free
    NoRow,           \* no open transaction, no envelope in hand
    QueueLimit       \* maxsize of a subscriber queue (1000 in the code)

ASSUME StoreAssumption ==
    /\ NoWriter \notin Writers
    /\ NoRow \notin [id: Envelopes, prev: Seq(Envelopes),
                     hash: Seq(Envelopes), sequence: Nat]
    /\ QueueLimit \in Nat \ {0}

VARIABLES
    rows,      \* the committed table, in seq order: the position is the seq
    staged,    \* the row the open transaction wrote, or NoRow
    prevHash,  \* self._prev_hash
    lock,      \* the thread that holds self._lock, or NoWriter
    pc,        \* where each thread is inside append()
    env,       \* the envelope each thread is appending
    feed       \* the subscriber queues

vars == <<rows, staged, prevHash, lock, pc, env, feed>>

(* A digest is the chain of payloads it covers, so equal digests mean      *)
(* equal histories and Genesis is the digest of nothing.                   *)
Hashes == Seq(Envelopes)
Genesis == <<>>
Digest(prev, payload) == Append(prev, payload)

Rows == [id: Envelopes, prev: Hashes, hash: Hashes, sequence: Nat]

(* The tip a freshly opened store reads from the table. *)
TipOf(table) == IF table = <<>> THEN Genesis ELSE table[Len(table)].hash

(* A queue that is not subscribed. `next` and `overflowed` observe the     *)
(* feed: the first seq the subscriber has not been offered, and whether    *)
(* put_nowait ever raised queue.Full.                                      *)
Unsubscribed == [on |-> FALSE, q |-> <<>>, next |-> 1, overflowed |-> FALSE]

Feeds == [on: BOOLEAN, q: Seq([id: Envelopes, sequence: Nat]), next: Nat,
          overflowed: BOOLEAN]

(* An envelope before it is chained: no integrity, no sequence. *)
Fresh(id) == [id |-> id, prev |-> Genesis, hash |-> Genesis, sequence |-> 0]

Init ==
    /\ rows = <<>>
    /\ staged = NoRow
    /\ prevHash = TipOf(rows)
    /\ lock = NoWriter
    /\ pc = [w \in Writers |-> "idle"]
    /\ env = [w \in Writers |-> NoRow]
    /\ feed = [s \in Subscribers |-> Unsubscribed]

-----------------------------------------------------------------------------
(* append(), one action per step another thread or a crash can fall behind *)

(* `with self._lock:` lets a thread in only when no other is inside. *)
NoLock == TRUE   \* mutant: append() without the lock
LockFree == lock = NoWriter

(* Build the envelope: a fresh id, no lock held yet. *)
Build(w) ==
    /\ pc[w] = "idle"
    /\ \E id \in Envelopes :
        /\ \A i \in DOMAIN rows : rows[i].id # id
        /\ \A v \in Writers : pc[v] # "idle" => env[v].id # id
        /\ env' = [env EXCEPT ![w] = Fresh(id)]
    /\ pc' = [pc EXCEPT ![w] = "built"]
    /\ UNCHANGED <<rows, staged, prevHash, lock, feed>>

Acquire(w) ==
    /\ pc[w] = "built"
    /\ LockFree
    /\ lock' = w
    /\ pc' = [pc EXCEPT ![w] = "locked"]
    /\ UNCHANGED <<rows, staged, prevHash, env, feed>>

(* Chain the envelope to the tip and execute the INSERT. *)
Insert(w) ==
    /\ pc[w] = "locked"
    /\ LET row == [env[w] EXCEPT !.prev = prevHash,
                                 !.hash = Digest(prevHash, env[w].id)]
       IN  /\ env' = [env EXCEPT ![w] = row]
           /\ staged' = row
    /\ pc' = [pc EXCEPT ![w] = "inserted"]
    /\ UNCHANGED <<rows, prevHash, lock, feed>>

Commit(w) ==
    /\ pc[w] = "inserted"
    /\ rows' = Append(rows, staged)
    /\ staged' = NoRow
    /\ env' = [env EXCEPT ![w].sequence = Len(rows) + 1]
    /\ pc' = [pc EXCEPT ![w] = "committed"]
    /\ UNCHANGED <<prevHash, lock, feed>>

(* UPDATE envelopes SET body=? WHERE seq=?: the row learns its number. *)
NumberedFromZero(table, n) ==       \* mutant: lastrowid taken as 0-based
    [table EXCEPT ![n].sequence = n - 1]
NumberedEverywhere(table, n) ==     \* mutant: UPDATE without its WHERE
    [i \in DOMAIN table |-> [table[n] EXCEPT !.sequence = n]]
Numbered(table, n) == [table EXCEPT ![n].sequence = n]

(* The second transaction, which gives the stored body its sequence. *)
Update(w) ==
    /\ pc[w] = "committed"
    /\ staged' = Numbered(rows, env[w].sequence)[env[w].sequence]
    /\ pc' = [pc EXCEPT ![w] = "numbering"]
    /\ UNCHANGED <<rows, prevHash, lock, env, feed>>

CommitNumber(w) ==
    /\ pc[w] = "numbering"
    /\ rows' = Numbered(rows, env[w].sequence)
    /\ staged' = NoRow
    /\ pc' = [pc EXCEPT ![w] = "updated"]
    /\ UNCHANGED <<prevHash, lock, env, feed>>

(* put_nowait: a full queue drops the envelope and the loop goes on. *)
Offer(f, e) ==
    IF ~f.on THEN f
    ELSE IF Len(f.q) < QueueLimit
         THEN [f EXCEPT !.q = Append(@, [id |-> e.id, sequence |-> e.sequence])]
         ELSE [f EXCEPT !.overflowed = TRUE]

FanOutBlocking(w) ==                \* mutant: q.put(env) waits for room
    /\ \A s \in Subscribers : feed[s].on => Len(feed[s].q) < QueueLimit
    /\ feed' = [s \in Subscribers |-> Offer(feed[s], env[w])]
FanOut(w) == feed' = [s \in Subscribers |-> Offer(feed[s], env[w])]

(* Remember the tip, offer the envelope to every queue, release the lock. *)
Publish(w) ==
    /\ pc[w] = "updated"
    /\ prevHash' = env[w].hash
    /\ FanOut(w)
    /\ lock' = NoWriter
    /\ pc' = [pc EXCEPT ![w] = "idle"]
    /\ env' = [env EXCEPT ![w] = NoRow]
    /\ UNCHANGED <<rows, staged>>

(* The INSERT, the UPDATE or one of the two COMMITs is refused and raises   *)
(* out of append(); `with` releases the lock and SQLite rolls the open     *)
(* transaction back.  After the first COMMIT the row stays in the table    *)
(* without its number, and the tip stays at the row before it.             *)
Refuse(w) ==
    /\ pc[w] \in {"locked", "inserted", "committed", "numbering"}
    /\ staged' = NoRow
    /\ lock' = NoWriter
    /\ pc' = [pc EXCEPT ![w] = "idle"]
    /\ env' = [env EXCEPT ![w] = NoRow]
    /\ UNCHANGED <<rows, prevHash, feed>>

-----------------------------------------------------------------------------
(* the subscribers *)

Subscribe(s) ==
    /\ LockFree
    /\ ~feed[s].on
    /\ feed' = [feed EXCEPT ![s] = [Unsubscribed EXCEPT !.on = TRUE,
                                                        !.next = Len(rows) + 1]]
    /\ UNCHANGED <<rows, staged, prevHash, lock, pc, env>>

Unsubscribe(s) ==
    /\ LockFree
    /\ feed[s].on
    /\ feed' = [feed EXCEPT ![s] = Unsubscribed]
    /\ UNCHANGED <<rows, staged, prevHash, lock, pc, env>>

(* q.get() in the consumer's own thread: no lock. *)
Consume(s) ==
    /\ feed[s].q # <<>>
    /\ feed' = [feed EXCEPT ![s].q = Tail(@),
                            ![s].next = Head(feed[s].q).sequence + 1]
    /\ UNCHANGED <<rows, staged, prevHash, lock, pc, env>>

-----------------------------------------------------------------------------
(* The process dies and is started again: the committed rows survive, and  *)
(* __init__ reads the tip from the last one.                               *)
Restart ==
    /\ staged' = NoRow
    /\ prevHash' = TipOf(rows)
    /\ lock' = NoWriter
    /\ pc' = [w \in Writers |-> "idle"]
    /\ env' = [w \in Writers |-> NoRow]
    /\ feed' = [s \in Subscribers |-> Unsubscribed]
    /\ UNCHANGED rows

AppendStep(w) ==
    \/ Acquire(w)
    \/ Insert(w)
    \/ Commit(w)
    \/ Update(w)
    \/ CommitNumber(w)
    \/ Publish(w)

Next ==
    \/ \E w \in Writers : Build(w) \/ AppendStep(w) \/ Refuse(w)
    \/ \E s \in Subscribers : Subscribe(s) \/ Unsubscribe(s) \/ Consume(s)
    \/ Restart

Spec == Init /\ [][Next]_vars

(* A thread inside append() runs on: no step of it waits for anything but  *)
(* the lock, and put_nowait never blocks.  Consumers owe nothing.          *)
FairSpec == Spec /\ \A w \in Writers : WF_vars(AppendStep(w))

-----------------------------------------------------------------------------
TypeOK ==
    /\ rows \in Seq(Rows)
    /\ staged \in Rows \union {NoRow}
    /\ prevHash \in Hashes
    /\ lock \in Writers \union {NoWriter}
    /\ pc \in [Writers -> {"idle", "built", "locked", "inserted",
                           "committed", "numbering", "updated"}]
    /\ env \in [Writers -> Rows \union {NoRow}]
    /\ feed \in [Subscribers -> Feeds]

(* The hash of row n of a table, and of no row at all. *)
HashAt(table, n) == IF n = 0 THEN Genesis ELSE table[n].hash

(* A hash the row after row n may extend: that of row n or of an earlier   *)
(* one, with only rows that never got their number in between.             *)
Extends(table, hash, n) ==
    \E j \in 0..n :
        /\ hash = HashAt(table, j)
        /\ \A k \in (j + 1)..n : table[k].sequence = 0

(* "Hash-chained" (evidence.py:3): whatever threads interleave in append() *)
(* and wherever crashes and refused statements fall, every digest covers   *)
(* its row, and each row extends the last one that was published; the only *)
(* rows the chain may leave aside are those whose second transaction never *)
(* came to its end.                                                        *)
Chained ==
    \A i \in DOMAIN rows :
        /\ Extends(rows, rows[i].prev, i - 1)
        /\ rows[i].hash = Digest(rows[i].prev, rows[i].id)

Holding(w) == pc[w] \in {"locked", "inserted", "committed", "numbering", "updated"}
PastCommit(w) == pc[w] \in {"committed", "numbering", "updated"}

(* Who may know what inside append(): only the lock's holder is past       *)
(* Acquire, its INSERT extends the table, and the row it numbers is the    *)
(* last of the table.                                                      *)
ThreadCustody(w) ==
    /\ pc[w] = "idle" <=> env[w] = NoRow
    /\ Holding(w) <=> lock = w
    /\ pc[w] = "inserted" =>
            /\ staged = env[w]
            /\ staged.prev = prevHash
            /\ staged.hash = Digest(staged.prev, staged.id)
    /\ pc[w] # "idle" /\ ~PastCommit(w) => env[w].sequence = 0
    /\ PastCommit(w) =>
            /\ rows # <<>>
            /\ env[w].sequence = Len(rows)
            /\ env[w].hash = TipOf(rows)
            /\ env[w].id = rows[Len(rows)].id
            /\ rows[Len(rows)].sequence =
                    IF pc[w] = "updated" THEN Len(rows) ELSE 0

(* self._prev_hash is a hash the next row may extend, except while the     *)
(* holder is between the second COMMIT and the fan-out.                    *)
Custody ==
    /\ \A w \in Writers : ThreadCustody(w)
    /\ (\A w \in Writers : pc[w] # "updated") => Extends(rows, prevHash, Len(rows))

(* The table is chained, and the remembered tip and the lock's holder      *)
(* agree with it in every step of every thread.                            *)
Sound == TypeOK /\ Custody /\ Chained

(* What a subscriber holds is durable under the same id and sequence: a    *)
(* detection or an SSE client never acts on an envelope that a crash could *)
(* still take back or number differently (append publishes last).          *)
PublishedIsDurable ==
    \A s \in Subscribers : \A i \in DOMAIN feed[s].q :
        LET e == feed[s].q[i]
        IN  /\ e.sequence \in DOMAIN rows
            /\ rows[e.sequence].id = e.id
            /\ rows[e.sequence].sequence = e.sequence

(* A subscriber whose queue never overflowed sees every envelope that got  *)
(* its number since it subscribed, in sequence order, none twice: no       *)
(* append falls between subscribe() and the fan-out loop.                  *)
FeedHasNoGap ==
    \A s \in Subscribers :
        LET numbers == [i \in DOMAIN feed[s].q |-> feed[s].q[i].sequence]
        IN  (feed[s].on /\ ~feed[s].overflowed) =>
                /\ \A i, j \in DOMAIN numbers : i < j => numbers[i] < numbers[j]
                /\ \A n \in feed[s].next..Len(rows) :
                        \/ rows[n].sequence = 0
                        \/ n = Len(rows) /\ ~LockFree
                        \/ \E i \in DOMAIN numbers : numbers[i] = n

(* A committed row is never rewritten, reordered or removed; the only      *)
(* change its body ever sees is the sequence it was missing ("immutable").  *)
RowsAreImmutable ==
    [][/\ Len(rows') >= Len(rows)
       /\ \A i \in DOMAIN rows :
            rows'[i] = rows[i] \/ (/\ rows[i].sequence = 0
                                   /\ rows'[i] = [rows[i] EXCEPT !.sequence = i])
      ]_rows

(* The store's lock is always given back, whatever the subscribers do: a   *)
(* consumer that stopped reading never blocks the hub's other threads.     *)
LockIsReleased == \A w \in Writers : lock = w ~> lock # w

(* What the module promises, and a refused second transaction breaks: one  *)
(* chain in the order of the table ("Append-only, hash-chained",           *)
(* evidence.py:3).  Not an invariant: ChainForks.cfg shows the fork.       *)
OneChain == \A i \in DOMAIN rows : rows[i].prev = HashAt(rows, i - 1)

=============================================================================
