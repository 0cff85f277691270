--------------------------------- MODULE Feeds ---------------------------------
(***************************************************************************)
(* Who reads the evidence store over HTTP: the server-sent events of       *)
(* uii/hub/api.py (_sse), which replay a part of the table and then follow *)
(* a subscriber queue, and the export bundles of extensions/exports, built *)
(* page by page and verified by whoever gets them.                         *)
(*                                                                         *)
(* Readers share the store's one database connection and take no lock:    *)
(* query() also returns the row of the transaction another thread has     *)
(* open, and a row whose second transaction has not run has no "sequence"  *)
(* in its body, which raises KeyError in whoever asks for it.              *)
(*                                                                         *)
(* Abstractions: one SSE client, which comes back with the Last-Event-ID   *)
(* it has, and whose queue stands for every subscriber's; one export at a  *)
(* time, with a first sequence and a latest time as its filters.           *)
(***************************************************************************)
EXTENDS EvidenceStore, FiniteSets

CONSTANTS
    Sse,           \* the subscriber queue of the SSE client
    ReplayLimit,   \* rows a connection replays at most (500 in the code)
    PageSize,      \* rows of a page of an export (5000 in the code)
    TimeOf,        \* the time of each envelope: of telemetry, the module's clock
    Windows,       \* bound: the latest times an export may ask for
    Forever        \* no latest time

ASSUME FeedsAssumption ==
    /\ Subscribers = {Sse}
    /\ {ReplayLimit, PageSize} \subseteq Nat \ {0}
    /\ TimeOf \in [Envelopes -> Nat]
    /\ Windows \subseteq Nat
    /\ Forever \in Nat /\ \A id \in Envelopes : TimeOf[id] <= Forever

VARIABLES
    client,    \* the SSE client: where its handler is, Last-Event-ID, rows to replay
    got,       \* the sequences the client has received
    gap,       \* observes: a replay was cut short, or a queue overflowed
    export     \* the export under way: filters, cursor, rows so far

readers == <<client, got, gap, export>>
allVars == <<vars, readers>>

Away == [pc |-> "off", last |-> 0, todo |-> <<>>]
NoExport == [pc |-> "none", since |-> 0, cursor |-> 0, until |-> Forever, rows |-> <<>>]

FeedsInit ==
    /\ Init
    /\ client = Away
    /\ got = {}
    /\ gap = FALSE
    /\ export = NoExport

-----------------------------------------------------------------------------
(* query(): every row the shared connection sees, with what the open       *)
(* transaction did to them.  `at` observes where a body stands in the      *)
(* table; the body itself has only its sequence, if it has one.            *)

Visible ==
    IF staged = NoRow THEN rows
    ELSE IF staged.sequence = 0 THEN Append(rows, staged)
    ELSE [rows EXCEPT ![staged.sequence] = staged]

NumbersFrom(since, until) ==          \* mutant: one row too late
    {n \in DOMAIN Visible : n > since + 1 /\ TimeOf[Visible[n].id] <= until}
Numbers(since, until) ==
    {n \in DOMAIN Visible : n > since /\ TimeOf[Visible[n].id] <= until}

FirstOf(S, limit) == {n \in S : Cardinality({k \in S : k < n}) < limit}

InOrder(S) ==
    [i \in 1..Cardinality(S) |-> CHOOSE n \in S : Cardinality({k \in S : k < n}) = i - 1]

Query(since, until, limit) ==
    LET page == InOrder(FirstOf(Numbers(since, until), limit))
    IN  [i \in DOMAIN page |-> [at |-> page[i], row |-> Visible[page[i]]]]

Numberless(entry) == entry.row.sequence = 0

-----------------------------------------------------------------------------
(* _sse() *)

(* Subscribe, then query what came after the client's last event. *)
Connect ==
    /\ client.pc = "off"
    /\ Subscribe(Sse)
    /\ client' = [client EXCEPT !.pc = "subscribed"]
    /\ UNCHANGED <<got, gap, export>>

Replay ==
    /\ client.pc = "subscribed"
    /\ client' = [client EXCEPT !.pc = "live",
                                !.todo = Query(client.last, Forever, ReplayLimit)]
    /\ gap' = (gap \/ Cardinality(Numbers(client.last, Forever)) > ReplayLimit)
    /\ UNCHANGED <<vars, got, export>>

(* The handler's finally: the queue goes, the client keeps its last event. *)
HangsUp ==
    /\ Unsubscribe(Sse)
    /\ gap' = (gap \/ feed[Sse].overflowed)
    /\ client' = [client EXCEPT !.pc = "off", !.todo = <<>>]
    /\ UNCHANGED <<got, export>>

Receives(n) ==
    /\ got' = got \union {n}
    /\ UNCHANGED <<gap, export>>

WriteReplayed ==
    /\ client.pc = "live"
    /\ client.todo # <<>>
    /\ ~Numberless(Head(client.todo))
    /\ client' = [client EXCEPT !.last = Head(client.todo).row.sequence, !.todo = Tail(@)]
    /\ Receives(Head(client.todo).row.sequence)
    /\ UNCHANGED vars

(* env['sequence'] raises: the connection ends in the middle of the replay. *)
KeyError ==
    /\ client.pc = "live"
    /\ client.todo # <<>>
    /\ Numberless(Head(client.todo))
    /\ HangsUp

WriteLive ==
    /\ client.pc = "live"
    /\ client.todo = <<>>
    /\ Consume(Sse)
    /\ client' = [client EXCEPT !.last = Head(feed[Sse].q).sequence]
    /\ Receives(Head(feed[Sse].q).sequence)

ClientLeaves ==
    /\ client.pc # "off"
    /\ HangsUp

-----------------------------------------------------------------------------
(* build_bundle() *)

Begins(until) ==
    /\ export.pc = "none"
    /\ \E since \in 0..Len(rows) :
        export' = [pc |-> "reading", since |-> since, cursor |-> since, until |-> until,
                   rows |-> <<>>]
    /\ UNCHANGED <<vars, client, got, gap>>

CursorCounts(batch) == export.cursor + Len(batch)   \* mutant: as if nothing were filtered
CursorAfter(batch) == batch[Len(batch)].row.sequence

(* One page; the last row of it, and in the end the first, are asked for   *)
(* their sequence, and a KeyError ends the request.                        *)
Page ==
    /\ export.pc = "reading"
    /\ LET batch == Query(export.cursor, export.until, PageSize)
       IN  export' =
            IF batch = <<>>
            THEN IF export.rows # <<>> /\ Numberless(export.rows[1])
                 THEN NoExport ELSE [export EXCEPT !.pc = "built"]
            ELSE IF Numberless(batch[Len(batch)]) THEN NoExport
            ELSE [export EXCEPT !.rows = @ \o batch, !.cursor = CursorAfter(batch)]
    /\ UNCHANGED <<vars, client, got, gap>>

Served ==
    /\ export.pc = "built"
    /\ export' = NoExport
    /\ UNCHANGED <<vars, client, got, gap>>

(* verify_bundle(): each digest, and each link to the row before. *)
Digests(slice) ==
    \A i \in DOMAIN slice : slice[i].row.hash = Digest(slice[i].row.prev, slice[i].row.id)
Linked(slice, i) == slice[i].row.prev = slice[i - 1].row.hash
Verifies(slice) == Digests(slice) /\ \A i \in DOMAIN slice : i > 1 => Linked(slice, i)

-----------------------------------------------------------------------------
(* The hub's process dies with its connections. *)
AllRestart ==
    /\ Restart
    /\ client' = [client EXCEPT !.pc = "off", !.todo = <<>>]
    /\ gap' = (gap \/ feed[Sse].overflowed)
    /\ export' = NoExport
    /\ UNCHANGED got

StoreStep ==
    /\ \E w \in Writers : Build(w) \/ AppendStep(w) \/ Refuse(w)
    /\ UNCHANGED readers

FeedsNext ==
    \/ StoreStep
    \/ Connect \/ Replay \/ WriteReplayed \/ KeyError \/ WriteLive \/ ClientLeaves
    \/ \E until \in Windows \union {Forever} : Begins(until)
    \/ Page \/ Served
    \/ AllRestart

FeedsSpec == FeedsInit /\ [][FeedsNext]_allVars

FeedsFairSpec == FeedsSpec /\ \A w \in Writers : WF_vars(AppendStep(w) /\ UNCHANGED readers)

-----------------------------------------------------------------------------
Entries == [at: Nat, row: Rows]

FeedsTypeOK ==
    /\ client \in [pc: {"off", "subscribed", "live"}, last: Nat, todo: Seq(Entries)]
    /\ got \subseteq Nat \ {0}
    /\ gap \in BOOLEAN
    /\ export \in [pc: {"none", "reading", "built"}, since: Nat, cursor: Nat,
                   until: Windows \union {Forever}, rows: Seq(Entries)]

Queued(n) == \E i \in DOMAIN feed[Sse].q : feed[Sse].q[i].sequence = n
Awaited(n) == \E i \in DOMAIN client.todo : client.todo[i].at = n
Unpublished(n) == n = Len(rows) /\ ~LockFree

(* No subscriber's queue has a gap, and "SSE, Last-Event-ID resume"        *)
(* (api.py:12): whatever threads append while the handler subscribes,      *)
(* replays and follows, and wherever connections break, statements are     *)
(* refused and the hub restarts, a connected client has had or will still  *)
(* get every event that has its number; unless a replay was longer than    *)
(* the limit or a queue overflowed.                                        *)
SseHasNoGap ==
    /\ FeedsTypeOK
    /\ FeedHasNoGap
    /\ (client.pc = "live" /\ ~gap /\ ~feed[Sse].overflowed) =>
            \A n \in DOMAIN rows :
                \/ rows[n].sequence = 0
                \/ n \in got \/ Awaited(n) \/ Queued(n) \/ Unpublished(n)

(* A bundle that was served never holds a row twice, out of order or one   *)
(* that a crash or a refusal may still take back, although its pages are   *)
(* read while threads append; without a latest time it starts right after  *)
(* the asked sequence, leaves out nothing up to its last row, and          *)
(* verifies (bundles.py:15-21): the only link that may fail is the one to  *)
(* a row that was left without its number.                                 *)
BundleIsHonest ==
    export.pc = "built" =>
        /\ \A i \in DOMAIN export.rows :
                LET e == export.rows[i]
                IN  /\ e.at \in DOMAIN rows
                    /\ e.row = [rows[e.at] EXCEPT !.sequence = e.row.sequence]
                    /\ i > 1 => export.rows[i - 1].at < e.at
        /\ export.until = Forever =>
                /\ \A i \in DOMAIN export.rows : export.rows[i].at = export.since + i
                /\ Digests(export.rows)
                /\ \A i \in DOMAIN export.rows :
                        (i > 1 /\ rows[export.rows[i - 1].at].sequence # 0)
                            => Linked(export.rows, i)

(* "A pure time/sequence window is a contiguous slice of the chain and     *)
(* internally verifiable end-to-end" (bundles.py:15-16).                   *)
WindowVerifies == export.pc = "built" => Verifies(export.rows)

=============================================================================
