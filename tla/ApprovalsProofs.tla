---------------------------- MODULE ApprovalsProofs ----------------------------
(***************************************************************************)
(* "Approval cannot launder it" (extensions/authority), for every matrix,  *)
(* any number of actors, commands and API threads, and any number of       *)
(* restarts: what reaches a module was within the authority of whoever     *)
(* asked, or a human other than the requester granted it before.  And      *)
(* every end of an approval comes once and has a cause of its own.         *)
(***************************************************************************)
EXTENDS Approvals, FiniteSetTheorems, TLAPS

Requests == [actor: Actors, risk: Risks, ingress: Ingresses]
Happenings == {"command", "dispatched", "rejected", "expired", "approval-pending",
               "approval-refused", "approval-granted", "approval-denied"}
Entries == [what: Happenings, who: Actors \union {"hub"}]
Decisions == [c: Commands, choice: {"approve", "deny"}, who: Actors]

(* What a thread may carry from one of its steps to the next. *)
Handlers ==
    {Idle}
    \union [step: {"dispatch", "defer", "index", "reject"}, c: Commands]
    \union [step: {"expire"}, victims: SUBSET Commands, wish: Decisions \union {Idle}]
    \union [step: {"remove"}, wish: Decisions]

Typed ==
    /\ request \in [Commands -> Requests \union {NoRequest}]
    /\ log \in [Commands -> Seq(Entries)]
    /\ handler \in [Threads -> Handlers]
    /\ pending \subseteq Commands

Asked(c) == request[c] # NoRequest
PathAllows(c) == ~Exceeds(request[c].risk, PathCeiling[request[c].ingress])
Clear(c) == Asked(c) /\ PathAllows(c)

GrantedAt(c, j) ==
    /\ log[c][j].what = "approval-granted"
    /\ ClassOf[log[c][j].who] = "user"
    /\ log[c][j].who # request[c].actor

(* c may be dispatched now. *)
Warranted(c) ==
    RunsAlone(request[c]) \/ (PathAllows(c) /\ \E j \in 1..Len(log[c]) : GrantedAt(c, j))

(* A thread never carries a decision further than the matrix bore it out. *)
Handling(t) ==
    /\ handler[t].step \in {"defer", "index"} => Clear(handler[t].c)
    /\ handler[t].step = "dispatch" => Asked(handler[t].c) /\ Warranted(handler[t].c)
    /\ handler[t].step = "reject" => Asked(handler[t].c)
    /\ (handler[t].step = "expire" /\ handler[t].wish # Idle) => Clear(handler[t].wish.c)
    /\ handler[t].step = "remove" =>
            /\ Clear(handler[t].wish.c)
            /\ MayApprove(handler[t].wish.who, request[handler[t].wish.c].actor)

(* Nothing is written about a command nobody asked for. *)
Unwritten == \A c \in Commands : ~Asked(c) => log[c] = <<>>

Inv ==
    /\ Typed
    /\ Unwritten
    /\ \A c \in pending : Clear(c)
    /\ \A t \in Threads : Handling(t)
    /\ DispatchIsAuthorized

-----------------------------------------------------------------------------
(* The matrix says "allow" exactly when the command may run alone. *)
LEMMA AllowedRunsAlone ==
    ASSUME NEW a, NEW r, NEW i
    PROVE  /\ Decide(a, r, i) = "allow" =>
                RunsAlone([actor |-> a, risk |-> r, ingress |-> i])
           /\ Decide(a, r, i) = "approval" => ~Exceeds(r, PathCeiling[i])
           /\ Decide(a, r, i) \in {"reject-path", "allow", "approval"}
  BY DEF Decide, RunsAlone

(* What appending to the evidence keeps. *)
LEMMA Appended ==
    ASSUME NEW s \in Seq(Entries), NEW e \in Entries
    PROVE  /\ Append(s, e) \in Seq(Entries)
           /\ Len(s) \in Nat
           /\ Len(Append(s, e)) = Len(s) + 1
           /\ DOMAIN Append(s, e) = 1..(Len(s) + 1)
           /\ \A i \in 1..Len(s) : Append(s, e)[i] = s[i]
           /\ Append(s, e)[Len(s) + 1] = e
  OBVIOUS

(* Every step keeps what was asked for and what was warranted. *)
Onward ==
    \A d \in Commands : Asked(d) =>
        request'[d] = request[d] /\ (Warranted(d) => Warranted(d)')

LEMMA SilentStep ==
    ASSUME Inv, UNCHANGED <<request, log>>
    PROVE  Onward /\ Unwritten' /\ DispatchIsAuthorized'
  BY DEF Inv, Onward, Warranted, PathAllows, GrantedAt, Asked, Unwritten,
         DispatchIsAuthorized

LEMMA RecordingStep ==
    ASSUME Inv, NEW c \in Commands, NEW what \in Happenings,
           NEW who \in Actors \union {"hub"},
           Record(c, what, who), request' = request, Asked(c),
           what = "dispatched" => Warranted(c)
    PROVE  /\ log' \in [Commands -> Seq(Entries)]
           /\ Onward /\ Unwritten' /\ DispatchIsAuthorized'
           /\ (/\ what = "approval-granted" /\ PathAllows(c)
               /\ ClassOf[who] = "user" /\ who # request[c].actor) => Warranted(c)'
<1> DEFINE e == Entry(what, who)
<1>1. e \in Entries /\ e.what = what /\ e.who = who
  BY DEF Entry, Entries
<1>2. log[c] \in Seq(Entries)
  BY DEF Inv, Typed
<1>. HIDE DEF e
<1>3. /\ log' \in [Commands -> Seq(Entries)]
      /\ log'[c] = Append(log[c], e)
      /\ \A d \in Commands \ {c} : log'[d] = log[d]
  BY <1>1, <1>2, Appended DEF Record, e, Inv, Typed
<1>4. /\ Len(log[c]) \in Nat
      /\ Len(log'[c]) = Len(log[c]) + 1
      /\ DOMAIN log'[c] = 1..(Len(log[c]) + 1)
      /\ \A i \in 1..Len(log[c]) : log'[c][i] = log[c][i]
      /\ log'[c][Len(log[c]) + 1] = e
  BY <1>1, <1>2, <1>3, Appended
<1>5. ASSUME NEW d \in Commands, Warranted(d) PROVE Warranted(d)'
  <2>1. CASE RunsAlone(request[d])
    BY <2>1 DEF Warranted
  <2>2. ASSUME PathAllows(d), NEW j \in 1..Len(log[d]), GrantedAt(d, j)
        PROVE  Warranted(d)'
    <3>1. j \in 1..Len(log'[d]) /\ log'[d][j] = log[d][j]
      BY <1>3, <1>4
    <3>2. PathAllows(d)' /\ GrantedAt(d, j)'
      BY <2>2, <3>1 DEF PathAllows, GrantedAt
    <3>. QED BY <3>1, <3>2 DEF Warranted
  <2>. QED BY <1>5, <2>1, <2>2 DEF Warranted
<1>6. Onward
  BY <1>5 DEF Onward
<1>7. Unwritten'
  BY <1>3 DEF Unwritten, Inv, Asked
<1>8. DispatchIsAuthorized'
  <2>. SUFFICES ASSUME NEW d \in Commands, NEW i \in DOMAIN log'[d],
                       log'[d][i].what = "dispatched"
                PROVE  \/ RunsAlone(request[d])
                       \/ /\ PathAllows(d)
                          /\ \E j \in 1..(i - 1) :
                                /\ log'[d][j].what = "approval-granted"
                                /\ ClassOf[log'[d][j].who] = "user"
                                /\ log'[d][j].who # request[d].actor
    BY DEF DispatchIsAuthorized, PathAllows
  <2>1. CASE d # c
    <3>1. log'[d] = log[d]
      BY <1>3, <2>1
    <3>. QED BY <3>1 DEF Inv, DispatchIsAuthorized, PathAllows
  <2>2. CASE d = c /\ i \in 1..Len(log[c])
    <3>1. i \in DOMAIN log[c]
      BY <1>2, <2>2
    <3>2. \A j \in 1..(i - 1) : log'[c][j] = log[c][j]
      BY <1>4, <2>2
    <3>3. log[c][i].what = "dispatched"
      BY <1>4, <2>2
    <3>. QED BY <2>2, <3>1, <3>2, <3>3, SMTT(30) DEF Inv, DispatchIsAuthorized, PathAllows
  <2>3. CASE d = c /\ i = Len(log[c]) + 1
    <3>1. Warranted(c)
      BY <1>1, <1>4, <2>3
    <3>. QED BY <1>4, <2>3, <3>1 DEF Warranted, GrantedAt
  <2>. QED BY <1>4, <2>1, <2>2, <2>3
<1>9. (/\ what = "approval-granted" /\ PathAllows(c)
       /\ ClassOf[who] = "user" /\ who # request[c].actor) => Warranted(c)'
  BY <1>1, <1>4 DEF Warranted, PathAllows, GrantedAt
<1>. QED BY <1>3, <1>6, <1>7, <1>8, <1>9

(* The threads that did not move still carry only what was borne out. *)
LEMMA OthersKeep ==
    ASSUME Inv, Onward, NEW u \in Threads, handler'[u] = handler[u]
    PROVE  Handling(u)'
<1>1. handler[u] \in Handlers /\ Handling(u)
  BY DEF Inv, Typed
<1>2. \A d \in Commands : /\ Asked(d) => Asked(d)'
                          /\ Clear(d) => Clear(d)'
                          /\ Asked(d) /\ Warranted(d) => Warranted(d)'
  BY DEF Onward, Asked, Clear, PathAllows
<1>3. CASE handler[u] = Idle
  BY <1>3 DEF Handling, Idle
<1>4. CASE handler[u] \in [step: {"dispatch", "defer", "index", "reject"}, c: Commands]
  BY <1>1, <1>2, <1>4 DEF Handling
<1>5. CASE handler[u] \in [step: {"expire"}, victims: SUBSET Commands,
                           wish: Decisions \union {Idle}]
  BY <1>1, <1>2, <1>5 DEF Handling, Decisions
<1>6. CASE handler[u] \in [step: {"remove"}, wish: Decisions]
  <2>1. handler[u].step = "remove" /\ handler[u].wish.c \in Commands
    BY <1>6 DEF Decisions
  <2>2. Asked(handler[u].wish.c)
    BY <1>1, <2>1 DEF Handling, Clear
  <2>3. request'[handler[u].wish.c] = request[handler[u].wish.c]
    BY <2>1, <2>2 DEF Onward
  <2>. QED BY <1>1, <1>2, <2>1, <2>3 DEF Handling
<1>. QED BY <1>1, <1>3, <1>4, <1>5, <1>6 DEF Handlers

LEMMA PendingKeeps ==
    ASSUME Inv, Onward, NEW c \in pending PROVE Clear(c)'
  BY DEF Inv, Typed, Onward, Clear, Asked, PathAllows

(* The thread that moved: t is now at h. *)
LEMMA Moved ==
    ASSUME Inv, Onward, NEW t \in Threads, NEW h \in Handlers, Now(t, h)
    PROVE  /\ handler' \in [Threads -> Handlers]
           /\ handler'[t] = h
           /\ Handling(t)' => \A u \in Threads : Handling(u)'
<1>1. handler' \in [Threads -> Handlers] /\ handler'[t] = h
      /\ \A u \in Threads \ {t} : handler'[u] = handler[u]
  BY DEF Now, Inv, Typed
<1>. QED BY <1>1, OthersKeep

(* A thread that is done, or at the last step, carries no decision. *)
LEMMA Rested ==
    ASSUME NEW t, handler'[t] = Idle PROVE Handling(t)'
  BY DEF Handling, Idle

-----------------------------------------------------------------------------
(* A new command: what the matrix said of it is all a thread carries. *)
LEMMA SubmitKeeps ==
    ASSUME Inv, NEW t \in Threads, NEW c \in Commands, Submit(t, c)
    PROVE  Inv'
<1>1. PICK a \in Actors, r \in Risks, i \in Ingresses :
        /\ request' = [request EXCEPT ![c] = [actor |-> a, risk |-> r, ingress |-> i]]
        /\ CASE Decide(a, r, i) = "reject-path" ->
                    UNCHANGED <<log, handler>>
             [] Decide(a, r, i) = "allow" ->
                    Record(c, "command", a) /\ Now(t, At("dispatch", c))
             [] Decide(a, r, i) = "approval" ->
                    Record(c, "command", a) /\ Now(t, At("defer", c))
  BY DEF Submit
<1> DEFINE q == [actor |-> a, risk |-> r, ingress |-> i]
           e == Entry("command", a)
<1>2. ~Asked(c) /\ log[c] = <<>> /\ pending' = pending
  BY DEF Submit, Asked, Inv, Unwritten
<1>3. q \in Requests /\ q # NoRequest /\ q.risk = r /\ q.ingress = i
  BY ApprovalsAssumption DEF Requests
<1>4. e \in Entries /\ e.what = "command"
  BY DEF Entry, Entries, Happenings
<1>5. /\ request' \in [Commands -> Requests \union {NoRequest}]
      /\ request'[c] = q
      /\ \A d \in Commands \ {c} : request'[d] = request[d]
  BY <1>1, <1>3 DEF Inv, Typed
<1>6. /\ log' \in [Commands -> Seq(Entries)]
      /\ \A d \in Commands \ {c} : log'[d] = log[d]
      /\ log'[c] \in {<<>>, <<e>>}
  <2>1. CASE log' = log
    BY <1>2, <2>1 DEF Inv, Typed
  <2>2. CASE Record(c, "command", a)
    <3>1. log[c] \in Seq(Entries)
      BY DEF Inv, Typed
    <3>2. Append(log[c], e) \in Seq(Entries) /\ Append(log[c], e) = <<e>>
      BY <1>2, <1>4, <3>1
    <3>. QED BY <2>2, <3>2 DEF Record, Inv, Typed
  <2>. QED BY <1>1, <2>1, <2>2, AllowedRunsAlone
<1>7. Asked(c)'
  BY <1>3, <1>5 DEF Asked
<1>. HIDE DEF e, q
<1>8. Onward
  BY <1>2, <1>5, <1>6, ZenonT(30) DEF Onward, Warranted, PathAllows, GrantedAt
<1>9. Unwritten'
  BY <1>5, <1>6, <1>7 DEF Unwritten, Inv, Asked
<1>10. DispatchIsAuthorized'
  <2>1. \A k \in DOMAIN log'[c] : log'[c][k].what # "dispatched"
    BY <1>4, <1>6
  <2>2. \A d \in Commands \ {c} : log'[d] = log[d] /\ request'[d] = request[d]
    BY <1>5, <1>6
  <2>. SUFFICES ASSUME NEW d \in Commands \ {c}
                PROVE  \A k \in DOMAIN log[d] : log[d][k].what = "dispatched" =>
                        \/ RunsAlone(request[d])
                        \/ /\ ~Exceeds(request[d].risk, PathCeiling[request[d].ingress])
                           /\ \E j \in 1..(k - 1) :
                                /\ log[d][j].what = "approval-granted"
                                /\ ClassOf[log[d][j].who] = "user"
                                /\ log[d][j].who # request[d].actor
    BY <2>1, <2>2 DEF DispatchIsAuthorized
  <2>. QED BY DEF DispatchIsAuthorized, Inv
<1>11. \A d \in pending' : Clear(d)'
  BY <1>2, <1>8, PendingKeeps
<1>12. handler' \in [Threads -> Handlers] /\ \A u \in Threads : Handling(u)'
  <2>1. CASE Decide(a, r, i) = "reject-path"
    <3>1. handler' = handler
      BY <1>1, <2>1
    <3>. QED BY <1>8, <3>1, OthersKeep DEF Inv, Typed
  <2>2. CASE Decide(a, r, i) = "allow"
    <3>1. Now(t, At("dispatch", c)) /\ RunsAlone(q)
      BY <1>1, <2>2, AllowedRunsAlone DEF q
    <3>2. At("dispatch", c) \in Handlers
      BY DEF At, Handlers
    <3>3. /\ handler' \in [Threads -> Handlers]
          /\ handler'[t] = At("dispatch", c)
          /\ Handling(t)' => \A u \in Threads : Handling(u)'
      BY <1>8, <3>1, <3>2, Moved
    <3>4. Warranted(c)'
      BY <1>5, <3>1 DEF Warranted
    <3>. QED BY <1>7, <3>3, <3>4 DEF Handling, At
  <2>3. CASE Decide(a, r, i) = "approval"
    <3>1. Now(t, At("defer", c)) /\ ~Exceeds(r, PathCeiling[i])
      BY <1>1, <2>3, AllowedRunsAlone
    <3>2. At("defer", c) \in Handlers
      BY DEF At, Handlers
    <3>3. /\ handler' \in [Threads -> Handlers]
          /\ handler'[t] = At("defer", c)
          /\ Handling(t)' => \A u \in Threads : Handling(u)'
      BY <1>8, <3>1, <3>2, Moved
    <3>4. Clear(c)'
      BY <1>3, <1>5, <1>7, <3>1 DEF Clear, PathAllows
    <3>. QED BY <3>3, <3>4 DEF Handling, At
  <2>. QED BY <2>1, <2>2, <2>3, AllowedRunsAlone
<1>. QED BY <1>2, <1>5, <1>6, <1>9, <1>10, <1>11, <1>12 DEF Inv, Typed

(* Dispatch and reject: the last step of a command's thread. *)
LEMMA LastStepKeeps ==
    ASSUME Inv, NEW t \in Threads, Dispatch(t) \/ Reject(t)
    PROVE  Inv'
<1>1. PICK c \in Commands : c = handler[t].c /\ Asked(c)
  BY DEF Inv, Typed, Handling, Dispatch, Reject, Handlers, Idle
<1>2. PICK what \in {"dispatched", "rejected"} :
        Record(c, what, "hub") /\ (what = "dispatched" => Warranted(c))
  BY <1>1 DEF Dispatch, Reject, Inv, Handling
<1>3. UNCHANGED <<request, pending>> /\ Now(t, Idle) /\ Idle \in Handlers
  BY DEF Dispatch, Reject, Handlers
<1>4. log' \in [Commands -> Seq(Entries)] /\ Onward /\ Unwritten' /\ DispatchIsAuthorized'
  BY <1>1, <1>2, <1>3, RecordingStep DEF Happenings
<1>5. handler' \in [Threads -> Handlers] /\ \A u \in Threads : Handling(u)'
  BY <1>3, <1>4, Moved, Rested
<1>6. \A d \in pending' : Clear(d)'
  BY <1>3, <1>4, PendingKeeps
<1>. QED BY <1>3, <1>4, <1>5, <1>6 DEF Inv, Typed

(* A deferred command waits with what the path allowed. *)
LEMMA DeferKeeps ==
    ASSUME Inv, NEW t \in Threads, Defer(t)
    PROVE  Inv'
<1>1. PICK c \in Commands : c = handler[t].c /\ Clear(c)
  BY DEF Inv, Typed, Handling, Defer, Handlers, Idle
<1>2. /\ UNCHANGED <<request, log>> /\ pending' = pending \union {c}
      /\ Now(t, At("index", c)) /\ At("index", c) \in Handlers
  BY <1>1 DEF Defer, Handlers, At
<1>3. Onward /\ Unwritten' /\ DispatchIsAuthorized'
  BY <1>2, SilentStep
<1>4. Clear(c)'
  BY <1>1, <1>2 DEF Clear, Asked, PathAllows
<1>5. \A d \in pending' : Clear(d)'
  BY <1>2, <1>3, <1>4, PendingKeeps
<1>6. /\ handler' \in [Threads -> Handlers] /\ handler'[t] = At("index", c)
      /\ Handling(t)' => \A u \in Threads : Handling(u)'
  BY <1>2, <1>3, Moved
<1>7. Handling(t)'
  BY <1>4, <1>6 DEF Handling, At
<1>. QED BY <1>1, <1>2, <1>3, <1>5, <1>6, <1>7 DEF Inv, Typed

LEMMA IndexKeeps ==
    ASSUME Inv, NEW t \in Threads, Index(t)
    PROVE  Inv'
<1>1. PICK c \in Commands : c = handler[t].c /\ Asked(c)
  BY DEF Inv, Typed, Handling, Index, Handlers, Idle, Clear
<1>2. request[c].actor \in Actors
  BY <1>1 DEF Inv, Typed, Asked, Requests
<1>3. /\ UNCHANGED <<request, pending>> /\ Now(t, Idle) /\ Idle \in Handlers
      /\ Record(c, "approval-pending", request[c].actor)
  BY <1>1 DEF Index, Handlers
<1>4. log' \in [Commands -> Seq(Entries)] /\ Onward /\ Unwritten' /\ DispatchIsAuthorized'
  BY <1>1, <1>2, <1>3, RecordingStep DEF Happenings
<1>5. handler' \in [Threads -> Handlers] /\ \A u \in Threads : Handling(u)'
  BY <1>3, <1>4, Moved, Rested
<1>6. \A d \in pending' : Clear(d)'
  BY <1>3, <1>4, PendingKeeps
<1>. QED BY <1>3, <1>4, <1>5, <1>6 DEF Inv, Typed

-----------------------------------------------------------------------------
(* A request that looks sees only approvals the path let through. *)
LEMMA ArriveKeeps ==
    ASSUME Inv, NEW t \in Threads, Arrive(t)
    PROVE  Inv'
<1>1. PICK wish \in Wishes :
        Now(t, [step |-> "expire", victims |-> pending \cap overdue, wish |-> wish])
  BY DEF Arrive
<1> DEFINE h == [step |-> "expire", victims |-> pending \cap overdue, wish |-> wish]
<1>2. UNCHANGED <<request, pending, log>>
  BY DEF Arrive
<1>3. wish \in Decisions \union {Idle} /\ (wish # Idle => Clear(wish.c))
  BY DEF Wishes, Decisions, Inv, Typed
<1>4. h \in Handlers /\ h.step = "expire" /\ h.wish = wish
  BY <1>3 DEF Handlers, Inv, Typed
<1>5. Onward /\ Unwritten' /\ DispatchIsAuthorized'
  BY <1>2, SilentStep
<1>6. PICK g \in Handlers : g = h /\ Now(t, g)
  BY <1>1, <1>4
<1>7. /\ handler' \in [Threads -> Handlers] /\ handler'[t] = g
      /\ Handling(t)' => \A u \in Threads : Handling(u)'
  BY <1>5, <1>6, Moved
<1>8. g.step = "expire" /\ g.wish = wish
  BY <1>4, <1>6
<1>9. wish # Idle => Clear(wish.c)'
  BY <1>2, <1>3 DEF Clear, Asked, PathAllows
<1>10. Handling(t)'
  BY <1>7, <1>8, <1>9 DEF Handling
<1>11. \A d \in pending' : Clear(d)'
  BY <1>2, <1>5, PendingKeeps
<1>. QED BY <1>2, <1>5, <1>7, <1>10, <1>11 DEF Inv, Typed

(* One approval expires, or the request ends on one that is gone. *)
LEMMA ExpireOneKeeps ==
    ASSUME Inv, NEW t \in Threads, ExpireOne(t)
    PROVE  Inv'
<1>1. handler[t] \in [step: {"expire"}, victims: SUBSET Commands,
                      wish: Decisions \union {Idle}]
  BY DEF ExpireOne, Inv, Typed, Handlers, Idle
<1>2. PICK c \in handler[t].victims :
        IF StillPending(c)
        THEN /\ pending' = pending \ {c}
             /\ Record(c, "expired", "hub")
             /\ Now(t, [handler[t] EXCEPT !.victims = @ \ {c}])
        ELSE Now(t, Idle) /\ UNCHANGED <<pending, log>>
  BY DEF ExpireOne
<1>3. c \in Commands /\ request' = request /\ pending' \subseteq pending
  BY <1>1, <1>2 DEF ExpireOne
<1>4. /\ log' \in [Commands -> Seq(Entries)]
      /\ Onward /\ Unwritten' /\ DispatchIsAuthorized'
  <2>1. CASE StillPending(c)
    <3>1. Asked(c) /\ Record(c, "expired", "hub")
      BY <1>2, <2>1 DEF StillPending, Inv, Clear
    <3>. QED BY <1>3, <3>1, RecordingStep DEF Happenings
  <2>2. CASE ~StillPending(c)
    BY <1>2, <1>3, <2>2, SilentStep DEF Inv, Typed
  <2>. QED BY <2>1, <2>2
<1>5. handler' \in [Threads -> Handlers] /\ \A u \in Threads : Handling(u)'
  <2>1. CASE StillPending(c)
    <3>1. [handler[t] EXCEPT !.victims = @ \ {c}]
            \in [step: {"expire"}, victims: SUBSET Commands, wish: Decisions \union {Idle}]
      BY <1>1
    <3>2. [handler[t] EXCEPT !.victims = @ \ {c}].wish = handler[t].wish
      BY <1>1
    <3>3. PICK g \in Handlers : /\ Now(t, g)
                                /\ g.step = "expire" /\ g.wish = handler[t].wish
      BY <1>2, <2>1, <3>1, <3>2 DEF Handlers
    <3>4. /\ handler' \in [Threads -> Handlers] /\ handler'[t] = g
          /\ Handling(t)' => \A u \in Threads : Handling(u)'
      BY <1>4, <3>3, Moved
    <3>5. handler[t].wish # Idle => Clear(handler[t].wish.c)
      BY <1>1 DEF Inv, Handling
    <3>6. PICK w \in Decisions \union {Idle} : w = handler[t].wish
      BY <1>1
    <3>7. w # Idle => Clear(w.c)'
      BY <1>3, <3>5, <3>6 DEF Clear, Asked, PathAllows
    <3>8. Handling(t)'
      BY <3>3, <3>4, <3>6, <3>7 DEF Handling
    <3>. QED BY <3>4, <3>8
  <2>2. CASE ~StillPending(c)
    <3>1. Now(t, Idle) /\ Idle \in Handlers
      BY <1>2, <2>2 DEF Handlers
    <3>. QED BY <1>4, <3>1, Moved, Rested
  <2>. QED BY <2>1, <2>2
<1>6. \A d \in pending' : Clear(d)'
  BY <1>3, <1>4, PendingKeeps
<1>. QED BY <1>3, <1>4, <1>5, <1>6 DEF Inv, Typed

(* Only who may approve goes on to remove the approval. *)
LEMMA LookUpKeeps ==
    ASSUME Inv, NEW t \in Threads, LookUp(t)
    PROVE  Inv'
<1>1. handler[t] \in [step: {"expire"}, victims: SUBSET Commands,
                      wish: Decisions \union {Idle}]
  BY DEF LookUp, Inv, Typed, Handlers, Idle
<1>2. PICK w \in Decisions \union {Idle} : w = handler[t].wish
  BY <1>1
<1>3. UNCHANGED <<request, pending>> /\ Idle \in Handlers
  BY DEF LookUp, Handlers
<1>4. w # Idle => w \in Decisions /\ w.c \in Commands /\ w.who \in Actors /\ Clear(w.c)
  BY <1>1, <1>2 DEF Inv, Handling, Decisions
<1>5. CASE Now(t, Idle) /\ log' = log
  <2>1. Onward /\ Unwritten' /\ DispatchIsAuthorized'
    BY <1>3, <1>5, SilentStep
  <2>2. handler' \in [Threads -> Handlers] /\ \A u \in Threads : Handling(u)'
    BY <1>3, <1>5, <2>1, Moved, Rested
  <2>3. \A d \in pending' : Clear(d)'
    BY <1>3, <2>1, PendingKeeps
  <2>. QED BY <1>3, <1>5, <2>1, <2>2, <2>3 DEF Inv, Typed
<1>6. ASSUME w # Idle, MayApprove(w.who, request[w.c].actor),
             Now(t, [step |-> "remove", wish |-> w]), log' = log
      PROVE  Inv'
  <2>1. PICK g \in Handlers : Now(t, g) /\ g.step = "remove" /\ g.wish = w
    BY <1>4, <1>6 DEF Handlers
  <2>2. Onward /\ Unwritten' /\ DispatchIsAuthorized'
    BY <1>3, <1>6, SilentStep
  <2>3. /\ handler' \in [Threads -> Handlers] /\ handler'[t] = g
        /\ Handling(t)' => \A u \in Threads : Handling(u)'
    BY <2>1, <2>2, Moved
  <2>4. Clear(w.c)'
    BY <1>3, <1>4, <1>6 DEF Clear, Asked, PathAllows
  <2>5. Handling(t)'
    BY <1>3, <1>6, <2>1, <2>3, <2>4 DEF Handling
  <2>6. \A d \in pending' : Clear(d)'
    BY <1>3, <2>2, PendingKeeps
  <2>. QED BY <1>3, <1>6, <2>2, <2>3, <2>5, <2>6 DEF Inv, Typed
<1>7. ASSUME w # Idle, Record(w.c, "approval-refused", w.who), Now(t, Idle)
      PROVE  Inv'
  <2>1. log' \in [Commands -> Seq(Entries)] /\ Onward /\ Unwritten' /\ DispatchIsAuthorized'
    BY <1>3, <1>4, <1>7, RecordingStep DEF Happenings, Clear
  <2>2. handler' \in [Threads -> Handlers] /\ \A u \in Threads : Handling(u)'
    BY <1>3, <1>7, <2>1, Moved, Rested
  <2>3. \A d \in pending' : Clear(d)'
    BY <1>3, <2>1, PendingKeeps
  <2>. QED BY <1>3, <2>1, <2>2, <2>3 DEF Inv, Typed
<1>. QED BY <1>2, <1>5, <1>6, <1>7 DEF LookUp

(* A grant is written before anything is dispatched on it. *)
LEMMA RemoveKeeps ==
    ASSUME Inv, NEW t \in Threads, Remove(t)
    PROVE  Inv'
<1>1. PICK w \in Decisions :
        /\ w = handler[t].wish /\ Clear(w.c) /\ MayApprove(w.who, request[w.c].actor)
  BY DEF Remove, Inv, Typed, Handling, Handlers, Idle
<1>2. w.c \in Commands /\ w.who \in Actors /\ w.choice \in {"approve", "deny"}
  BY <1>1 DEF Decisions
<1>3. PICK what \in {"approval-granted", "approval-denied"},
           next \in {"dispatch", "reject"} :
        /\ Record(w.c, what, w.who)
        /\ Now(t, At(next, w.c))
        /\ next = "dispatch" => what = "approval-granted"
  BY <1>1, <1>2 DEF Remove, AfterDecision
<1>4. request' = request /\ pending' \subseteq pending
  BY DEF Remove, Decided
<1>5. /\ log' \in [Commands -> Seq(Entries)]
      /\ Onward /\ Unwritten' /\ DispatchIsAuthorized'
      /\ (/\ what = "approval-granted" /\ PathAllows(w.c)
          /\ ClassOf[w.who] = "user" /\ w.who # request[w.c].actor) => Warranted(w.c)'
  BY <1>1, <1>2, <1>3, <1>4, RecordingStep DEF Happenings, Clear
<1>6. next = "dispatch" => Warranted(w.c)'
  BY <1>1, <1>3, <1>5 DEF MayApprove, Clear
<1>7. Asked(w.c)'
  BY <1>1, <1>4 DEF Clear, Asked
<1>8. PICK g \in Handlers : Now(t, g) /\ g.step = next /\ g.c = w.c
  BY <1>2, <1>3 DEF Handlers, At
<1>9. /\ handler' \in [Threads -> Handlers] /\ handler'[t] = g
      /\ Handling(t)' => \A u \in Threads : Handling(u)'
  BY <1>5, <1>8, Moved
<1>10. Handling(t)'
  BY <1>6, <1>7, <1>8, <1>9 DEF Handling
<1>11. \A d \in pending' : Clear(d)'
  BY <1>4, <1>5, PendingKeeps
<1>. QED BY <1>4, <1>5, <1>9, <1>10, <1>11 DEF Inv, Typed

(* Deadlines move nothing; a restart forgets every decision under way. *)
LEMMA DeadlineKeeps ==
    ASSUME Inv, NEW c \in Commands, Deadline(c) PROVE Inv'
<1>1. UNCHANGED <<request, pending, log, handler>>
  BY DEF Deadline
<1>2. Onward /\ Unwritten' /\ DispatchIsAuthorized'
  BY <1>1, SilentStep
<1>. QED BY <1>1, <1>2, OthersKeep, PendingKeeps DEF Inv, Typed

LEMMA RestartKeeps ==
    ASSUME Inv, HubRestart PROVE Inv'
<1>1. /\ UNCHANGED <<request, log>> /\ pending' = {}
      /\ handler' = [t \in Threads |-> Idle]
  BY DEF HubRestart
<1>2. Onward /\ Unwritten' /\ DispatchIsAuthorized'
  BY <1>1, SilentStep
<1>3. handler' \in [Threads -> Handlers] /\ \A u \in Threads : Handling(u)'
  BY <1>1, Rested DEF Handlers
<1>. QED BY <1>1, <1>2, <1>3 DEF Inv, Typed

-----------------------------------------------------------------------------
LEMMA InitInv == Init => Inv
<1>. SUFFICES ASSUME Init PROVE Inv
  OBVIOUS
<1>1. Typed /\ Unwritten /\ DispatchIsAuthorized
  BY DEF Init, Typed, Unwritten, DispatchIsAuthorized, Handlers
<1>2. \A t \in Threads : Handling(t)
  BY DEF Init, Handling, Idle
<1>. QED BY <1>1, <1>2 DEF Inv, Init

LEMMA InvStep == Inv /\ [Next]_vars => Inv'
<1>. SUFFICES ASSUME Inv, [Next]_vars PROVE Inv'
  OBVIOUS
<1>1. CASE UNCHANGED vars
  <2>1. UNCHANGED <<request, pending, log, handler>>
    BY <1>1 DEF vars
  <2>2. Onward /\ Unwritten' /\ DispatchIsAuthorized'
    BY <2>1, SilentStep
  <2>. QED BY <2>1, <2>2, OthersKeep, PendingKeeps DEF Inv, Typed
<1>2. ASSUME NEW t \in Threads, Work(t) PROVE Inv'
  BY <1>2, LastStepKeeps, DeferKeeps, IndexKeeps, ExpireOneKeeps, LookUpKeeps,
     RemoveKeeps DEF Work
<1>3. ASSUME NEW t \in Threads, Arrive(t) PROVE Inv'
  BY <1>3, ArriveKeeps
<1>4. ASSUME NEW t \in Threads, NEW c \in Commands, Submit(t, c) PROVE Inv'
  BY <1>4, SubmitKeeps
<1>5. ASSUME NEW c \in Commands, Deadline(c) PROVE Inv'
  BY <1>5, DeadlineKeeps
<1>6. CASE HubRestart
  BY <1>6, RestartKeeps
<1>. QED BY <1>1, <1>2, <1>3, <1>4, <1>5, <1>6 DEF Next

(* "Effective permission = min(actor class, ingress path ceiling)", and    *)
(* "approval cannot launder it" (policy.py:3-4, 31-32): nothing dispatched *)
(* that the matrix forbids, for every matrix and every interleaving.       *)
THEOREM ApprovalCannotLaunder == Spec => []DispatchIsAuthorized
<1>1. Inv => DispatchIsAuthorized
  BY DEF Inv
<1>. QED BY InitInv, InvStep, <1>1, PTL DEF Spec


-----------------------------------------------------------------------------
(* Every end of an approval has a cause of its own and comes once.         *)

(* Which threads are at a step of the command c, and which hold it at all. *)
In(step, c) == {t \in Threads : handler[t].step = step /\ handler[t].c = c}
Holds(h, c) ==
    \/ h.step \in {"dispatch", "defer", "index", "reject"} /\ h.c = c
    \/ h.step \in {"expire", "remove"} /\ h.wish # Idle /\ h.wish.c = c

(* Nothing has been decided about c. *)
Fresh(c) ==
    \A i \in DOMAIN log[c] :
        log[c][i].what \in {"command", "approval-pending", "approval-refused"}

(* A pending approval is undecided and nobody acts on a decision about it. *)
Open(c) ==
    c \in pending =>
        Fresh(c) /\ In("defer", c) = {} /\ In("dispatch", c) = {} /\ In("reject", c) = {}

(* Whoever is about to put it up is the only one to know of it. *)
PutUp(c) ==
    \A t \in In("defer", c) :
        c \notin pending /\ Fresh(c) /\ \A u \in Threads \ {t} : ~Holds(handler[u], c)

(* Threads about to send or to turn down have a decision of their own.     *)
Spent(c) ==
    /\ IsFiniteSet(In("dispatch", c)) /\ IsFiniteSet(In("reject", c))
    /\ Times(c, "expired") <= 1
    /\ Times(c, "rejected") + Cardinality(In("reject", c)) <= Times(c, "approval-denied")
    /\ (Asked(c) /\ ~RunsAlone(request[c])) =>
            Times(c, "dispatched") + Cardinality(In("dispatch", c))
                <= Times(c, "approval-granted")

Story(c) == Open(c) /\ PutUp(c) /\ Spent(c)

(* The rest of the types. *)
Rest ==
    /\ byCommand \subseteq Commands
    /\ overdue \subseteq Commands
    /\ \A t \in Threads : handler[t].step = "expire" => handler[t].victims \subseteq overdue
    /\ restarts \in 0..MaxRestarts

Once == Rest /\ \A c \in Commands : Story(c)

(* What is carried says where it is carried to. *)
LEMMA HeldIsAsked ==
    ASSUME Inv, NEW t \in Threads, NEW c \in Commands, Holds(handler[t], c)
    PROVE  Asked(c)
  BY DEF Inv, Handling, Holds, Clear

(* One more entry is one more of its kind. *)
HowOften(s, what) == Cardinality({i \in DOMAIN s : s[i].what = what})

LEMMA Counted ==
    ASSUME NEW s \in Seq(Entries), NEW e \in Entries, NEW what
    PROVE  /\ HowOften(s, what) \in Nat
           /\ e.what = what => HowOften(Append(s, e), what) = HowOften(s, what) + 1
           /\ e.what # what => HowOften(Append(s, e), what) = HowOften(s, what)
           /\ (\A i \in DOMAIN s : s[i].what # what) => HowOften(s, what) = 0
<1> DEFINE Old == {i \in DOMAIN s : s[i].what = what}
           New == {i \in DOMAIN Append(s, e) : Append(s, e)[i].what = what}
<1>1. Len(s) \in Nat /\ DOMAIN s = 1..Len(s)
  OBVIOUS
<1>2. IsFiniteSet(Old) /\ Cardinality(Old) \in Nat
  <2>1. IsFiniteSet(1..Len(s))
    BY <1>1, FS_Interval
  <2>2. Old \in SUBSET (1..Len(s))
    BY <1>1
  <2>3. IsFiniteSet(Old)
    BY <2>1, <2>2, FS_Subset
  <2>. QED BY <2>3, FS_CardinalityType
<1>3. /\ DOMAIN Append(s, e) = 1..(Len(s) + 1)
      /\ \A i \in 1..Len(s) : Append(s, e)[i] = s[i]
      /\ Append(s, e)[Len(s) + 1] = e
  BY Appended
<1>4. CASE e.what = what
  <2>1. New = Old \union {Len(s) + 1}
    BY <1>1, <1>3, <1>4
  <2>2. Len(s) + 1 \notin Old
    BY <1>1
  <2>3. Cardinality(New) = Cardinality(Old) + 1
    BY <1>2, <2>1, <2>2, FS_AddElement
  <2>4. (\A i \in DOMAIN s : s[i].what # what) => Old = {}
    OBVIOUS
  <2>5. (\A i \in DOMAIN s : s[i].what # what) => Cardinality(Old) = 0
    BY <2>4, FS_EmptySet
  <2>. QED BY <1>2, <1>4, <2>3, <2>5 DEF HowOften
<1>5. CASE e.what # what
  <2>1. New = Old
    BY <1>1, <1>3, <1>5
  <2>2. (\A i \in DOMAIN s : s[i].what # what) => Old = {}
    OBVIOUS
  <2>3. (\A i \in DOMAIN s : s[i].what # what) => Cardinality(Old) = 0
    BY <2>2, FS_EmptySet
  <2>. QED BY <1>2, <1>5, <2>1, <2>3 DEF HowOften
<1>. QED BY <1>4, <1>5

LEMMA TimesIsHowOften ==
    ASSUME NEW c, NEW what PROVE Times(c, what) = HowOften(log[c], what)
  BY DEF Times, HowOften

LEMMA SameLogSameTimes ==
    ASSUME NEW c, log'[c] = log[c]
    PROVE  (\A what : Times(c, what)' = Times(c, what)) /\ (Fresh(c) => Fresh(c)')
  BY DEF Times, Fresh

LEMMA Recorded ==
    ASSUME Typed, NEW c \in Commands, NEW what \in Happenings,
           NEW who \in Actors \union {"hub"}, Record(c, what, who)
    PROVE  /\ \A k \in Happenings :
                /\ Times(c, k) \in Nat
                /\ k = what => Times(c, k)' = Times(c, k) + 1
                /\ k # what => Times(c, k)' = Times(c, k)
           /\ \A d \in Commands \ {c} : log'[d] = log[d]
           /\ Fresh(c) => Times(c, "expired") = 0
           /\ (Fresh(c) /\ what \in {"command", "approval-pending", "approval-refused"})
                => Fresh(c)'
<1> DEFINE e == Entry(what, who)
<1>1. e \in Entries /\ e.what = what /\ log[c] \in Seq(Entries)
  BY DEF Entry, Entries, Typed
<1>. HIDE DEF e
<1>2. log'[c] = Append(log[c], e) /\ \A d \in Commands \ {c} : log'[d] = log[d]
  BY DEF Record, Typed, e
<1>3. \A k : /\ HowOften(log[c], k) \in Nat
             /\ k = what => HowOften(log'[c], k) = HowOften(log[c], k) + 1
             /\ k # what => HowOften(log'[c], k) = HowOften(log[c], k)
             /\ (\A i \in DOMAIN log[c] : log[c][i].what # k) => HowOften(log[c], k) = 0
  BY <1>1, <1>2, Counted
<1>4. \A k : Times(c, k) = HowOften(log[c], k) /\ Times(c, k)' = HowOften(log'[c], k)
  BY DEF Times, HowOften
<1>5. Fresh(c) => Times(c, "expired") = 0
  BY <1>3, <1>4 DEF Fresh
<1>6. (Fresh(c) /\ what \in {"command", "approval-pending", "approval-refused"})
        => Fresh(c)'
  BY <1>1, <1>2, Appended DEF Fresh
<1>. QED BY <1>2, <1>3, <1>4, <1>5, <1>6

(* Where the threads are once t has moved to h. *)
LEMMA WhoIsWhere ==
    ASSUME Typed, NEW t \in Threads, NEW h, Now(t, h)
    PROVE  /\ handler'[t] = h
           /\ \A u \in Threads \ {t} : handler'[u] = handler[u]
           /\ \A s, d : /\ (h.step = s /\ h.c = d) => In(s, d)' = In(s, d) \union {t}
                        /\ ~(h.step = s /\ h.c = d) => In(s, d)' = In(s, d) \ {t}
<1>1. handler'[t] = h /\ \A u \in Threads \ {t} : handler'[u] = handler[u]
  BY DEF Now, Typed
<1>. QED BY <1>1 DEF In

(* A command whose approval, evidence and threads do not move. *)
LEMMA Untouched ==
    ASSUME NEW d \in Commands, Story(d), log'[d] = log[d], request'[d] = request[d],
           d \in pending' => d \in pending,
           \A s \in {"defer", "dispatch", "reject"} : In(s, d)' = In(s, d),
           \A u \in Threads : Holds(handler'[u], d) => Holds(handler[u], d) \/ d \in pending
    PROVE  Story(d)'
<1>1. (\A what : Times(d, what)' = Times(d, what)) /\ (Fresh(d) => Fresh(d)')
  BY SameLogSameTimes
<1>2. /\ In("defer", d)' = In("defer", d) /\ In("dispatch", d)' = In("dispatch", d)
      /\ In("reject", d)' = In("reject", d)
  OBVIOUS
<1>3. Open(d)'
  BY <1>1, <1>2 DEF Story, Open
<1>4. PutUp(d)'
  BY <1>1, <1>2 DEF Story, PutUp
<1>5. Spent(d)'
  BY <1>1, <1>2 DEF Story, Spent, Asked
<1>. QED BY <1>3, <1>4, <1>5 DEF Story

(* A thread that moves neither from nor to a decision about d. *)
LEMMA MovesElsewhere ==
    ASSUME Typed, NEW t \in Threads, NEW h, Now(t, h), NEW d \in Commands, Story(d),
           log'[d] = log[d], request'[d] = request[d], d \in pending' => d \in pending,
           ~(handler[t].step \in {"defer", "dispatch", "reject"} /\ handler[t].c = d),
           ~(h.step \in {"defer", "dispatch", "reject"} /\ h.c = d),
           Holds(h, d) => Holds(handler[t], d) \/ d \in pending
    PROVE  Story(d)'
<1>1. \A s \in {"defer", "dispatch", "reject"} : In(s, d)' = In(s, d)
  BY WhoIsWhere DEF In
<1>2. \A u \in Threads : Holds(handler'[u], d) => Holds(handler[u], d) \/ d \in pending
  BY WhoIsWhere
<1>. QED BY <1>1, <1>2, Untouched


(* Sending or turning down on a decision: the decision is used up. *)
LEMMA LastStepOnce ==
    ASSUME Inv, NEW t \in Threads, Dispatch(t) \/ Reject(t),
           \A d \in Commands : Story(d)
    PROVE  \A d \in Commands : Story(d)'
<1>1. PICK c \in Commands : c = handler[t].c
  BY DEF Inv, Typed, Dispatch, Reject, Handlers, Idle
<1>2. PICK what \in {"dispatched", "rejected"} :
        /\ Record(c, what, "hub")
        /\ what = "dispatched" => handler[t].step = "dispatch"
        /\ what = "rejected" => handler[t].step = "reject"
  BY <1>1 DEF Dispatch, Reject
<1>3. UNCHANGED <<request, pending>> /\ Now(t, Idle) /\ Typed
  BY DEF Dispatch, Reject, Inv
<1>4. Idle.step = "idle"
  BY DEF Idle
<1>5. Holds(handler[t], c) /\ handler[t].step \in {"dispatch", "reject"}
  BY <1>1, <1>2 DEF Holds
<1>6. ASSUME NEW d \in Commands \ {c} PROVE Story(d)'
  <2>1. log'[d] = log[d]
    BY <1>2, <1>3, Recorded DEF Happenings
  <2>2. ~Holds(Idle, d)
    BY <1>4 DEF Holds
  <2>. QED BY <1>1, <1>3, <1>4, <2>1, <2>2, MovesElsewhere
<1>7. Story(c)'
  <2>1. /\ \A k \in Happenings : /\ Times(c, k) \in Nat
                                 /\ k = what => Times(c, k)' = Times(c, k) + 1
                                 /\ k # what => Times(c, k)' = Times(c, k)
    BY <1>2, <1>3, Recorded DEF Happenings
  <2>2. \A s \in {"defer", "dispatch", "reject"} : In(s, c)' = In(s, c) \ {t}
    BY <1>3, <1>4, WhoIsWhere
  <2>3. handler[t].step = "dispatch" => t \in In("dispatch", c)
    BY <1>1 DEF In
  <2>4. handler[t].step = "reject" => t \in In("reject", c)
    BY <1>1 DEF In
  <2>5. In("defer", c) = {}
    BY <1>5 DEF Story, PutUp, In
  <2>6. c \notin pending'
    BY <1>3, <1>5, <2>3, <2>4 DEF Story, Open
  <2>7. /\ IsFiniteSet(In("dispatch", c)) /\ IsFiniteSet(In("reject", c))
        /\ Cardinality(In("dispatch", c)) \in Nat /\ Cardinality(In("reject", c)) \in Nat
    BY FS_CardinalityType DEF Story, Spent
  <2>8. /\ IsFiniteSet(In("dispatch", c)') /\ IsFiniteSet(In("reject", c)')
        /\ Cardinality(In("dispatch", c)')
            = IF t \in In("dispatch", c) THEN Cardinality(In("dispatch", c)) - 1
              ELSE Cardinality(In("dispatch", c))
        /\ Cardinality(In("reject", c)')
            = IF t \in In("reject", c) THEN Cardinality(In("reject", c)) - 1
              ELSE Cardinality(In("reject", c))
    BY <2>2, <2>7, FS_RemoveElement
  <2>9. Spent(c)'
    <3>1. Spent(c) /\ (Asked(c) <=> Asked(c)') /\ request'[c] = request[c]
      BY <1>3 DEF Story, Asked
    <3>2. /\ "dispatched" \in Happenings /\ "rejected" \in Happenings
          /\ "expired" \in Happenings /\ "approval-granted" \in Happenings
          /\ "approval-denied" \in Happenings
      BY DEF Happenings
    <3>3. CASE what = "dispatched"
      <4>1. t \in In("dispatch", c) /\ t \notin In("reject", c)
        BY <1>2, <2>3, <3>3 DEF In
      <4>2. /\ Times(c, "dispatched")' = Times(c, "dispatched") + 1
            /\ Times(c, "rejected")' = Times(c, "rejected")
            /\ Times(c, "expired")' = Times(c, "expired")
            /\ Times(c, "approval-granted")' = Times(c, "approval-granted")
            /\ Times(c, "approval-denied")' = Times(c, "approval-denied")
            /\ Times(c, "dispatched") \in Nat
        BY <2>1, <3>2, <3>3
      <4>. QED BY <2>7, <2>8, <3>1, <4>1, <4>2 DEF Spent
    <3>4. CASE what = "rejected"
      <4>1. t \in In("reject", c) /\ t \notin In("dispatch", c)
        BY <1>2, <2>4, <3>4 DEF In
      <4>2. /\ Times(c, "dispatched")' = Times(c, "dispatched")
            /\ Times(c, "rejected")' = Times(c, "rejected") + 1
            /\ Times(c, "expired")' = Times(c, "expired")
            /\ Times(c, "approval-granted")' = Times(c, "approval-granted")
            /\ Times(c, "approval-denied")' = Times(c, "approval-denied")
            /\ Times(c, "rejected") \in Nat
        BY <2>1, <3>2, <3>4
      <4>. QED BY <2>7, <2>8, <3>1, <4>1, <4>2 DEF Spent
    <3>. QED BY <3>3, <3>4
  <2>10. Open(c)'
    BY <2>6 DEF Open
  <2>11. PutUp(c)'
    BY <2>2, <2>5 DEF PutUp
  <2>. QED BY <2>9, <2>10, <2>11 DEF Story
<1>. QED BY <1>6, <1>7

(* The approval is put up by the one thread that knows of the command. *)
LEMMA DeferOnce ==
    ASSUME Inv, NEW t \in Threads, Defer(t), \A d \in Commands : Story(d)
    PROVE  \A d \in Commands : Story(d)'
<1>1. PICK c \in Commands : c = handler[t].c
  BY DEF Inv, Typed, Defer, Handlers, Idle
<1>2. /\ UNCHANGED <<request, log>> /\ pending' = pending \union {c}
      /\ Now(t, At("index", c)) /\ handler[t].step = "defer" /\ Typed
  BY <1>1 DEF Defer, Inv
<1>3. At("index", c).step = "index" /\ At("index", c).c = c
  BY DEF At
<1>4. ASSUME NEW d \in Commands \ {c} PROVE Story(d)'
  <2>1. ~Holds(At("index", c), d)
    BY <1>3 DEF Holds
  <2>2. log'[d] = log[d] /\ request'[d] = request[d] /\ (d \in pending' => d \in pending)
    BY <1>2
  <2>. QED BY <1>1, <1>2, <1>3, <2>1, <2>2, MovesElsewhere
<1>5. Story(c)'
  <2>1. t \in In("defer", c)
    BY <1>1, <1>2 DEF In
  <2>2. Fresh(c) /\ \A u \in Threads \ {t} : ~Holds(handler[u], c)
    BY <2>1 DEF Story, PutUp
  <2>3. /\ In("defer", c) = {t} /\ In("dispatch", c) = {} /\ In("reject", c) = {}
    BY <1>2, <2>1, <2>2 DEF Holds, In
  <2>4. /\ In("defer", c)' = In("defer", c) \ {t}
        /\ In("dispatch", c)' = In("dispatch", c) \ {t}
        /\ In("reject", c)' = In("reject", c) \ {t}
    BY <1>2, <1>3, WhoIsWhere
  <2>5. /\ In("defer", c)' = {} /\ In("dispatch", c)' = In("dispatch", c)
        /\ In("reject", c)' = In("reject", c)
    BY <2>3, <2>4
  <2>6. (\A what : Times(c, what)' = Times(c, what)) /\ Fresh(c)'
    BY <1>2, <2>2, SameLogSameTimes
  <2>7. Open(c)' /\ PutUp(c)'
    BY <2>3, <2>5, <2>6 DEF Open, PutUp
  <2>8. Spent(c)'
    BY <1>2, <2>5, <2>6 DEF Story, Spent, Asked
  <2>. QED BY <2>7, <2>8 DEF Story
<1>. QED BY <1>4, <1>5

(* A note that decides nothing, by a thread that then has done with c. *)
LEMMA NotedOnce ==
    ASSUME Inv, NEW t \in Threads, NEW c \in Commands,
           NEW what \in {"approval-pending", "approval-refused"},
           NEW who \in Actors \union {"hub"},
           Record(c, what, who), Now(t, Idle), UNCHANGED <<request, pending>>,
           handler[t].step \in {"index", "expire"}, Holds(handler[t], c),
           \A d \in Commands : Story(d)
    PROVE  \A d \in Commands : Story(d)'
<1>1. Typed /\ Idle.step = "idle"
  BY DEF Idle, Inv
<1>2. \A d : ~Holds(Idle, d)
  BY <1>1 DEF Holds
<1>3. what \in Happenings
  BY DEF Happenings
<1>4. ASSUME NEW d \in Commands \ {c} PROVE Story(d)'
  <2>1. log'[d] = log[d] /\ request'[d] = request[d] /\ (d \in pending' => d \in pending)
    BY <1>1, <1>3, Recorded
  <2>. QED BY <1>1, <1>2, <2>1, MovesElsewhere
<1>5. Story(c)'
  <2>1. /\ In("defer", c)' = In("defer", c) /\ In("dispatch", c)' = In("dispatch", c)
        /\ In("reject", c)' = In("reject", c)
    BY <1>1, WhoIsWhere DEF In
  <2>2. In("defer", c) = {}
    BY DEF Story, PutUp, In
  <2>3. /\ Fresh(c) => Fresh(c)'
        /\ \A k \in Happenings : k # what => Times(c, k)' = Times(c, k)
    BY <1>1, <1>3, Recorded
  <2>4. /\ Times(c, "dispatched")' = Times(c, "dispatched")
        /\ Times(c, "rejected")' = Times(c, "rejected")
        /\ Times(c, "expired")' = Times(c, "expired")
        /\ Times(c, "approval-granted")' = Times(c, "approval-granted")
        /\ Times(c, "approval-denied")' = Times(c, "approval-denied")
    BY <2>3 DEF Happenings
  <2>5. Open(c)' /\ PutUp(c)'
    BY <2>1, <2>2, <2>3 DEF Story, Open, PutUp
  <2>6. Spent(c)'
    BY <2>1, <2>4 DEF Story, Spent, Asked
  <2>. QED BY <2>5, <2>6 DEF Story
<1>. QED BY <1>4, <1>5

LEMMA IndexOnce ==
    ASSUME Inv, NEW t \in Threads, Index(t), \A d \in Commands : Story(d)
    PROVE  \A d \in Commands : Story(d)'
<1>1. PICK c \in Commands : c = handler[t].c /\ Asked(c)
  BY DEF Inv, Typed, Handling, Index, Handlers, Idle, Clear
<1>2. request[c].actor \in Actors
  BY <1>1 DEF Inv, Typed, Asked, Requests
<1>3. /\ UNCHANGED <<request, pending>> /\ Now(t, Idle) /\ handler[t].step = "index"
      /\ Record(c, "approval-pending", request[c].actor)
  BY <1>1 DEF Index
<1>4. Holds(handler[t], c)
  BY <1>1, <1>3 DEF Holds
<1>. QED BY <1>2, <1>3, <1>4, NotedOnce

(* A thread that neither writes nor decides, whatever it goes on to hold.  *)
LEMMA LooksOnce ==
    ASSUME Inv, NEW t \in Threads, NEW h, Now(t, h), UNCHANGED <<request, pending, log>>,
           handler[t].step \in {"idle", "expire"}, h.step \in {"idle", "expire", "remove"},
           \A d \in Commands : Holds(h, d) => Holds(handler[t], d) \/ d \in pending,
           \A d \in Commands : Story(d)
    PROVE  \A d \in Commands : Story(d)'
<1>1. Typed
  BY DEF Inv
<1>. SUFFICES ASSUME NEW d \in Commands PROVE Story(d)'
  OBVIOUS
<1>2. log'[d] = log[d] /\ request'[d] = request[d] /\ (d \in pending' => d \in pending)
  OBVIOUS
<1>. QED BY <1>1, <1>2, MovesElsewhere

LEMMA ArriveOnce ==
    ASSUME Inv, NEW t \in Threads, Arrive(t), \A d \in Commands : Story(d)
    PROVE  \A d \in Commands : Story(d)'
<1>1. PICK wish \in Wishes :
        Now(t, [step |-> "expire", victims |-> pending \cap overdue, wish |-> wish])
  BY DEF Arrive
<1> DEFINE h == [step |-> "expire", victims |-> pending \cap overdue, wish |-> wish]
<1>2. UNCHANGED <<request, pending, log>> /\ handler[t].step = "idle"
  BY DEF Arrive, Idle
<1>3. h.step = "expire" /\ h.wish = wish /\ Now(t, h)
  BY <1>1
<1>4. wish # Idle => wish.c \in pending
  BY DEF Wishes
<1>. HIDE DEF h
<1>5. \A d \in Commands : Holds(h, d) => d \in pending
  BY <1>3, <1>4 DEF Holds
<1>. QED BY <1>2, <1>3, <1>5, LooksOnce


(* An approval is taken out as it expires, so it does so once.             *)
LEMMA ExpireOneOnce ==
    ASSUME Inv, NEW t \in Threads, ExpireOne(t), \A d \in Commands : Story(d)
    PROVE  \A d \in Commands : Story(d)'
<1>1. handler[t] \in [step: {"expire"}, victims: SUBSET Commands,
                      wish: Decisions \union {Idle}]
  BY DEF ExpireOne, Inv, Typed, Handlers, Idle
<1>2. PICK c \in handler[t].victims :
        IF StillPending(c)
        THEN /\ pending' = pending \ {c}
             /\ Record(c, "expired", "hub")
             /\ Now(t, [handler[t] EXCEPT !.victims = @ \ {c}])
        ELSE Now(t, Idle) /\ UNCHANGED <<pending, log>>
  BY DEF ExpireOne
<1>3. c \in Commands /\ request' = request /\ handler[t].step = "expire" /\ Typed
  BY <1>1, <1>2 DEF ExpireOne, Inv
<1>4. CASE ~StillPending(c)
  <2>1. Idle.step = "idle" /\ Now(t, Idle) /\ UNCHANGED <<request, pending, log>>
    BY <1>2, <1>3, <1>4 DEF Idle
  <2>2. \A d : ~Holds(Idle, d)
    BY <2>1 DEF Holds
  <2>. QED BY <1>3, <2>1, <2>2, LooksOnce
<1>5. CASE StillPending(c)
  <2> DEFINE h == [handler[t] EXCEPT !.victims = @ \ {c}]
  <2>1. /\ h.step = "expire" /\ h.wish = handler[t].wish
        /\ Now(t, h) /\ pending' = pending \ {c} /\ Record(c, "expired", "hub")
    BY <1>1, <1>2, <1>5
  <2>. HIDE DEF h
  <2>2. \A d : Holds(h, d) => Holds(handler[t], d)
    BY <1>3, <2>1 DEF Holds
  <2>3. "expired" \in Happenings
    BY DEF Happenings
  <2>4. ASSUME NEW d \in Commands \ {c} PROVE Story(d)'
    <3>1. log'[d] = log[d] /\ request'[d] = request[d] /\ (d \in pending' => d \in pending)
      BY <1>3, <2>1, <2>3, Recorded
    <3>. QED BY <1>3, <2>1, <2>2, <3>1, MovesElsewhere
  <2>5. Story(c)'
    <3>1. /\ Fresh(c) /\ In("defer", c) = {}
      BY <1>3, <1>5 DEF StillPending, Story, Open
    <3>2. /\ Times(c, "expired") = 0
          /\ \A k \in Happenings : /\ k = "expired" => Times(c, k)' = Times(c, k) + 1
                                   /\ k # "expired" => Times(c, k)' = Times(c, k)
      BY <1>3, <2>1, <2>3, <3>1, Recorded
    <3>3. /\ Times(c, "dispatched")' = Times(c, "dispatched")
          /\ Times(c, "rejected")' = Times(c, "rejected")
          /\ Times(c, "expired")' = 1
          /\ Times(c, "approval-granted")' = Times(c, "approval-granted")
          /\ Times(c, "approval-denied")' = Times(c, "approval-denied")
      BY <3>2 DEF Happenings
    <3>4. /\ In("defer", c)' = In("defer", c) /\ In("dispatch", c)' = In("dispatch", c)
          /\ In("reject", c)' = In("reject", c)
      BY <1>3, <2>1, WhoIsWhere DEF In
    <3>5. Open(c)' /\ PutUp(c)'
      BY <2>1, <3>1, <3>4 DEF Open, PutUp
    <3>6. Spent(c)'
      BY <1>3, <3>3, <3>4 DEF Story, Spent, Asked
    <3>. QED BY <3>5, <3>6 DEF Story
  <2>. QED BY <2>4, <2>5
<1>. QED BY <1>4, <1>5

LEMMA LookUpOnce ==
    ASSUME Inv, NEW t \in Threads, LookUp(t), \A d \in Commands : Story(d)
    PROVE  \A d \in Commands : Story(d)'
<1>1. handler[t] \in [step: {"expire"}, victims: SUBSET Commands,
                      wish: Decisions \union {Idle}]
  BY DEF LookUp, Inv, Typed, Handlers, Idle
<1>2. PICK w \in Decisions \union {Idle} : w = handler[t].wish
  BY <1>1
<1>3. UNCHANGED <<request, pending>> /\ handler[t].step = "expire"
  BY DEF LookUp
<1>4. ASSUME Now(t, Idle), log' = log PROVE \A d \in Commands : Story(d)'
  <2>1. Idle.step = "idle"
    BY DEF Idle
  <2>2. \A d : ~Holds(Idle, d)
    BY <2>1 DEF Holds
  <2>. QED BY <1>3, <1>4, <2>1, <2>2, LooksOnce
<1>5. ASSUME w # Idle, Now(t, [step |-> "remove", wish |-> w]), log' = log
      PROVE  \A d \in Commands : Story(d)'
  <2> DEFINE h == [step |-> "remove", wish |-> w]
  <2>1. h.step = "remove" /\ h.wish = handler[t].wish /\ Now(t, h)
    BY <1>2, <1>5
  <2>. HIDE DEF h
  <2>2. \A d : Holds(h, d) => Holds(handler[t], d)
    BY <1>3, <2>1 DEF Holds
  <2>. QED BY <1>3, <1>5, <2>1, <2>2, LooksOnce
<1>6. ASSUME w # Idle, Record(w.c, "approval-refused", w.who), Now(t, Idle)
      PROVE  \A d \in Commands : Story(d)'
  <2>1. w.c \in Commands /\ w.who \in Actors
    BY <1>6 DEF Decisions
  <2>2. Holds(handler[t], w.c)
    BY <1>2, <1>3, <1>6 DEF Holds
  <2>. QED BY <1>3, <1>6, <2>1, <2>2, NotedOnce
<1>. QED BY <1>2, <1>4, <1>5, <1>6 DEF LookUp

(* A decision is logged as it is made, and the approval taken out.         *)
LEMMA RemoveOnce ==
    ASSUME Inv, NEW t \in Threads, Remove(t), \A d \in Commands : Story(d)
    PROVE  \A d \in Commands : Story(d)'
<1>1. PICK w \in Decisions : w = handler[t].wish
  BY DEF Remove, Inv, Typed, Handlers, Idle
<1>2. PICK c \in Commands : c = w.c
  BY DEF Decisions
<1>3. w.who \in Actors /\ w.choice \in {"approve", "deny"} /\ w # Idle
  BY DEF Decisions, Idle
<1>4. PICK what \in {"approval-granted", "approval-denied"},
           next \in {"dispatch", "reject"} :
        /\ Record(c, what, w.who)
        /\ Now(t, At(next, c))
        /\ next = "dispatch" => what = "approval-granted"
        /\ next = "reject" => what = "approval-denied"
  BY <1>1, <1>2, <1>3 DEF Remove, AfterDecision
<1>5. /\ request' = request /\ pending' = pending \ {c}
      /\ handler[t].step = "remove" /\ Typed
  BY <1>1, <1>2 DEF Remove, Decided, Inv
<1>6. Holds(handler[t], c)
  BY <1>1, <1>2, <1>3, <1>5 DEF Holds
<1>7. At(next, c).step = next /\ At(next, c).c = c
  BY DEF At
<1>8. what \in Happenings
  BY DEF Happenings
<1>9. ASSUME NEW d \in Commands \ {c} PROVE Story(d)'
  <2>1. log'[d] = log[d] /\ request'[d] = request[d] /\ (d \in pending' => d \in pending)
    BY <1>3, <1>4, <1>5, <1>8, Recorded
  <2>2. ~Holds(At(next, c), d)
    BY <1>7 DEF Holds
  <2>. QED BY <1>4, <1>5, <1>7, <2>1, <2>2, MovesElsewhere
<1>10. Story(c)'
  <2>1. In("defer", c) = {}
    BY <1>5, <1>6 DEF Story, PutUp, In
  <2>2. /\ t \notin In("dispatch", c) /\ t \notin In("reject", c) /\ t \notin In("defer", c)
    BY <1>5 DEF In
  <2>3. /\ In("defer", c)' = {}
        /\ next = "dispatch" => /\ In("dispatch", c)' = In("dispatch", c) \union {t}
                                /\ In("reject", c)' = In("reject", c)
        /\ next = "reject" => /\ In("reject", c)' = In("reject", c) \union {t}
                              /\ In("dispatch", c)' = In("dispatch", c)
    <3>1. \A s : /\ next = s => In(s, c)' = In(s, c) \union {t}
                 /\ next # s => In(s, c)' = In(s, c) \ {t}
      BY <1>4, <1>5, <1>7, WhoIsWhere
    <3>. QED BY <2>1, <2>2, <3>1
  <2>4. /\ IsFiniteSet(In("dispatch", c)) /\ IsFiniteSet(In("reject", c))
        /\ Cardinality(In("dispatch", c)) \in Nat /\ Cardinality(In("reject", c)) \in Nat
    BY FS_CardinalityType DEF Story, Spent
  <2>5. /\ IsFiniteSet(In("dispatch", c) \union {t})
        /\ IsFiniteSet(In("reject", c) \union {t})
        /\ Cardinality(In("dispatch", c) \union {t}) = Cardinality(In("dispatch", c)) + 1
        /\ Cardinality(In("reject", c) \union {t}) = Cardinality(In("reject", c)) + 1
    BY <2>2, <2>4, FS_AddElement
  <2>6. \A k \in Happenings : /\ Times(c, k) \in Nat
                              /\ k = what => Times(c, k)' = Times(c, k) + 1
                              /\ k # what => Times(c, k)' = Times(c, k)
    BY <1>3, <1>4, <1>5, <1>8, Recorded
  <2>7. /\ Times(c, "dispatched")' = Times(c, "dispatched")
        /\ Times(c, "rejected")' = Times(c, "rejected")
        /\ Times(c, "expired")' = Times(c, "expired")
        /\ Times(c, "dispatched") \in Nat /\ Times(c, "rejected") \in Nat
        /\ Times(c, "approval-granted") \in Nat /\ Times(c, "approval-denied") \in Nat
        /\ Times(c, "approval-granted")' = IF what = "approval-granted"
                THEN Times(c, "approval-granted") + 1 ELSE Times(c, "approval-granted")
        /\ Times(c, "approval-denied")' = IF what = "approval-denied"
                THEN Times(c, "approval-denied") + 1 ELSE Times(c, "approval-denied")
    BY <2>6 DEF Happenings
  <2>8. Spent(c) /\ (Asked(c) <=> Asked(c)') /\ request'[c] = request[c]
    BY <1>5 DEF Story, Asked
  <2>9. CASE next = "dispatch"
    <3>1. /\ what = "approval-granted"
          /\ In("dispatch", c)' = In("dispatch", c) \union {t}
          /\ In("reject", c)' = In("reject", c)
      BY <1>4, <2>3, <2>9
    <3>2. /\ IsFiniteSet(In("dispatch", c))' /\ IsFiniteSet(In("reject", c))'
          /\ Cardinality(In("dispatch", c))' = Cardinality(In("dispatch", c)) + 1
          /\ Cardinality(In("reject", c))' = Cardinality(In("reject", c))
      BY <2>4, <2>5, <3>1
    <3>3. /\ Times(c, "approval-granted")' = Times(c, "approval-granted") + 1
          /\ Times(c, "approval-denied")' = Times(c, "approval-denied")
      BY <2>7, <3>1
    <3>4. Spent(c)'
      BY <2>4, <2>7, <2>8, <3>2, <3>3 DEF Spent
    <3>. QED BY <1>5, <2>3, <3>4 DEF Story, Open, PutUp
  <2>10. CASE next = "reject"
    <3>1. /\ what = "approval-denied"
          /\ In("reject", c)' = In("reject", c) \union {t}
          /\ In("dispatch", c)' = In("dispatch", c)
      BY <1>4, <2>3, <2>10
    <3>2. /\ IsFiniteSet(In("reject", c))' /\ IsFiniteSet(In("dispatch", c))'
          /\ Cardinality(In("reject", c))' = Cardinality(In("reject", c)) + 1
          /\ Cardinality(In("dispatch", c))' = Cardinality(In("dispatch", c))
      BY <2>4, <2>5, <3>1
    <3>3. /\ Times(c, "approval-denied")' = Times(c, "approval-denied") + 1
          /\ Times(c, "approval-granted")' = Times(c, "approval-granted")
      BY <2>7, <3>1
    <3>4. Spent(c)'
      BY <2>4, <2>7, <2>8, <3>2, <3>3 DEF Spent
    <3>. QED BY <1>5, <2>3, <3>4 DEF Story, Open, PutUp
  <2>. QED BY <2>9, <2>10
<1>. QED BY <1>9, <1>10


(* A new command: nobody held it before. *)
LEMMA SubmitOnce ==
    ASSUME Inv, NEW t \in Threads, NEW c \in Commands, Submit(t, c),
           \A d \in Commands : Story(d)
    PROVE  \A d \in Commands : Story(d)'
<1>1. PICK a \in Actors, r \in Risks, i \in Ingresses :
        /\ request' = [request EXCEPT ![c] = [actor |-> a, risk |-> r, ingress |-> i]]
        /\ CASE Decide(a, r, i) = "reject-path" ->
                    UNCHANGED <<log, handler>>
             [] Decide(a, r, i) = "allow" ->
                    Record(c, "command", a) /\ Now(t, At("dispatch", c))
             [] Decide(a, r, i) = "approval" ->
                    Record(c, "command", a) /\ Now(t, At("defer", c))
  BY DEF Submit
<1> DEFINE q == [actor |-> a, risk |-> r, ingress |-> i]
<1>2. ~Asked(c) /\ log[c] = <<>> /\ pending' = pending /\ handler[t].step = "idle" /\ Typed
  BY DEF Submit, Asked, Inv, Unwritten, Idle
<1>3. request'[c] = q /\ \A d \in Commands \ {c} : request'[d] = request[d]
  BY <1>1, <1>2 DEF Typed
<1>4. \A u \in Threads : ~Holds(handler[u], c)
  BY <1>2, HeldIsAsked
<1>5. /\ In("defer", c) = {} /\ In("dispatch", c) = {} /\ In("reject", c) = {}
  BY <1>4 DEF In, Holds
<1>6. c \notin pending
  BY <1>2 DEF Inv, Clear
<1>7. Fresh(c) /\ \A k \in Happenings : Times(c, k) = 0
  <2>1. {n \in DOMAIN log[c] : TRUE} = {}
    BY <1>2
  <2>2. \A k \in Happenings : {n \in DOMAIN log[c] : log[c][n].what = k} = {}
    BY <2>1
  <2>. QED BY <2>1, <2>2, FS_EmptySet DEF Fresh, Times
<1>8. "command" \in Happenings
  BY DEF Happenings
<1>. HIDE DEF q
<1>9. ASSUME UNCHANGED <<log, handler>> PROVE \A d \in Commands : Story(d)'
  <2>1. ASSUME NEW d \in Commands \ {c} PROVE Story(d)'
    <3>1. \A s \in {"defer", "dispatch", "reject"} : In(s, d)' = In(s, d)
      BY <1>9 DEF In
    <3>. QED BY <1>2, <1>3, <1>9, <3>1, Untouched
  <2>2. /\ In("defer", c)' = {} /\ In("dispatch", c)' = {} /\ In("reject", c)' = {}
    BY <1>5, <1>9 DEF In
  <2>3. (\A what : Times(c, what)' = Times(c, what)) /\ Fresh(c)'
    BY <1>7, <1>9, SameLogSameTimes
  <2>4. /\ Times(c, "dispatched")' = 0 /\ Times(c, "rejected")' = 0
        /\ Times(c, "expired")' = 0
        /\ Times(c, "approval-granted")' = 0 /\ Times(c, "approval-denied")' = 0
    BY <1>7, <2>3 DEF Happenings
  <2>5. Open(c)' /\ PutUp(c)'
    BY <2>2, <2>3 DEF Open, PutUp
  <2>6. Spent(c)'
    BY <2>2, <2>4, FS_EmptySet DEF Spent
  <2>. QED BY <2>1, <2>5, <2>6 DEF Story
<1>10. ASSUME NEW s \in {"dispatch", "defer"}, Record(c, "command", a), Now(t, At(s, c)),
              s = "dispatch" => RunsAlone(q)
       PROVE  \A d \in Commands : Story(d)'
  <2>1. At(s, c).step = s /\ At(s, c).c = c
    BY DEF At
  <2>2. ASSUME NEW d \in Commands \ {c} PROVE Story(d)'
    <3>1. log'[d] = log[d] /\ request'[d] = request[d] /\ (d \in pending' => d \in pending)
      BY <1>2, <1>3, <1>8, <1>10, Recorded
    <3>2. ~Holds(At(s, c), d)
      BY <2>1 DEF Holds
    <3>. QED BY <1>2, <1>10, <2>1, <3>1, <3>2, MovesElsewhere
  <2>3. /\ Fresh(c)'
        /\ \A k \in Happenings : k # "command" => Times(c, k)' = Times(c, k)
    BY <1>2, <1>7, <1>8, <1>10, Recorded
  <2>4. /\ Times(c, "dispatched")' = 0 /\ Times(c, "rejected")' = 0
        /\ Times(c, "expired")' = 0
        /\ Times(c, "approval-granted")' = 0 /\ Times(c, "approval-denied")' = 0
    BY <1>7, <2>3 DEF Happenings
  <2>5. /\ \A z : s = z => In(z, c)' = In(z, c) \union {t}
        /\ \A z : s # z => In(z, c)' = In(z, c) \ {t}
        /\ \A u \in Threads \ {t} : handler'[u] = handler[u]
    BY <1>2, <1>10, <2>1, WhoIsWhere
  <2>6. /\ In("reject", c)' = {}
        /\ In("dispatch", c)' = IF s = "dispatch" THEN {t} ELSE {}
        /\ In("defer", c)' = IF s = "defer" THEN {t} ELSE {}
    BY <1>5, <2>5
  <2>7. Open(c)'
    BY <1>2, <1>6 DEF Open
  <2>8. PutUp(c)'
    BY <1>2, <1>4, <1>6, <2>3, <2>5, <2>6 DEF PutUp
  <2>9. /\ IsFiniteSet(In("dispatch", c)') /\ IsFiniteSet(In("reject", c)')
        /\ Cardinality(In("reject", c)') = 0
        /\ s = "defer" => Cardinality(In("dispatch", c)') = 0
    <3>1. IsFiniteSet({}) /\ Cardinality({}) = 0
      BY FS_EmptySet
    <3>2. IsFiniteSet({t})
      BY FS_Singleton
    <3>3. CASE s = "defer"
      BY <2>6, <3>1, <3>3
    <3>4. CASE s = "dispatch"
      BY <2>6, <3>1, <3>2, <3>4
    <3>. QED BY <3>3, <3>4
  <2>10. s = "dispatch" => RunsAlone(request'[c])
    BY <1>3, <1>10
  <2>11. Spent(c)'
    BY <2>4, <2>9, <2>10 DEF Spent
  <2>. QED BY <2>2, <2>7, <2>8, <2>11 DEF Story
<1>11. CASE Decide(a, r, i) = "reject-path"
  BY <1>1, <1>9, <1>11
<1>12. CASE Decide(a, r, i) = "allow"
  <2>1. Record(c, "command", a) /\ Now(t, At("dispatch", c)) /\ RunsAlone(q)
    BY <1>1, <1>12, AllowedRunsAlone DEF q
  <2>. QED BY <1>10, <2>1
<1>13. CASE Decide(a, r, i) = "approval"
  <2>1. Record(c, "command", a) /\ Now(t, At("defer", c))
    BY <1>1, <1>13
  <2>. QED BY <1>10, <2>1
<1>. QED BY <1>11, <1>12, <1>13, AllowedRunsAlone

LEMMA TimesOfLog ==
    ASSUME NEW s \in Seq(Entries) PROVE \A k : HowOften(s, k) \in Nat
<1>. SUFFICES ASSUME NEW k PROVE HowOften(s, k) \in Nat
  OBVIOUS
<1> DEFINE S == {i \in DOMAIN s : s[i].what = k}
<1>1. IsFiniteSet(1..Len(s)) /\ S \in SUBSET (1..Len(s))
  BY FS_Interval
<1>2. IsFiniteSet(S)
  BY <1>1, FS_Subset
<1>. QED BY <1>2, FS_CardinalityType DEF HowOften

(* A restart ends every request under way: what it decided is not done,    *)
(* and what was pending can no longer be decided.                          *)
LEMMA RestartOnce ==
    ASSUME Inv, HubRestart, NEW d \in Commands, Story(d)
    PROVE  Story(d)'
<1>1. /\ UNCHANGED <<request, log>> /\ pending' = {}
      /\ handler' = [t \in Threads |-> Idle]
  BY DEF HubRestart
<1>2. \A t \in Threads : handler'[t].step = "idle"
  BY <1>1 DEF Idle
<1>3. In("defer", d)' = {} /\ In("dispatch", d)' = {} /\ In("reject", d)' = {}
  BY <1>2 DEF In
<1>4. \A what : Times(d, what)' = Times(d, what)
  BY <1>1, SameLogSameTimes
<1>5. /\ IsFiniteSet(In("dispatch", d)') /\ IsFiniteSet(In("reject", d)')
      /\ Cardinality(In("dispatch", d)') = 0 /\ Cardinality(In("reject", d)') = 0
  BY <1>3, FS_EmptySet
<1>6. /\ IsFiniteSet(In("dispatch", d)) /\ IsFiniteSet(In("reject", d))
      /\ Cardinality(In("dispatch", d)) \in Nat /\ Cardinality(In("reject", d)) \in Nat
  BY FS_CardinalityType DEF Story, Spent
<1>7. /\ Times(d, "dispatched") \in Int /\ Times(d, "rejected") \in Int
      /\ Times(d, "approval-granted") \in Int /\ Times(d, "approval-denied") \in Int
  <2>1. log[d] \in Seq(Entries)
    BY DEF Inv, Typed
  <2>2. \A k : HowOften(log[d], k) \in Nat
    BY <2>1, TimesOfLog
  <2>. QED BY <2>2, TimesIsHowOften
<1>8. Spent(d)'
  BY <1>1, <1>4, <1>5, <1>6, <1>7 DEF Story, Spent, Asked
<1>. QED BY <1>1, <1>3, <1>8 DEF Story, Open, PutUp

-----------------------------------------------------------------------------
LEMMA RestStep == Inv /\ Rest /\ [Next]_vars => Rest'
<1>. SUFFICES ASSUME Inv, Rest, [Next]_vars PROVE Rest'
  OBVIOUS
<1>. USE DEF Rest
<1>1. CASE UNCHANGED vars
  BY <1>1 DEF vars
<1>2. ASSUME NEW t \in Threads, NEW h, Now(t, h), UNCHANGED <<overdue, restarts>>,
             h.step = "expire" => h.victims \subseteq overdue
      PROVE  /\ overdue' \subseteq Commands /\ restarts' \in 0..MaxRestarts
             /\ \A u \in Threads :
                    handler'[u].step = "expire" => handler'[u].victims \subseteq overdue'
  BY <1>2, WhoIsWhere DEF Inv
<1>3. Idle.step = "idle" /\ \A s, c : At(s, c).step = s
  BY DEF Idle, At
<1>4. ASSUME NEW t \in Threads,
             Dispatch(t) \/ Defer(t) \/ Index(t) \/ Remove(t) \/ Reject(t)
      PROVE  Rest'
  <2>1. PICK h : Now(t, h) /\ h.step # "expire"
    BY <1>3, <1>4 DEF Dispatch, Defer, Index, Remove, Reject, AfterDecision
  <2>2. UNCHANGED <<overdue, restarts>>
    BY <1>4 DEF Dispatch, Defer, Index, Remove, Reject
  <2>3. byCommand' \subseteq Commands
    <3>1. handler[t] \in Handlers
      BY DEF Inv, Typed
    <3>. QED BY <1>4, <3>1
        DEF Dispatch, Defer, Index, Remove, Reject, Handlers, Idle, Decisions
  <2>. QED BY <1>2, <2>1, <2>2, <2>3
<1>5. ASSUME NEW t \in Threads, LookUp(t) PROVE Rest'
  <2>1. PICK h : Now(t, h) /\ h.step # "expire"
    BY <1>3, <1>5 DEF LookUp
  <2>2. UNCHANGED <<byCommand, overdue, restarts>>
    BY <1>5 DEF LookUp
  <2>. QED BY <1>2, <2>1, <2>2
<1>6. ASSUME NEW t \in Threads, Arrive(t) PROVE Rest'
  <2>1. PICK wish \in Wishes :
            Now(t, [step |-> "expire", victims |-> pending \cap overdue, wish |-> wish])
    BY <1>6 DEF Arrive
  <2>2. PICK h : Now(t, h) /\ h.victims \subseteq overdue
    BY <2>1
  <2>3. UNCHANGED <<byCommand, overdue, restarts>>
    BY <1>6 DEF Arrive
  <2>. QED BY <1>2, <2>2, <2>3
<1>7. ASSUME NEW t \in Threads, ExpireOne(t) PROVE Rest'
  <2>1. handler[t] \in [step: {"expire"}, victims: SUBSET Commands,
                        wish: Decisions \union {Idle}]
    BY <1>7 DEF ExpireOne, Inv, Typed, Handlers, Idle
  <2>2. PICK c : \/ Now(t, [handler[t] EXCEPT !.victims = @ \ {c}])
                 \/ Now(t, Idle)
    BY <1>7 DEF ExpireOne
  <2>3. [handler[t] EXCEPT !.victims = @ \ {c}].victims \subseteq handler[t].victims
    BY <2>1
  <2>4. PICK h : Now(t, h) /\ (h.step = "expire" => h.victims \subseteq overdue)
    BY <1>3, <2>1, <2>2, <2>3
  <2>5. byCommand' \subseteq Commands /\ UNCHANGED <<overdue, restarts>>
    BY <1>7 DEF ExpireOne
  <2>. QED BY <1>2, <2>4, <2>5
<1>8. ASSUME NEW t \in Threads, NEW c \in Commands, Submit(t, c) PROVE Rest'
  <2>1. UNCHANGED <<byCommand, overdue, restarts>>
    BY <1>8 DEF Submit
  <2>2. handler' = handler \/ \E h : Now(t, h) /\ h.step # "expire"
    <3>1. PICK a \in Actors, r \in Risks, i \in Ingresses :
            CASE Decide(a, r, i) = "reject-path" ->
                    UNCHANGED <<log, handler>>
              [] Decide(a, r, i) = "allow" ->
                    Record(c, "command", a) /\ Now(t, At("dispatch", c))
              [] Decide(a, r, i) = "approval" ->
                    Record(c, "command", a) /\ Now(t, At("defer", c))
      BY <1>8 DEF Submit
    <3>. QED BY <1>3, <3>1, AllowedRunsAlone, ZenonT(30)
  <2>. QED BY <1>2, <2>1, <2>2
<1>9. ASSUME NEW c \in Commands, Deadline(c) PROVE Rest'
  BY <1>9 DEF Deadline
<1>10. CASE HubRestart
  <2>1. restarts' \in 0..MaxRestarts
    BY <1>10, ApprovalsAssumption DEF HubRestart
  <2>2. \A t \in Threads : handler'[t].step = "idle"
    BY <1>3, <1>10 DEF HubRestart
  <2>. QED BY <1>10, <2>1, <2>2 DEF HubRestart
<1>. QED BY <1>1, <1>4, <1>5, <1>6, <1>7, <1>8, <1>9, <1>10 DEF Next, Work

LEMMA OnceInit == Init => Once
<1>. SUFFICES ASSUME Init PROVE Once
  OBVIOUS
<1>1. \A t \in Threads : handler[t].step = "idle"
  BY DEF Init, Idle
<1>2. Rest
  BY <1>1, ApprovalsAssumption DEF Init, Rest
<1>. SUFFICES ASSUME NEW c \in Commands PROVE Story(c)
  BY <1>2 DEF Once
<1>3. In("defer", c) = {} /\ In("dispatch", c) = {} /\ In("reject", c) = {}
  BY <1>1 DEF In
<1>4. \A what : Times(c, what) = 0
  <2>1. DOMAIN log[c] = {}
    BY DEF Init
  <2>2. \A what : {i \in DOMAIN log[c] : log[c][i].what = what} = {}
    BY <2>1
  <2>. QED BY <2>2, FS_EmptySet DEF Times
<1>5. Spent(c)
  BY <1>3, <1>4, FS_EmptySet DEF Spent
<1>. QED BY <1>3, <1>5 DEF Story, Open, PutUp, Init

LEMMA OnceStep == Inv /\ Once /\ [Next]_vars => Once'
<1>. SUFFICES ASSUME Inv, Once, [Next]_vars PROVE Once'
  OBVIOUS
<1>. SUFFICES \A d \in Commands : Story(d)'
  BY RestStep DEF Once
<1>0. \A d \in Commands : Story(d)
  BY DEF Once
<1>1. ASSUME UNCHANGED <<request, pending, log, handler>>
      PROVE  \A d \in Commands : Story(d)'
  <2>. SUFFICES ASSUME NEW d \in Commands PROVE Story(d)'
    OBVIOUS
  <2>1. \A s \in {"defer", "dispatch", "reject"} : In(s, d)' = In(s, d)
    BY <1>1 DEF In
  <2>. QED BY <1>0, <1>1, <2>1, Untouched
<1>2. ASSUME NEW t \in Threads, Work(t) PROVE \A d \in Commands : Story(d)'
  BY <1>0, <1>2, LastStepOnce, DeferOnce, IndexOnce, ExpireOneOnce, LookUpOnce,
     RemoveOnce DEF Work
<1>3. ASSUME NEW t \in Threads, Arrive(t) PROVE \A d \in Commands : Story(d)'
  BY <1>0, <1>3, ArriveOnce
<1>4. ASSUME NEW t \in Threads, NEW c \in Commands, Submit(t, c)
      PROVE  \A d \in Commands : Story(d)'
  BY <1>0, <1>4, SubmitOnce
<1>5. CASE HubRestart
  BY <1>0, <1>5, RestartOnce
<1>6. CASE UNCHANGED vars \/ \E c \in Commands : Deadline(c)
  BY <1>1, <1>6 DEF vars, Deadline
<1>. QED BY <1>2, <1>3, <1>4, <1>5, <1>6 DEF Next

(* A grant is spent once, a denial turns nothing into a dispatch, an       *)
(* approval expires at most once and is never put back once decided        *)
(* (extensions/authority/__init__.py, _expire and decide_approval), for    *)
(* any number of API threads that stop anywhere and any matrix.            *)
THEOREM EveryEndComesOnce == Spec => []DecidedOnce
<1>1. ASSUME Inv, Once PROVE DecidedOnce
  <2>. USE <1>1
  <2>1. \A c \in Commands : \A i \in DOMAIN log[c] : log[c][i].who \in Actors \union {"hub"}
    <3>. SUFFICES ASSUME NEW c \in Commands, NEW i \in DOMAIN log[c]
                  PROVE  log[c][i].who \in Actors \union {"hub"}
      OBVIOUS
    <3>1. log[c] \in Seq(Entries)
      BY DEF Inv, Typed
    <3>2. log[c][i] \in Entries
      BY <3>1
    <3>. QED BY <3>2 DEF Entries
  <2>2. \A t \in Threads : handler[t].step \in Steps
    BY DEF Inv, Typed, Handlers, Steps, Idle
  <2>3. \A t \in Threads : handler[t].step = "remove" => handler[t].wish \in HumanWishes
    <3>. SUFFICES ASSUME NEW t \in Threads, handler[t].step = "remove"
                  PROVE  handler[t].wish \in HumanWishes
      OBVIOUS
    <3>1. handler[t].wish \in Decisions
      BY DEF Inv, Typed, Handlers, Idle
    <3>2. MayApprove(handler[t].wish.who, request[handler[t].wish.c].actor)
      BY DEF Inv, Handling
    <3>. QED BY <3>1, <3>2 DEF Decisions, HumanWishes, MayApprove
  <2>4. TypeOK
    BY <2>1, <2>2, <2>3 DEF TypeOK, Inv, Typed, Once, Rest, Requests
  <2>5. ASSUME NEW c \in Commands PROVE /\ Times(c, "expired") <= 1
                                        /\ Times(c, "rejected") <= Times(c, "approval-denied")
                                        /\ (Asked(c) /\ ~RunsAlone(request[c])) =>
                                            Times(c, "dispatched")
                                                <= Times(c, "approval-granted")
    <3>1. Spent(c) /\ log[c] \in Seq(Entries)
      BY DEF Once, Story, Inv, Typed
    <3>2. \A k : Times(c, k) \in Nat
      BY <3>1, TimesOfLog, TimesIsHowOften
    <3>3. Cardinality(In("dispatch", c)) \in Nat /\ Cardinality(In("reject", c)) \in Nat
      BY <3>1, FS_CardinalityType DEF Spent
    <3>. QED BY <3>1, <3>2, <3>3 DEF Spent
  <2>6. PendingIsUndecided
    BY DEF PendingIsUndecided, Once, Story, Open, Fresh, Inv, Typed
  <2>. QED BY <2>4, <2>5, <2>6 DEF DecidedOnce, EachDecisionActsOnce, ExpiresOnce, Asked
<1>. QED BY InitInv, InvStep, OnceInit, OnceStep, <1>1, PTL DEF Spec

=============================================================================
