---------------------------- MODULE Outbox_proofs ----------------------------
(***************************************************************************)
(* Safety of the Outbox for any number of events, workers, API dispatches  *)
(* and retries, with failures.                                             *)
(***************************************************************************)
EXTENDS Outbox, FiniteSetTheorems, TLAPS

-----------------------------------------------------------------------------
(* Sessions *)

\* A session works through its events in the order of their ids: those it has
\* marked come before the one it is marking and before all that are left.
Ordered(x) ==
  /\ x.step \in {"idle", "sleeping"} => \A e \in Events : x.marks[e] = NoMark
  /\ x.step = "marking" =>
       /\ x.current \in Events /\ x.target \in Mark
       /\ \A f \in x.batch : x.current <= f
       /\ \A e \in Events : x.marks[e] # NoMark => e < x.current
  /\ \A e \in Events, f \in x.batch : x.marks[e] # NoMark => e < f

SessionsOrdered == \A s \in Sessions : Ordered(session[s])

\* A session holds the rows whose marks it has flushed.
LocksMarked ==
  \A s \in Sessions, e \in Events : lock[e] = s => session[s].marks[e] # NoMark

Inv == TypeOK /\ SessionsOrdered /\ LocksMarked

LEMMA IdleType == Idle \in SessionState /\ Ordered(Idle)
BY OutboxAssumption DEF Idle, SessionState, NotLoaded, Loaded, RowStatus, Mark, NoMark, Ordered

LEMMA LoadType ==
  ASSUME TypeOK, NEW batch PROVE Load(batch) \in [Events -> Loaded]
<1>1. NotLoaded \in Loaded
  BY OutboxAssumption DEF NotLoaded, Loaded, RowStatus
<1>. QED BY <1>1 DEF TypeOK, Load, Loaded, Row

\* What rewriting the memory of one session means for all of them.
LEMMA UpdateKeeps ==
  ASSUME Inv, NEW s \in Sessions, NEW new \in SessionState, Ordered(new), Update(s, new)
  PROVE  /\ session' \in [Sessions -> SessionState]
         /\ SessionsOrdered'
         /\ session'[s] = new
         /\ \A r \in Sessions \ {s} : session'[r] = session[r]
BY DEF Inv, TypeOK, SessionsOrdered, Update

LEMMA InitInv == Init => Inv
<1>. SUFFICES ASSUME Init PROVE Inv
  OBVIOUS
<1>1. NoRow \in Row
  BY OutboxAssumption DEF NoRow, Row, RowStatus
<1>2. TypeOK
  BY <1>1, IdleType DEF Init, TypeOK
<1>3. SessionsOrdered
  BY IdleType DEF Init, SessionsOrdered
<1>4. LocksMarked
  BY OutboxAssumption DEF Init, LocksMarked
<1>. QED BY <1>2, <1>3, <1>4 DEF Inv

-----------------------------------------------------------------------------
(* One lemma per step *)

LEMMA EnqueueInv ==
  ASSUME Inv, NEW e \in Events, Enqueue(e) PROVE Inv'
<1>1. row' \in [Events -> Row]
  BY DEF Enqueue, Inv, TypeOK, Row, RowStatus
<1>. QED BY <1>1 DEF Enqueue, Inv, TypeOK, SessionsOrdered, LocksMarked

LEMMA LoadReadyInv ==
  ASSUME Inv, NEW d \in Dispatchers, LoadReady(d) PROVE Inv'
<1>. DEFINE first == {e \in Ready : Cardinality({f \in Ready : f < e}) < Limit}
            new == [Idle EXCEPT !.step = "working", !.batch = first, !.read = Load(first)]
<1>1. d \in Sessions /\ Update(d, new)
  BY DEF LoadReady, Sessions
<1>2. first \subseteq Events
  BY DEF Ready
<1>3. Load(first) \in [Events -> Loaded]
  BY LoadType DEF Inv
<1>. HIDE DEF first
<1>4. new \in SessionState /\ Ordered(new)
  BY <1>2, <1>3, IdleType DEF SessionState, Ordered, Idle
<1>5. \A e \in Events : lock[e] # d
  BY <1>1 DEF LoadReady, At, Inv, SessionsOrdered, Ordered, LocksMarked
<1>. QED BY <1>1, <1>4, <1>5, UpdateKeeps DEF LoadReady, Inv, TypeOK, LocksMarked

\* What the bus did is only written down.
LEMMA DeliverType ==
  ASSUME TypeOK, NEW e \in Events, NEW o, Deliver(e, o)
  PROVE  arrived' \subseteq Events /\ dropped' \subseteq Events /\ copies' \in [Events -> Nat]
BY DEF Deliver, TypeOK

LEMMA PublishInv ==
  ASSUME Inv, NEW d \in Dispatchers, Publish(d) PROVE Inv'
<1>1. PICK e \in session[d].batch :
        /\ \A f \in session[d].batch : e <= f
        /\ \E o \in Outcomes[e] :
             Deliver(e, o) /\ ToMark(d, e, IF o.reply THEN "PUBLISHED" ELSE "FAILED")
  BY DEF Publish
<1>2. PICK o \in Outcomes[e] :
        Deliver(e, o) /\ ToMark(d, e, IF o.reply THEN "PUBLISHED" ELSE "FAILED")
  BY <1>1
<1>. DEFINE mark == IF o.reply THEN "PUBLISHED" ELSE "FAILED"
            new == [session[d] EXCEPT !.step = "marking", !.current = e, !.target = mark]
<1>3. d \in Sessions /\ session[d] \in SessionState /\ Ordered(session[d])
  BY DEF Sessions, Inv, TypeOK, SessionsOrdered
<1>4. e \in Events /\ mark \in Mark
  BY <1>3 DEF SessionState, Mark
<1>. HIDE DEF mark
<1>5. new \in SessionState
  BY <1>3, <1>4 DEF SessionState
<1>6. Ordered(new)
  BY <1>1, <1>3, <1>4 DEF SessionState, Ordered
<1>7. Update(d, new)
  BY <1>2 DEF ToMark, mark
<1>8. new.marks = session[d].marks
  BY <1>3 DEF SessionState
<1>9. arrived' \subseteq Events /\ dropped' \subseteq Events /\ copies' \in [Events -> Nat]
  BY <1>2, <1>4, DeliverType DEF Inv
<1>. HIDE DEF new
<1>. QED BY <1>3, <1>5, <1>6, <1>7, <1>8, <1>9, UpdateKeeps DEF Publish, Inv, TypeOK, LocksMarked

LEMMA FlushMarkInv ==
  ASSUME Inv, NEW s \in Sessions, FlushMark(s) PROVE Inv'
<1>. DEFINE e == session[s].current
            marks == [session[s].marks EXCEPT ![e] = session[s].target]
            new == [session[s] EXCEPT
                      !.step = "working", !.batch = @ \ {e}, !.current = NoEvent,
                      !.target = NoMark, !.marks = marks]
<1>1. session[s] \in SessionState /\ Ordered(session[s]) /\ session[s].step = "marking"
  BY DEF Inv, TypeOK, SessionsOrdered, FlushMark, At
<1>2. e \in Events /\ session[s].target \in Mark
  BY <1>1 DEF Ordered
<1>3. marks \in [Events -> Mark \cup {NoMark}]
  BY <1>1, <1>2 DEF SessionState
<1>4. \A f \in Events : marks[f] # NoMark => f = e \/ (session[s].marks[f] # NoMark /\ f < e)
  BY <1>1, <1>2 DEF Ordered, SessionState
<1>5. marks[e] # NoMark
  BY <1>1, <1>2 DEF SessionState, Mark, NoMark
<1>6. \A f \in Events \ {e} : marks[f] = session[s].marks[f]
  BY <1>1, <1>2 DEF SessionState
<1>. HIDE DEF marks
<1>7. new \in SessionState
  BY <1>1, <1>3 DEF SessionState
<1>8. Ordered(new)
  <2>1. \A g \in Events, f \in session[s].batch \ {e} : marks[g] # NoMark => g < f
    <3>. SUFFICES ASSUME NEW g \in Events, NEW f \in session[s].batch, f # e, marks[g] # NoMark
                  PROVE  g < f
      OBVIOUS
    <3>1. f \in Events /\ e <= f /\ f \in Nat /\ e \in Nat
      BY <1>1, <1>2, OutboxAssumption DEF Ordered, SessionState
    <3>2. CASE g = e
      BY <3>1, <3>2
    <3>3. CASE session[s].marks[g] # NoMark
      BY <1>1, <3>3 DEF Ordered
    <3>. QED BY <1>4, <3>2, <3>3
  <2>2. new.step = "working" /\ new.batch = session[s].batch \ {e} /\ new.marks = marks
    BY <1>1 DEF SessionState
  <2>. HIDE DEF new
  <2>. QED BY <2>1, <2>2 DEF Ordered
<1>9. Update(s, new) /\ lock' = [lock EXCEPT ![e] = s]
  BY <1>1 DEF FlushMark, marks
<1>10. new.marks = marks
  BY <1>1 DEF SessionState
<1>. HIDE DEF new, e
<1>11. lock' \in [Events -> Sessions \cup {NoSession}]
  BY <1>2, <1>9 DEF Inv, TypeOK
<1>12. session' \in [Sessions -> SessionState] /\ SessionsOrdered'
  BY <1>7, <1>8, <1>9, UpdateKeeps
<1>13. LocksMarked'
  <2>1. session'[s].marks = marks /\ \A r \in Sessions \ {s} : session'[r] = session[r]
    BY <1>7, <1>8, <1>9, <1>10, UpdateKeeps
  <2>. QED BY <1>2, <1>5, <1>6, <1>9, <2>1 DEF Inv, TypeOK, LocksMarked
<1>. QED BY <1>11, <1>12, <1>13 DEF FlushMark, Inv, TypeOK

\* The end of a transaction leaves its session without marks and without rows.
LEMMA EndKeeps ==
  ASSUME Inv, NEW s \in Sessions, NEW step \in {"idle", "sleeping"}, Unlock(s),
         Update(s, [Idle EXCEPT !.step = step])
  PROVE  /\ lock' \in [Events -> Sessions \cup {NoSession}]
         /\ session' \in [Sessions -> SessionState]
         /\ SessionsOrdered' /\ LocksMarked'
<1>. DEFINE new == [Idle EXCEPT !.step = step]
<1>1. new \in SessionState /\ Ordered(new)
  BY IdleType DEF SessionState, Ordered, Idle
<1>. HIDE DEF new
<1>2. /\ session' \in [Sessions -> SessionState] /\ SessionsOrdered'
      /\ \A r \in Sessions \ {s} : session'[r] = session[r]
  BY <1>1, UpdateKeeps DEF new
<1>3. lock' \in [Events -> Sessions \cup {NoSession}]
  BY DEF Unlock, Inv, TypeOK
<1>4. LocksMarked'
  BY <1>2, OutboxAssumption DEF Unlock, Inv, TypeOK, LocksMarked
<1>. QED BY <1>2, <1>3, <1>4

LEMMA WrittenType ==
  ASSUME NEW r \in Row, NEW old \in Loaded, NEW mark \in Mark \cup {NoMark}
  PROVE  Written(r, old, mark) \in Row
<1>1. NextBackoff(old.backoff) \in 0..MaxDelay
  BY OutboxAssumption DEF NextBackoff, Loaded
<1>2. old.status \in RowStatus /\ Mark \subseteq RowStatus
  BY DEF Loaded, Mark, RowStatus
<1>3. mark \in {NoMark, "PUBLISHED", "PENDING", "FAILED"}
  BY DEF Mark
<1>. DEFINE status == IF mark = old.status THEN r.status ELSE mark
            backoff == NextBackoff(old.backoff)
<1>4. mark # NoMark => status \in RowStatus
  BY <1>2 DEF Row, NoMark
<1>5. 0 \in 0..MaxDelay
  BY OutboxAssumption
<1>. HIDE DEF backoff
<1>6. CASE mark = NoMark
  BY <1>6 DEF Written, NoMark
<1>7. CASE mark = "PUBLISHED"
  BY <1>4, <1>7 DEF Written, NoMark, Row
<1>8. CASE mark = "PENDING"
  BY <1>4, <1>5, <1>8 DEF Written, NoMark, Row
<1>9. CASE mark = "FAILED"
  BY <1>1, <1>4, <1>9 DEF Written, NoMark, Row
<1>. QED BY <1>3, <1>6, <1>7, <1>8, <1>9

LEMMA CommitInv ==
  ASSUME Inv, NEW s \in Sessions, Commit(s) PROVE Inv'
<1>1. session[s].read \in [Events -> Loaded] /\ session[s].marks \in [Events -> Mark \cup {NoMark}]
  BY DEF Inv, TypeOK, SessionState
<1>2. row' \in [Events -> Row]
  BY <1>1, WrittenType DEF Commit, Inv, TypeOK
<1>3. copies' \in [Events -> Nat]
  BY DEF Commit, Inv, TypeOK
<1>4. /\ lock' \in [Events -> Sessions \cup {NoSession}]
      /\ session' \in [Sessions -> SessionState]
      /\ SessionsOrdered' /\ LocksMarked'
  BY EndKeeps DEF Commit
<1>. QED BY <1>2, <1>3, <1>4 DEF Commit, Inv, TypeOK

LEMMA PollInv ==
  ASSUME Inv, NEW w \in Workers, Poll(w) PROVE Inv'
<1>1. row' \in [Events -> Row]
  BY OutboxAssumption DEF Poll, Inv, TypeOK, Row
<1>2. w \in Sessions /\ \A e \in Events : lock[e] # w
  BY DEF Sessions, Dispatchers, Poll, At, Inv, SessionsOrdered, Ordered, LocksMarked
<1>. QED BY <1>1, <1>2, IdleType, UpdateKeeps DEF Poll, Inv, TypeOK, LocksMarked

LEMMA LoadForRetryInv ==
  ASSUME Inv, NEW a \in Admins, LoadForRetry(a) PROVE Inv'
<1>1. PICK e \in Events :
        Update(a, [Idle EXCEPT !.step = "marking", !.current = e,
                               !.target = "PENDING", !.read = Load({e})])
  BY DEF LoadForRetry
<1>. DEFINE new == [Idle EXCEPT !.step = "marking", !.current = e,
                                !.target = "PENDING", !.read = Load({e})]
<1>2. Load({e}) \in [Events -> Loaded]
  BY LoadType DEF Inv
<1>3. new \in SessionState /\ Ordered(new)
  BY <1>2, IdleType DEF SessionState, Ordered, Idle, Mark
<1>. HIDE DEF new
<1>4. a \in Sessions /\ Update(a, new) /\ \A f \in Events : lock[f] # a
  BY <1>1 DEF new, Sessions, LoadForRetry, At, Inv, SessionsOrdered, Ordered, LocksMarked
<1>. QED BY <1>3, <1>4, UpdateKeeps DEF LoadForRetry, Inv, TypeOK, LocksMarked

LEMMA AbortInv ==
  ASSUME Inv, NEW s \in Sessions, Abort(s) PROVE Inv'
<1>1. Update(s, [Idle EXCEPT !.step = "idle"]) /\ Unlock(s)
  BY DEF Abort, Update, Idle
<1>2. /\ lock' \in [Events -> Sessions \cup {NoSession}]
      /\ session' \in [Sessions -> SessionState]
      /\ SessionsOrdered' /\ LocksMarked'
  BY <1>1, EndKeeps
<1>3. copies' \in [Events -> Nat]
  BY DEF Abort, Inv, TypeOK
<1>. QED BY <1>2, <1>3 DEF Abort, Inv, TypeOK

LEMMA NextInv == Inv /\ [Next]_vars => Inv'
<1>. SUFFICES ASSUME Inv, [Next]_vars PROVE Inv'
  OBVIOUS
<1>1. CASE UNCHANGED vars
  BY <1>1 DEF vars, Inv, TypeOK, SessionsOrdered, LocksMarked
<1>2. CASE Next
  BY <1>2, EnqueueInv, LoadReadyInv, PublishInv, FlushMarkInv, CommitInv, PollInv,
     LoadForRetryInv, AbortInv DEF Next
<1>. QED BY <1>1, <1>2

LEMMA InvHolds == Spec => []Inv
BY InitInv, NextInv, PTL DEF Spec

-----------------------------------------------------------------------------
(* Published means taken by the bus *)

\* What the bus has delivered, or confirmed and dropped.
Taken == arrived \cup dropped

\* Whatever a session has marked, or is about to mark, as published the bus has
\* taken.
Delivers(x, taken) ==
  \A e \in Events :
    \/ x.marks[e] = "PUBLISHED"
    \/ x.step = "marking" /\ x.current = e /\ x.target = "PUBLISHED"
    => e \in taken

Backed == PublishedArrived /\ \A s \in Sessions : Delivers(session[s], Taken)

LEMMA BackedInit == Init => Backed
BY DEF Init, Backed, PublishedArrived, Delivers, NoRow, Idle, NoMark, Taken

\* One session gets new memory, the others keep theirs, nothing is undelivered.
LEMMA BackedUpdate ==
  ASSUME TypeOK, Backed, NEW s \in Sessions, NEW new, Update(s, new),
         Taken \subseteq Taken', Delivers(new, Taken')
  PROVE  \A r \in Sessions : Delivers(session[r], Taken)'
<1>1. session'[s] = new /\ \A r \in Sessions \ {s} : session'[r] = session[r]
  BY DEF TypeOK, Update
<1>. QED BY <1>1 DEF Backed, Delivers

LEMMA BackedNext ==
  ASSUME Inv, Backed, [Next]_vars PROVE Backed'
<1>1. ASSUME NEW e \in Events, Enqueue(e) PROVE Backed'
  BY <1>1 DEF Enqueue, Inv, TypeOK, Row, Backed, PublishedArrived, Delivers, Taken
<1>2. ASSUME NEW d \in Dispatchers, LoadReady(d) PROVE Backed'
  <2>. DEFINE new == [Idle EXCEPT !.step = "working",
                        !.batch = {e \in Ready : Cardinality({f \in Ready : f < e}) < Limit},
                        !.read = Load({e \in Ready : Cardinality({f \in Ready : f < e}) < Limit})]
  <2>1. Delivers(new, Taken')
    BY DEF Delivers, Idle, NoMark
  <2>2. d \in Sessions /\ Update(d, new)
    BY <1>2 DEF LoadReady, Sessions, Taken
  <2>. HIDE DEF new
  <2>3. \A r \in Sessions : Delivers(session[r], Taken)'
    BY <1>2, <2>1, <2>2, BackedUpdate DEF LoadReady, Inv, Taken
  <2>. QED BY <1>2, <2>3 DEF LoadReady, Backed, PublishedArrived, Taken
<1>3. ASSUME NEW d \in Dispatchers, Publish(d) PROVE Backed'
  <2>1. PICK e \in session[d].batch : \E o \in Outcomes[e] :
          Deliver(e, o) /\ ToMark(d, e, IF o.reply THEN "PUBLISHED" ELSE "FAILED")
    BY <1>3 DEF Publish, Taken
  <2>2. PICK o \in Outcomes[e] :
          Deliver(e, o) /\ ToMark(d, e, IF o.reply THEN "PUBLISHED" ELSE "FAILED")
    BY <2>1
  <2>. DEFINE mark == IF o.reply THEN "PUBLISHED" ELSE "FAILED"
              new == [session[d] EXCEPT !.step = "marking", !.current = e, !.target = mark]
  <2>3. d \in Sessions /\ session[d] \in SessionState /\ e \in Events
    BY DEF Sessions, Inv, TypeOK, SessionState
  <2>4. Taken \subseteq Taken' /\ (mark = "PUBLISHED" => e \in Taken')
    BY <2>2, <2>3 DEF Deliver, Taken
  <2>. HIDE DEF mark
  <2>5. new.marks = session[d].marks /\ new.current = e /\ new.target = mark
    BY <2>3 DEF SessionState
  <2>6. Update(d, new)
    BY <2>2 DEF ToMark, mark
  <2>. HIDE DEF new
  <2>7. Delivers(new, Taken')
    BY <2>3, <2>4, <2>5 DEF Backed, Delivers
  <2>8. \A r \in Sessions : Delivers(session[r], Taken)'
    BY <2>3, <2>4, <2>6, <2>7, BackedUpdate DEF Inv
  <2>. QED BY <1>3, <2>4, <2>8 DEF Publish, Backed, PublishedArrived, Taken
<1>4. ASSUME NEW s \in Sessions, FlushMark(s) PROVE Backed'
  <2>. DEFINE e == session[s].current
              marks == [session[s].marks EXCEPT ![e] = session[s].target]
              new == [session[s] EXCEPT
                        !.step = "working", !.batch = @ \ {e}, !.current = NoEvent,
                        !.target = NoMark, !.marks = marks]
  <2>1. session[s] \in SessionState /\ e \in Events /\ session[s].step = "marking"
    BY <1>4 DEF Inv, TypeOK, SessionsOrdered, Ordered, FlushMark, At, Taken
  <2>2. \A f \in Events : marks[f] = "PUBLISHED" => f \in Taken
    BY <2>1 DEF SessionState, Backed, Delivers
  <2>3. Update(s, new)
    BY <1>4 DEF FlushMark, Taken
  <2>. HIDE DEF marks
  <2>4. new.marks = marks /\ new.step = "working"
    BY <2>1 DEF SessionState
  <2>. HIDE DEF new
  <2>5. Delivers(new, Taken')
    BY <1>4, <2>2, <2>4 DEF Delivers, FlushMark, Taken
  <2>6. \A r \in Sessions : Delivers(session[r], Taken)'
    BY <1>4, <2>3, <2>5, BackedUpdate DEF FlushMark, Inv, Taken
  <2>. QED BY <1>4, <2>6 DEF FlushMark, Backed, PublishedArrived, Taken
<1>5. ASSUME NEW s \in Sessions, Commit(s) PROVE Backed'
  <2>. DEFINE new == [Idle EXCEPT !.step = IF s \in Workers THEN "sleeping" ELSE "idle"]
  <2>1. Delivers(new, Taken')
    BY DEF Delivers, Idle, NoMark
  <2>2. Update(s, new) /\ Taken' = Taken
    BY <1>5 DEF Commit, Taken
  <2>. HIDE DEF new
  <2>3. \A r \in Sessions : Delivers(session[r], Taken)'
    BY <2>1, <2>2, BackedUpdate DEF Inv
  <2>4. ASSUME NEW e \in Events, row'[e].status = "PUBLISHED" PROVE e \in Taken
    <3>. DEFINE mark == session[s].marks[e]
                old == session[s].read[e]
    <3>1. row'[e] = Written(row[e], old, mark) /\ row[e] \in Row
      BY <1>5 DEF Commit, Inv, TypeOK, Taken
    <3>2. mark \in Mark \cup {NoMark}
      BY DEF Inv, TypeOK, SessionState
    <3>. HIDE DEF mark, old
    <3>3. row[e].status = "PUBLISHED" \/ mark = "PUBLISHED"
      <4>1. CASE mark = NoMark
        BY <2>4, <3>1, <4>1 DEF Written, NoMark
      <4>2. CASE mark = "PENDING"
        BY <2>4, <3>1, <4>2 DEF Written, NoMark, Row
      <4>3. CASE mark = "FAILED"
        BY <2>4, <3>1, <4>3 DEF Written, NoMark, Row
      <4>. QED BY <3>2, <4>1, <4>2, <4>3 DEF Mark
    <3>. QED BY <3>3 DEF mark, Backed, PublishedArrived, Delivers, Taken
  <2>. QED BY <2>2, <2>3, <2>4 DEF Backed, PublishedArrived, Taken
<1>6. ASSUME NEW w \in Workers, Poll(w) PROVE Backed'
  <2>1. w \in Sessions /\ Delivers(Idle, Taken') /\ Update(w, Idle) /\ Taken' = Taken
    BY <1>6 DEF Sessions, Dispatchers, Delivers, Idle, NoMark, Poll, Taken
  <2>2. \A r \in Sessions : Delivers(session[r], Taken)'
    BY <2>1, BackedUpdate DEF Inv
  <2>. QED BY <1>6, <2>2 DEF Poll, Inv, TypeOK, Row, Backed, PublishedArrived, Taken
<1>7. ASSUME NEW a \in Admins, LoadForRetry(a) PROVE Backed'
  <2>1. PICK e \in Events :
          Update(a, [Idle EXCEPT !.step = "marking", !.current = e,
                                 !.target = "PENDING", !.read = Load({e})])
    BY <1>7 DEF LoadForRetry, Taken
  <2>. DEFINE new == [Idle EXCEPT !.step = "marking", !.current = e,
                                  !.target = "PENDING", !.read = Load({e})]
  <2>2. Delivers(new, Taken')
    BY DEF Delivers, Idle, NoMark
  <2>. HIDE DEF new
  <2>3. \A r \in Sessions : Delivers(session[r], Taken)'
    BY <1>7, <2>1, <2>2, BackedUpdate DEF new, LoadForRetry, Sessions, Inv, Taken
  <2>. QED BY <1>7, <2>3 DEF LoadForRetry, Backed, PublishedArrived, Taken
<1>8. ASSUME NEW s \in Sessions, Abort(s) PROVE Backed'
  <2>1. Delivers(Idle, Taken') /\ Update(s, Idle) /\ Taken' = Taken
    BY <1>8 DEF Delivers, Idle, NoMark, Abort, Taken
  <2>2. \A r \in Sessions : Delivers(session[r], Taken)'
    BY <2>1, BackedUpdate DEF Inv
  <2>. QED BY <1>8, <2>2 DEF Abort, Backed, PublishedArrived, Taken
<1>9. CASE UNCHANGED vars
  BY <1>9 DEF vars, Backed, PublishedArrived, Delivers, Taken
<1>. QED BY <1>1, <1>2, <1>3, <1>4, <1>5, <1>6, <1>7, <1>8, <1>9 DEF Next

-----------------------------------------------------------------------------
(* Copies *)

\* Session x got event e through to the bus, and its mark is not committed.
Sent(x, e) == x.marks[e] = "PUBLISHED" \/ (x.current = e /\ x.target = "PUBLISHED")

\* A session processes events it did not read as published, and looks at one
\* only while it marks it.
Unread(x) ==
  /\ x.step # "marking" => x.current = NoEvent
  /\ \A e \in Events : e \in x.batch \/ Sent(x, e) => x.read[e].status # "PUBLISHED"

SessionsUnread == \A s \in Sessions : Unread(session[s])

\* The dispatchers that have sent e and not committed it, and those that will send it.
Senders(e) == {d \in Dispatchers : Sent(session[d], e)}
Waiters(e) == {d \in Dispatchers : e \in session[d].batch /\ session[d].current # e}

\* Before an event is marked in the table there is a sender for every copy; after
\* that only the dispatchers that read it earlier still send it.
CopyKnown(e) ==
  /\ row[e].status # "PUBLISHED" => copies[e] <= Cardinality(Senders(e))
  /\ row[e].status = "PUBLISHED" => copies[e] + Cardinality(Waiters(e)) <= Cardinality(Dispatchers)

CopiesKnown == \A e \in Events : CopyKnown(e)

LEMMA CopiesFinite ==
  /\ IsFiniteSet(Dispatchers) /\ Cardinality(Dispatchers) \in Nat
  /\ \A S \in SUBSET Dispatchers :
       IsFiniteSet(S) /\ Cardinality(S) \in Nat /\ Cardinality(S) <= Cardinality(Dispatchers)
  /\ \A S, T \in SUBSET Dispatchers : S \subseteq T => Cardinality(S) <= Cardinality(T)
<1>1. IsFiniteSet(Dispatchers)
  BY OutboxAssumption, FS_Union DEF Dispatchers
<1>. QED BY <1>1, FS_Subset, FS_CardinalityType

\* Nobody sends an event again that is among its marks.
LEMMA SendersDoNotWait ==
  ASSUME Inv, NEW e \in Events
  PROVE  Cardinality(Senders(e)) + Cardinality(Waiters(e)) <= Cardinality(Dispatchers)
<1>1. Senders(e) \in SUBSET Dispatchers /\ Waiters(e) \in SUBSET Dispatchers
  BY DEF Senders, Waiters
<1>2. ASSUME NEW d \in Senders(e), d \in Waiters(e) PROVE FALSE
  <2>1. d \in Sessions /\ Ordered(session[d]) /\ e \in session[d].batch /\ session[d].marks[e] # NoMark
    BY <1>2 DEF Senders, Waiters, Sessions, Sent, Inv, SessionsOrdered, NoMark
  <2>2. \A n \in Nat : ~(n < n)
    OBVIOUS
  <2>3. e < e
    BY <2>1 DEF Ordered
  <2>. QED BY <2>2, <2>3, OutboxAssumption
<1>3. Senders(e) \cap Waiters(e) = {}
  BY <1>2
<1>4. IsFiniteSet(Senders(e)) /\ IsFiniteSet(Waiters(e))
  BY <1>1, CopiesFinite
<1>5. Cardinality(Senders(e) \cup Waiters(e)) = Cardinality(Senders(e)) + Cardinality(Waiters(e)) - 0
  BY <1>3, <1>4, FS_Union, FS_EmptySet
<1>6. Cardinality(Senders(e) \cup Waiters(e)) <= Cardinality(Dispatchers)
  BY <1>1, CopiesFinite
<1>7. Cardinality(Senders(e)) \in Nat /\ Cardinality(Waiters(e)) \in Nat /\ Cardinality(Dispatchers) \in Nat
  BY <1>1, CopiesFinite
<1>. QED BY <1>5, <1>6, <1>7

LEMMA CopiesInit == Init => SessionsUnread /\ CopiesKnown
<1>. SUFFICES ASSUME Init PROVE SessionsUnread /\ CopiesKnown
  OBVIOUS
<1>1. SessionsUnread
  BY OutboxAssumption DEF Init, SessionsUnread, Unread, Sent, Idle, NoMark
<1>2. ASSUME NEW e \in Events PROVE CopyKnown(e)
  <2>1. row[e].status = "ABSENT" /\ copies[e] = 0
    BY DEF Init, NoRow
  <2>2. Cardinality(Senders(e)) \in Nat
    BY CopiesFinite DEF Senders
  <2>. QED BY <2>1, <2>2 DEF CopyKnown
<1>. QED BY <1>1, <1>2 DEF CopiesKnown

LEMMA UnreadIdle == ASSUME NEW step PROVE Unread([Idle EXCEPT !.step = step]) \/ step = "marking"
BY OutboxAssumption DEF Unread, Sent, Idle, NoMark

LEMMA UnreadNext ==
  ASSUME Inv, SessionsUnread, [Next]_vars PROVE SessionsUnread'
<1>1. ASSUME NEW s \in Sessions, NEW new, Update(s, new), Unread(new) PROVE SessionsUnread'
  BY <1>1 DEF Update, SessionsUnread, Inv, TypeOK
<1>2. ASSUME NEW d \in Dispatchers, LoadReady(d) PROVE SessionsUnread'
  <2>. DEFINE first == {e \in Ready : Cardinality({f \in Ready : f < e}) < Limit}
              new == [Idle EXCEPT !.step = "working", !.batch = first, !.read = Load(first)]
  <2>1. first \subseteq Ready
    OBVIOUS
  <2>2. d \in Sessions /\ Update(d, new)
    BY <1>2 DEF LoadReady, Sessions
  <2>. HIDE DEF first
  <2>3. Unread(new)
    BY <2>1, OutboxAssumption DEF Unread, Sent, Idle, NoMark, Load, Ready
  <2>. QED BY <1>1, <2>2, <2>3
<1>3. ASSUME NEW d \in Dispatchers, Publish(d) PROVE SessionsUnread'
  <2>1. PICK e \in session[d].batch, mark \in Mark : ToMark(d, e, mark)
    BY <1>3 DEF Publish, Mark
  <2>2. d \in Sessions /\ session[d] \in SessionState /\ Unread(session[d]) /\ session[d].step = "working"
    BY <1>3 DEF Publish, At, Sessions, Inv, TypeOK, SessionsUnread
  <2>. DEFINE new == [session[d] EXCEPT !.step = "marking", !.current = e, !.target = mark]
  <2>3. /\ new.step = "marking" /\ new.batch = session[d].batch /\ new.read = session[d].read
        /\ new.marks = session[d].marks /\ new.current = e
    BY <2>2 DEF SessionState
  <2>4. Update(d, new)
    BY <2>1 DEF ToMark
  <2>. HIDE DEF new
  <2>5. Unread(new)
    BY <2>1, <2>2, <2>3 DEF Unread, Sent
  <2>. QED BY <1>1, <2>2, <2>4, <2>5
<1>4. ASSUME NEW s \in Sessions, FlushMark(s) PROVE SessionsUnread'
  <2>. DEFINE e == session[s].current
              marks == [session[s].marks EXCEPT ![e] = session[s].target]
              new == [session[s] EXCEPT
                        !.step = "working", !.batch = @ \ {e}, !.current = NoEvent,
                        !.target = NoMark, !.marks = marks]
  <2>1. /\ session[s] \in SessionState /\ e \in Events /\ session[s].step = "marking"
        /\ Unread(session[s])
    BY <1>4 DEF Inv, TypeOK, SessionsOrdered, Ordered, SessionsUnread, FlushMark, At
  <2>2. /\ new.step = "working" /\ new.batch = session[s].batch \ {e} /\ new.current = NoEvent
        /\ new.target = NoMark /\ new.marks = marks /\ new.read = session[s].read
    BY <2>1 DEF SessionState
  <2>3. \A f \in Events : marks[f] = "PUBLISHED" => Sent(session[s], f)
    BY <2>1 DEF Sent, SessionState
  <2>4. Update(s, new)
    BY <1>4 DEF FlushMark
  <2>. HIDE DEF new, marks, e
  <2>5. Unread(new)
    BY <2>1, <2>2, <2>3 DEF Unread, Sent, NoMark
  <2>. QED BY <1>1, <2>4, <2>5
<1>5. ASSUME NEW s \in Sessions, NEW step, step # "marking", Update(s, [Idle EXCEPT !.step = step])
      PROVE  SessionsUnread'
  BY <1>1, <1>5, UnreadIdle
<1>6. ASSUME NEW s \in Sessions, Commit(s) PROVE SessionsUnread'
  BY <1>5, <1>6 DEF Commit
<1>7. ASSUME NEW s \in Sessions, Update(s, Idle) PROVE SessionsUnread'
  <2>1. Idle = [Idle EXCEPT !.step = "idle"]
    BY DEF Idle
  <2>. QED BY <1>5, <1>7, <2>1
<1>8. ASSUME NEW a \in Admins, LoadForRetry(a) PROVE SessionsUnread'
  <2>1. PICK e \in Events :
          Update(a, [Idle EXCEPT !.step = "marking", !.current = e,
                                 !.target = "PENDING", !.read = Load({e})])
    BY <1>8 DEF LoadForRetry
  <2>2. Unread([Idle EXCEPT !.step = "marking", !.current = e, !.target = "PENDING", !.read = Load({e})])
    BY DEF Unread, Sent, Idle, NoMark
  <2>. QED BY <1>1, <2>1, <2>2 DEF Sessions
<1>9. ASSUME UNCHANGED session PROVE SessionsUnread'
  BY <1>9 DEF SessionsUnread
<1>. QED BY <1>2, <1>3, <1>4, <1>6, <1>7, <1>8, <1>9
     DEF Next, Enqueue, Poll, Abort, vars, Sessions, Dispatchers

\* A step that adds no copy, takes no sender away and lets nobody send a published
\* event keeps the account.
LEMMA CopyKept ==
  ASSUME Inv, NEW e \in Events, CopyKnown(e), NEW s \in Sessions, NEW new, Update(s, new),
         copies'[e] \in Nat, copies'[e] = 0 \/ copies'[e] <= copies[e],
         copies'[e] = 0 \/ (Sent(session[s], e) => Sent(new, e)) \/ row[e].status = "PUBLISHED",
         e \in new.batch /\ new.current # e
           => row[e].status # "PUBLISHED" \/ (e \in session[s].batch /\ session[s].current # e),
         row'[e].status = "PUBLISHED" <=> row[e].status = "PUBLISHED"
  PROVE  CopyKnown(e)'
<1>1. session'[s] = new /\ \A r \in Sessions \ {s} : session'[r] = session[r]
  BY DEF Update, Inv, TypeOK
<1>2. /\ Senders(e) \in SUBSET Dispatchers /\ Senders(e)' \in SUBSET Dispatchers
      /\ Waiters(e) \in SUBSET Dispatchers /\ Waiters(e)' \in SUBSET Dispatchers
  BY DEF Senders, Waiters
<1>3. /\ Cardinality(Senders(e)) \in Nat /\ Cardinality(Senders(e)') \in Nat
      /\ Cardinality(Waiters(e)) \in Nat /\ Cardinality(Waiters(e)') \in Nat
      /\ Cardinality(Dispatchers) \in Nat /\ copies[e] \in Nat
      /\ Cardinality(Waiters(e)') <= Cardinality(Dispatchers)
  BY <1>2, CopiesFinite DEF Inv, TypeOK
<1>4. CASE row[e].status # "PUBLISHED"
  <2>1. CASE copies'[e] = 0
    BY <1>3, <1>4, <2>1 DEF CopyKnown
  <2>2. CASE copies'[e] <= copies[e] /\ copies'[e] # 0
    <3>1. Senders(e) \subseteq Senders(e)'
      BY <1>1, <1>4, <2>2 DEF Senders, Sessions
    <3>2. Cardinality(Senders(e)) <= Cardinality(Senders(e)')
      BY <1>2, <3>1, CopiesFinite
    <3>. QED BY <1>3, <1>4, <2>2, <3>2 DEF CopyKnown
  <2>. QED BY <2>1, <2>2
<1>5. CASE row[e].status = "PUBLISHED"
  <2>1. Waiters(e)' \subseteq Waiters(e)
    BY <1>1, <1>5 DEF Waiters, Sessions
  <2>2. Cardinality(Waiters(e)') <= Cardinality(Waiters(e))
    BY <1>2, <2>1, CopiesFinite
  <2>. QED BY <1>3, <1>5, <2>2 DEF CopyKnown
<1>. QED BY <1>4, <1>5

LEMMA CopiesNext ==
  ASSUME Inv, SessionsUnread, CopiesKnown, [Next]_vars PROVE CopiesKnown'
<1>0. Dispatchers \subseteq Sessions
  BY DEF Sessions
<1>. SUFFICES ASSUME NEW e \in Events PROVE CopyKnown(e)'
  BY DEF CopiesKnown
<1>1. CopyKnown(e) /\ copies[e] \in Nat
  BY DEF CopiesKnown, Inv, TypeOK
<1>2. ASSUME UNCHANGED <<session, copies>>, row'[e].status = "PUBLISHED" <=> row[e].status = "PUBLISHED"
      PROVE  CopyKnown(e)'
  BY <1>1, <1>2 DEF CopyKnown, Senders, Waiters, Sent
<1>3. ASSUME NEW f \in Events, Enqueue(f) PROVE CopyKnown(e)'
  BY <1>2, <1>3 DEF Enqueue, Inv, TypeOK, Row
<1>4. ASSUME NEW d \in Dispatchers, LoadReady(d) PROVE CopyKnown(e)'
  <2>. DEFINE first == {x \in Ready : Cardinality({f \in Ready : f < x}) < Limit}
              new == [Idle EXCEPT !.step = "working", !.batch = first, !.read = Load(first)]
  <2>1. d \in Sessions /\ Update(d, new) /\ UNCHANGED <<row, copies>>
    BY <1>0, <1>4 DEF LoadReady
  <2>2. e \in first => row[e].status # "PUBLISHED"
    BY DEF Ready
  <2>. HIDE DEF first
  <2>3. new.batch = first
    BY DEF Idle
  <2>4. ~Sent(session[d], e)
    BY <1>0, <1>4, OutboxAssumption DEF LoadReady, At, Inv, SessionsOrdered, Ordered, SessionsUnread, Unread, Sent,
       NoMark
  <2>. HIDE DEF new
  <2>. QED BY <1>1, <2>1, <2>2, <2>3, <2>4, CopyKept
<1>5. ASSUME NEW d \in Dispatchers, Publish(d) PROVE CopyKnown(e)'
  <2>1. PICK f \in session[d].batch : \E o \in Outcomes[f] :
          Deliver(f, o) /\ ToMark(d, f, IF o.reply THEN "PUBLISHED" ELSE "FAILED")
    BY <1>5 DEF Publish
  <2>2. PICK o \in Outcomes[f] :
          Deliver(f, o) /\ ToMark(d, f, IF o.reply THEN "PUBLISHED" ELSE "FAILED")
    BY <2>1
  <2>. DEFINE mark == IF o.reply THEN "PUBLISHED" ELSE "FAILED"
              new == [session[d] EXCEPT !.step = "marking", !.current = f, !.target = mark]
  <2>3. /\ d \in Sessions /\ session[d] \in SessionState /\ session[d].step = "working"
        /\ session[d].current = NoEvent /\ f \in Events
    BY <1>0, <1>5 DEF Publish, At, Inv, TypeOK, SessionsUnread, Unread, SessionState
  <2>4. /\ new.batch = session[d].batch /\ new.marks = session[d].marks
        /\ new.current = f /\ new.target = mark
    BY <2>3 DEF SessionState
  <2>5. Update(d, new) /\ row' = row
    BY <1>5, <2>2 DEF Publish, ToMark
  <2>6. session'[d] = new /\ \A r \in Sessions \ {d} : session'[r] = session[r]
    BY <2>3, <2>5 DEF Update, Inv, TypeOK
  <2>. HIDE DEF new
  <2>7. CASE e # f
    <3>1. copies'[e] = copies[e]
      BY <2>2, <2>7 DEF Deliver, Inv, TypeOK
    <3>2. Sent(session[d], e) => Sent(new, e)
      BY <2>3, <2>4, OutboxAssumption DEF Sent
    <3>3. e \in new.batch /\ new.current # e => e \in session[d].batch /\ session[d].current # e
      BY <2>3, <2>4, OutboxAssumption
    <3>. QED BY <1>1, <2>3, <2>5, <3>1, <3>2, <3>3, CopyKept
  <2>8. CASE e = f
    <3>1. d \in Waiters(e) /\ e \in session[d].batch
      BY <2>1, <2>3, <2>8, OutboxAssumption DEF Waiters
    <3>2. Waiters(e)' = Waiters(e) \ {d}
      BY <1>0, <2>4, <2>6, <2>8 DEF Waiters
    <3>3. /\ Senders(e) \in SUBSET Dispatchers /\ Senders(e)' \in SUBSET Dispatchers
          /\ Waiters(e) \in SUBSET Dispatchers
      BY DEF Senders, Waiters
    <3>4. Cardinality(Waiters(e)') = Cardinality(Waiters(e)) - 1
      BY <3>1, <3>2, <3>3, CopiesFinite, FS_RemoveElement
    <3>5. ~Sent(session[d], e)
      <4>1. session[d].marks[e] = NoMark
        <5>1. \A n \in Nat : ~(n < n)
          OBVIOUS
        <5>2. Ordered(session[d])
          BY <2>3 DEF Inv, SessionsOrdered
        <5>. QED BY <3>1, <5>1, <5>2, OutboxAssumption DEF Ordered
      <4>. QED BY <2>3, <4>1, OutboxAssumption DEF Sent, NoMark
    <3>6. Senders(e) \subseteq Senders(e)' /\ d \notin Senders(e)
      BY <1>0, <2>6, <3>5 DEF Senders
    <3>7. /\ Cardinality(Senders(e)) \in Nat /\ Cardinality(Senders(e)') \in Nat
          /\ Cardinality(Waiters(e)) \in Nat /\ Cardinality(Dispatchers) \in Nat
          /\ Cardinality(Senders(e)) <= Cardinality(Senders(e)')
      BY <3>3, <3>6, CopiesFinite
    <3>8. CASE copies'[e] = copies[e]
      BY <1>1, <2>5, <3>4, <3>7, <3>8 DEF CopyKnown
    <3>9. CASE copies'[e] = copies[e] + 1 /\ mark = "PUBLISHED"
      <4>1. d \in Senders(e)'
        BY <2>4, <2>6, <2>8, <3>9 DEF Senders, Sent
      <4>2. Senders(e) \cup {d} \subseteq Senders(e)' /\ Senders(e) \cup {d} \in SUBSET Dispatchers
        BY <3>3, <3>6, <4>1
      <4>3. IsFiniteSet(Senders(e))
        BY <3>3, CopiesFinite
      <4>4. Cardinality(Senders(e) \cup {d}) = Cardinality(Senders(e)) + 1
        BY <3>6, <4>3, FS_AddElement
      <4>5. Cardinality(Senders(e) \cup {d}) <= Cardinality(Senders(e)')
        BY <3>3, <4>2, CopiesFinite
      <4>. QED BY <1>1, <2>5, <3>4, <3>7, <3>9, <4>4, <4>5 DEF CopyKnown
    <3>10. copies'[e] = copies[e] \/ (copies'[e] = copies[e] + 1 /\ mark = "PUBLISHED")
      BY <2>2, <2>3, <2>8 DEF Deliver, Inv, TypeOK
    <3>. QED BY <3>8, <3>9, <3>10
  <2>. QED BY <2>7, <2>8
<1>6. ASSUME NEW s \in Sessions, FlushMark(s) PROVE CopyKnown(e)'
  <2>. DEFINE c == session[s].current
              marks == [session[s].marks EXCEPT ![c] = session[s].target]
              new == [session[s] EXCEPT
                        !.step = "working", !.batch = @ \ {c}, !.current = NoEvent,
                        !.target = NoMark, !.marks = marks]
  <2>1. session[s] \in SessionState /\ c \in Events /\ Ordered(session[s]) /\ session[s].step = "marking"
    BY <1>6 DEF Inv, TypeOK, SessionsOrdered, Ordered, FlushMark, At
  <2>2. new.batch = session[s].batch \ {c} /\ new.marks = marks
    BY <2>1 DEF SessionState
  <2>3. Update(s, new) /\ UNCHANGED <<row, copies>>
    BY <1>6 DEF FlushMark
  <2>4. session[s].marks[c] = NoMark
    <3>1. \A n \in Nat : ~(n < n)
      OBVIOUS
    <3>2. c \in Nat
      BY <2>1, OutboxAssumption
    <3>3. ~(c < c)
      BY <3>1, <3>2
    <3>. QED BY <2>1, <3>3 DEF Ordered
  <2>5. Sent(session[s], e) => marks[e] = "PUBLISHED"
    BY <2>1, <2>4 DEF Sent, SessionState, NoMark
  <2>. HIDE DEF new, marks
  <2>6. Sent(session[s], e) => Sent(new, e)
    BY <2>2, <2>5 DEF Sent
  <2>7. e \in new.batch => e \in session[s].batch /\ c # e
    BY <2>2
  <2>. QED BY <1>1, <2>3, <2>6, <2>7, CopyKept
<1>7. ASSUME NEW s \in Sessions, Commit(s) PROVE CopyKnown(e)'
  <2>. DEFINE mark == session[s].marks[e]
              old == session[s].read[e]
              step == IF s \in Workers THEN "sleeping" ELSE "idle"
              new == [Idle EXCEPT !.step = step]
  <2>1. /\ row'[e] = Written(row[e], old, mark) /\ row[e] \in Row
        /\ copies'[e] = IF Reopened(e) THEN 0 ELSE copies[e]
    BY <1>7 DEF Commit, Inv, TypeOK
  <2>2. mark \in Mark \cup {NoMark} /\ session[s].current = NoEvent /\ (mark = "PUBLISHED" => old.status # "PUBLISHED")
    BY <1>7 DEF Inv, TypeOK, SessionState, Commit, At, SessionsUnread, Unread, Sent
  <2>3. Update(s, new) /\ new.batch = {}
    BY <1>7 DEF Commit, Idle
  <2>4. Sent(session[s], e) => mark = "PUBLISHED"
    BY <2>2, OutboxAssumption DEF Sent
  <2>. HIDE DEF mark, old, new
  <2>5. mark = "PUBLISHED" => row'[e].status = "PUBLISHED"
    BY <2>1, <2>2 DEF Written, NoMark, Row
  <2>6. CASE row'[e].status = "PUBLISHED" <=> row[e].status = "PUBLISHED"
    BY <1>1, <2>1, <2>3, <2>4, <2>5, <2>6, CopyKept
  <2>7. CASE row[e].status = "PUBLISHED" /\ row'[e].status # "PUBLISHED"
    <3>1. copies'[e] = 0 /\ Senders(e)' \in SUBSET Dispatchers
      BY <2>1, <2>7 DEF Reopened, Senders
    <3>2. Cardinality(Senders(e)') \in Nat
      BY <3>1, CopiesFinite
    <3>. QED BY <2>7, <3>1, <3>2 DEF CopyKnown
  <2>8. CASE row[e].status # "PUBLISHED" /\ row'[e].status = "PUBLISHED"
    <3>1. copies'[e] = copies[e]
      BY <2>1, <2>8 DEF Reopened
    <3>2. session'[s] = new /\ \A r \in Sessions \ {s} : session'[r] = session[r]
      BY <2>3 DEF Update, Inv, TypeOK
    <3>3. Waiters(e)' \subseteq Waiters(e)
      BY <1>0, <2>3, <3>2 DEF Waiters
    <3>4. /\ Senders(e) \in SUBSET Dispatchers /\ Waiters(e) \in SUBSET Dispatchers
          /\ Waiters(e)' \in SUBSET Dispatchers
      BY DEF Senders, Waiters
    <3>5. /\ Cardinality(Senders(e)) \in Nat /\ Cardinality(Dispatchers) \in Nat
          /\ Cardinality(Waiters(e)) \in Nat /\ Cardinality(Waiters(e)') \in Nat
          /\ Cardinality(Waiters(e)') <= Cardinality(Waiters(e))
      BY <3>3, <3>4, CopiesFinite
    <3>. QED BY <1>1, <2>8, <3>1, <3>5, SendersDoNotWait DEF CopyKnown
  <2>. QED BY <2>6, <2>7, <2>8
<1>8. ASSUME NEW s \in Sessions, NEW new, Update(s, new), new.batch = {}, UNCHANGED copies,
             session[s].step # "marking", \A f \in Events : session[s].marks[f] = NoMark,
             row'[e].status = row[e].status
      PROVE  CopyKnown(e)'
  <2>1. ~Sent(session[s], e)
    BY <1>8, OutboxAssumption DEF Sent, SessionsUnread, Unread, NoMark
  <2>. QED BY <1>1, <1>8, <2>1, CopyKept
<1>9. ASSUME NEW w \in Workers, Poll(w) PROVE CopyKnown(e)'
  <2>1. w \in Sessions /\ Idle.batch = {} /\ session[w].step = "sleeping" /\ row'[e].status = row[e].status
    BY <1>9 DEF Sessions, Dispatchers, Idle, Poll, At, Inv, TypeOK, Row
  <2>2. \A f \in Events : session[w].marks[f] = NoMark
    BY <2>1 DEF Inv, SessionsOrdered, Ordered
  <2>. QED BY <1>8, <1>9, <2>1, <2>2 DEF Poll
<1>10. ASSUME NEW a \in Admins, LoadForRetry(a) PROVE CopyKnown(e)'
  <2>1. PICK f \in Events :
          Update(a, [Idle EXCEPT !.step = "marking", !.current = f,
                                 !.target = "PENDING", !.read = Load({f})])
    BY <1>10 DEF LoadForRetry
  <2>2. [Idle EXCEPT !.step = "marking", !.current = f, !.target = "PENDING", !.read = Load({f})].batch = {}
    BY DEF Idle
  <2>3. a \in Sessions /\ session[a].step = "idle" /\ UNCHANGED <<row, copies>>
    BY <1>10 DEF Sessions, LoadForRetry, At
  <2>4. \A g \in Events : session[a].marks[g] = NoMark
    BY <2>3 DEF Inv, SessionsOrdered, Ordered
  <2>. QED BY <1>8, <2>1, <2>2, <2>3, <2>4
<1>11. ASSUME NEW s \in Sessions, Abort(s) PROVE CopyKnown(e)'
  <2>1. /\ Update(s, Idle) /\ row' = row /\ Idle.batch = {}
        /\ copies'[e] = IF Sent(session[s], e) THEN 0 ELSE copies[e]
    BY <1>11 DEF Abort, Uncommitted, Sent, Idle
  <2>. QED BY <1>1, <2>1, CopyKept
<1>12. CASE UNCHANGED vars
  BY <1>2, <1>12 DEF vars
<1>. QED BY <1>3, <1>4, <1>5, <1>6, <1>7, <1>9, <1>10, <1>11, <1>12 DEF Next

-----------------------------------------------------------------------------
(* Theorems *)

\* Every reachable state is well typed: backoffs stay within their cap.
THEOREM TypeCorrect == Spec => []TypeOK
<1>1. Inv => TypeOK
  BY DEF Inv
<1>. QED BY <1>1, InvHolds, PTL

\* Sessions take the locks of outbox_events in the order of ids, so dispatch
\* cycles and retries never deadlock, however many run.
THEOREM LocksAreOrdered == Spec => []LocksInOrder
<1>1. Inv => LocksInOrder
  BY DEF Inv, SessionsOrdered, Ordered, LocksMarked, LocksInOrder, WaitsFor, At
<1>. QED BY <1>1, InvHolds, PTL

\* The table never calls an event PUBLISHED that the bus neither delivered nor
\* confirmed and dropped, whichever dispatchers, retries and rollbacks met on its row.
THEOREM PublishedIsTaken == Spec => []PublishedArrived
<1>1. Init => Backed
  BY BackedInit
<1>2. Inv /\ Backed /\ [Next]_vars => Backed'
  BY BackedNext
<1>3. Backed => PublishedArrived
  BY DEF Backed
<1>. QED BY <1>1, <1>2, <1>3, InvHolds, PTL DEF Spec

\* However many workers and API requests dispatch at the same time, an event has no
\* more copies than there are dispatchers, but for marks rolled back, acknowledgements
\* lost and stale writes that reopened the row.
THEOREM CopiesAreAccounted == Spec => []CopiesAccounted
<1>1. Init => SessionsUnread /\ CopiesKnown
  BY CopiesInit
<1>2. Inv /\ SessionsUnread /\ CopiesKnown /\ [Next]_vars => (SessionsUnread /\ CopiesKnown)'
  BY UnreadNext, CopiesNext
<1>3. Inv /\ CopiesKnown => CopiesAccounted
  <2>. SUFFICES ASSUME Inv, CopiesKnown, NEW e \in Events PROVE copies[e] <= Cardinality(Dispatchers)
    BY DEF CopiesAccounted
  <2>1. Senders(e) \in SUBSET Dispatchers /\ Waiters(e) \in SUBSET Dispatchers
    BY DEF Senders, Waiters
  <2>2. /\ copies[e] \in Nat /\ Cardinality(Senders(e)) \in Nat /\ Cardinality(Waiters(e)) \in Nat
        /\ Cardinality(Dispatchers) \in Nat /\ Cardinality(Senders(e)) <= Cardinality(Dispatchers)
    BY <2>1, CopiesFinite DEF Inv, TypeOK
  <2>. QED BY <2>2 DEF CopiesKnown, CopyKnown
<1>. QED BY <1>1, <1>2, <1>3, InvHolds, PTL DEF Spec
=============================================================================
