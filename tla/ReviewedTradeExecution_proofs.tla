-------------------- MODULE ReviewedTradeExecution_proofs --------------------
(***************************************************************************)
(* Safety of ReviewedTradeExecution for any number of trades, sessions and *)
(* requests, with and without failures, whether or not commits expire the  *)
(* objects of a session.                                                   *)
(***************************************************************************)
EXTENDS ReviewedTradeExecution, TLAPS

-----------------------------------------------------------------------------
(* Statuses *)

\* The canonical status of any answer is one executions_v2 can hold.
LEMMA CanonicalStatusType ==
  ASSUME NEW a PROVE CanonicalStatus(a) \in CanonicalStatuses
BY DEF CanonicalStatus, CanonicalStatuses

\* Reading a stored result back gives an execution status that stands for the
\* same result.
LEMMA LegacyStatusRoundTrip ==
  ASSUME NEW r \in CanonicalStatuses, NEW m
  PROVE  /\ LegacyStatus(r, m) \in Answers
         /\ CanonicalStatus(LegacyStatus(r, m)) = r
BY DEF LegacyStatus, CanonicalStatus, CanonicalStatuses, Answers, Successful, Blocked

LEMMA CompletionTargetType ==
  ASSUME NEW a
  PROVE  CompletionTarget(a) \in {"EXECUTED", "EXECUTION_REJECTED", "FAILED"}
BY DEF CompletionTarget

\* No row: the mark is none of the statuses a row can hold.
LEMMA NoneIsNoStatus == None \notin CanonicalStatuses /\ None \notin Answers
BY DEF None, CanonicalStatuses, Answers, Successful, Blocked, Unmapped
-----------------------------------------------------------------------------
(* Types *)

LEMMA KeyType ==
  ASSUME TypeOK, NEW s \in Sessions, session[s].trade \in Trades
  PROVE  Key(s) \in Keys
BY DEF TypeOK, SessionState, Key, Keys

\* A session that is not idle works on a trade that exists, and one that is
\* about to write a status knows which.
Known(x) ==
  /\ x.step # "idle" => x.trade \in Trades
  /\ x.step \in {"reviewing", "reviewed", "completing"} => x.target \in ReviewedTradeStatus

TradeKnown == \A s \in Sessions : Known(session[s])

TypeInv == TypeOK /\ TradeKnown

LEMMA IdleType == Idle \in SessionState
BY DEF Idle, SessionState, Steps, Modes


\* What a step that rewrites the memory of session s does to all of them.
LEMMA UpdateType ==
  ASSUME TypeInv, NEW s \in Sessions, NEW new \in SessionState, Update(s, new),
         Known(new)
  PROVE  /\ session' \in [Sessions -> SessionState]
         /\ TradeKnown'
         /\ session'[s] = new
         /\ \A r \in Sessions \ {s} : session'[r] = session[r]
BY DEF TypeInv, TypeOK, TradeKnown, Update, At

\* A session that takes up a request knows its trade.
LEMMA BeginType ==
  ASSUME TypeInv, NEW s \in Sessions, NEW step \in Steps, NEW t \in Trades,
         NEW m \in Modes, NEW target \in ReviewedTradeStatus \cup {None},
         step \in {"reviewing", "reviewed", "completing"} => target \in ReviewedTradeStatus,
         Begin(s, step, t, m, target)
  PROVE  /\ session' \in [Sessions -> SessionState]
         /\ TradeKnown'
         /\ session'[s].step = step
         /\ session'[s].trade = t
         /\ \A r \in Sessions \ {s} : session'[r] = session[r]
<1>. DEFINE new == [step |-> step, trade |-> t, mode |-> m, seen |-> status[t],
                    answer |-> None, target |-> target]
<1>1. new \in SessionState /\ Known(new)
  BY DEF TypeInv, TypeOK, SessionState, Known
<1>2. Update(s, new)
  BY DEF Begin
<1>. QED BY <1>1, <1>2, UpdateType

\* A session that goes on keeps its trade and its mode.
LEMMA GotoType ==
  ASSUME TypeInv, NEW s \in Sessions, ~At(s, "idle"), NEW step \in Steps, Goto(s, step),
         step \in {"reviewing", "reviewed", "completing"} => session[s].target \in ReviewedTradeStatus
  PROVE  /\ session' \in [Sessions -> SessionState]
         /\ TradeKnown'
         /\ session'[s] = [session[s] EXCEPT !.step = step]
         /\ session'[s].step = step
         /\ Key(s)' = Key(s)
         /\ \A r \in Sessions \ {s} : session'[r] = session[r]
<1>1. session[s] \in SessionState /\ session[s].trade \in Trades
  BY DEF TypeInv, TypeOK, TradeKnown, Known, At
<1>2. [session[s] EXCEPT !.step = step] \in SessionState
  BY <1>1 DEF SessionState
<1>3. Known([session[s] EXCEPT !.step = step])
  BY <1>1 DEF SessionState, Known
<1>. QED BY <1>1, <1>2, <1>3, UpdateType DEF Goto, Key, SessionState

LEMMA FinishType ==
  ASSUME TypeInv, NEW s \in Sessions, Finish(s)
  PROVE  /\ session' \in [Sessions -> SessionState]
         /\ rowLock' \in [Trades -> Sessions \cup {NoSession}]
         /\ TradeKnown'
<1>1. session' = [session EXCEPT ![s] = Idle]
  BY DEF Finish, Update
<1>2. session' \in [Sessions -> SessionState]
  BY <1>1, IdleType DEF TypeInv, TypeOK
<1>3. rowLock' \in [Trades -> Sessions \cup {NoSession}]
  BY DEF Finish, TypeInv, TypeOK
<1>4. TradeKnown'
  BY <1>1 DEF TypeInv, TypeOK, TradeKnown, Known, Idle
<1>. QED BY <1>2, <1>3, <1>4

LEMMA TypeInit == Init => TypeInv
BY IdleType DEF Init, TypeInv, TypeOK, TradeKnown, Known, Idle, None, CanonicalStatuses,
   Answers, Keys

LEMMA TypeStep == TypeInv /\ [Next]_vars => TypeInv'
<1> SUFFICES ASSUME TypeInv, [Next]_vars PROVE TypeInv'
  OBVIOUS
<1>0. \A s \in Sessions : /\ session[s] \in SessionState
                          /\ Known(session[s])
                          /\ ~At(s, "idle") => session[s].trade \in Trades /\ Key(s) \in Keys
  BY KeyType DEF TypeInv, TypeOK, TradeKnown, Known, At
<1>1. ASSUME NEW t \in Trades, CreateTrade(t) PROVE TypeInv'
  BY <1>1, ConstantsAssumption DEF CreateTrade, TypeInv, TypeOK, TradeKnown, At
<1>2. ASSUME NEW s \in Sessions, LoadForReview(s) PROVE TypeInv'
  <2>1. PICK t \in Trades, target \in ReviewStatuses : Begin(s, "reviewing", t, "PAPER", target)
    BY <1>2 DEF LoadForReview
  <2>2. session' \in [Sessions -> SessionState] /\ TradeKnown'
    BY <2>1, BeginType, ConstantsAssumption DEF Steps, Reviewing, Modes
  <2>. QED BY <1>2, <2>2 DEF LoadForReview, TypeInv, TypeOK
<1>3. ASSUME NEW s \in Sessions, WriteReview(s) PROVE TypeInv'
  <2>1. session' \in [Sessions -> SessionState] /\ TradeKnown'
    BY <1>3, <1>0, GotoType DEF WriteReview, At, Known, Steps, Reviewing
  <2>2. rowLock' \in [Trades -> Sessions \cup {NoSession}]
    BY <1>3 DEF WriteReview, LockRow, TypeInv, TypeOK
  <2>. QED BY <1>3, <2>1, <2>2 DEF WriteReview, TypeInv, TypeOK
<1>4. ASSUME NEW s \in Sessions, CommitReview(s) PROVE TypeInv'
  <2>1. session[s].target \in ReviewedTradeStatus
    BY <1>0, <1>4 DEF CommitReview, At, Known
  <2>2. status' \in [Trades -> ReviewedTradeStatus \cup {"ABSENT"}]
    BY <1>4, <2>1 DEF CommitReview, TypeInv, TypeOK
  <2>. QED BY <1>4, <2>2, FinishType DEF CommitReview, TypeInv, TypeOK
<1>5. ASSUME NEW s \in Sessions, Resolve(s) PROVE TypeInv'
  <2>1. PICK t \in Trades, m \in Modes : Begin(s, "resolved", t, m, None)
    BY <1>5 DEF Resolve
  <2>2. session' \in [Sessions -> SessionState] /\ TradeKnown'
    BY <2>1, BeginType DEF Steps, Executing
  <2>. QED BY <1>5, <2>2 DEF Resolve, TypeInv, TypeOK
<1>6. ASSUME NEW s \in Sessions, CheckDuplicate(s) PROVE TypeInv'
  <2>1. /\ session' \in [Sessions -> SessionState] /\ TradeKnown'
        /\ rowLock' \in [Trades -> Sessions \cup {NoSession}]
    BY <1>6, GotoType, FinishType DEF CheckDuplicate, At, Steps, Executing, TypeInv, TypeOK
  <2>. QED BY <1>6, <2>1 DEF CheckDuplicate, TypeInv, TypeOK
<1>7. ASSUME NEW s \in Sessions, ClaimTrade(s) PROVE TypeInv'
  <2>. DEFINE new == [session[s] EXCEPT !.step = "claimed", !.seen = "EXECUTE_REQUESTED"]
  <2>1. new \in SessionState /\ Known(new)
    BY <1>0, <1>7 DEF ClaimTrade, At, SessionState, Known, Steps, Executing, ReviewedTradeStatus
  <2>2. session' \in [Sessions -> SessionState] /\ TradeKnown'
    BY <1>0, <1>7, <2>1, UpdateType DEF ClaimTrade, At
  <2>3. rowLock' \in [Trades -> Sessions \cup {NoSession}]
    BY <1>7 DEF ClaimTrade, LockRow, TypeInv, TypeOK
  <2>. QED BY <1>7, <2>2, <2>3 DEF ClaimTrade, TypeInv, TypeOK
<1>8. ASSUME NEW s \in Sessions, LookUpResult(s) PROVE TypeInv'
  <2>1. CASE results[Key(s)] = None
    <3>1. Goto(s, "saved")
      BY <1>8, <2>1 DEF LookUpResult
    <3>2. session' \in [Sessions -> SessionState] /\ TradeKnown'
      BY <1>8, <3>1, GotoType DEF LookUpResult, At, Steps, Executing
    <3>. QED BY <1>8, <3>2 DEF LookUpResult, TypeInv, TypeOK
  <2>2. CASE results[Key(s)] # None
    <3>. DEFINE a == LegacyStatus(results[Key(s)], session[s].mode)
                new == [session[s] EXCEPT !.step = "answered", !.answer = a]
    <3>1. Key(s) \in Keys
      BY <1>0, <1>8 DEF LookUpResult, At
    <3>2. a \in Answers
      BY <2>2, <3>1, LegacyStatusRoundTrip DEF TypeInv, TypeOK
    <3>3. new \in SessionState /\ Known(new)
      BY <1>0, <1>8, <3>2 DEF LookUpResult, At, SessionState, Known, Steps, Executing
    <3>4. Update(s, new)
      BY <1>8, <2>2 DEF LookUpResult
    <3>5. session' \in [Sessions -> SessionState] /\ TradeKnown'
      BY <1>0, <1>8, <3>3, <3>4, UpdateType DEF LookUpResult, At
    <3>. QED BY <1>8, <3>5 DEF LookUpResult, TypeInv, TypeOK
  <2>. QED BY <2>1, <2>2
<1>9. ASSUME NEW s \in Sessions, EvaluateGuard(s) PROVE TypeInv'
  <2>. DEFINE new == [session[s] EXCEPT !.step = "decided", !.answer = "BLOCKED"]
  <2>1. new \in SessionState /\ Known(new)
    BY <1>0, <1>9 DEF EvaluateGuard, At, SessionState, Known, Steps, Executing, Answers, Blocked
  <2>2. CASE Goto(s, "cleared")
    BY <1>9, <2>2, GotoType DEF EvaluateGuard, At, Steps, Executing, TypeInv, TypeOK
  <2>3. CASE Update(s, new)
    <3>1. session' \in [Sessions -> SessionState] /\ TradeKnown'
      BY <1>0, <1>9, <2>1, <2>3, UpdateType DEF EvaluateGuard, At
    <3>. QED BY <1>9, <3>1 DEF EvaluateGuard, TypeInv, TypeOK
  <2>. QED BY <1>9, <2>2, <2>3 DEF EvaluateGuard
<1>10. ASSUME NEW s \in Sessions, PlaceOrder(s) PROVE TypeInv'
  <2>1. PICK a \in AdapterAnswers[session[s].mode] :
          Update(s, [session[s] EXCEPT !.step = "placed", !.answer = a])
    BY <1>10 DEF PlaceOrder
  <2>. DEFINE new == [session[s] EXCEPT !.step = "placed", !.answer = a]
  <2>2. a \in Answers
    BY <1>0, ConstantsAssumption DEF SessionState
  <2>3. new \in SessionState /\ Known(new)
    BY <1>0, <1>10, <2>2 DEF PlaceOrder, At, SessionState, Known, Steps, Executing
  <2>4. session' \in [Sessions -> SessionState] /\ TradeKnown'
    BY <1>0, <1>10, <2>1, <2>3, UpdateType DEF PlaceOrder, At
  <2>5. orders' \in [Keys -> Nat]
    BY <1>0, <1>10 DEF PlaceOrder, At, TypeInv, TypeOK
  <2>. QED BY <1>10, <2>4, <2>5 DEF PlaceOrder, TypeInv, TypeOK
<1>11. ASSUME NEW s \in Sessions, MarkExecuted(s) PROVE TypeInv'
  <2>1. session' \in [Sessions -> SessionState] /\ TradeKnown'
    BY <1>11, GotoType DEF MarkExecuted, At, Steps, Executing
  <2>2. dedup' \subseteq Keys
    BY <1>0, <1>11 DEF MarkExecuted, At, TypeInv, TypeOK
  <2>. QED BY <1>11, <2>1, <2>2 DEF MarkExecuted, TypeInv, TypeOK
<1>12. ASSUME NEW s \in Sessions, CommitResult(s) PROVE TypeInv'
  <2>1. session' \in [Sessions -> SessionState] /\ TradeKnown'
    BY <1>12, GotoType DEF CommitResult, At, Steps, Executing
  <2>2. Key(s) \in Keys
    BY <1>0, <1>12 DEF CommitResult, At
  <2>3. results' \in [Keys -> CanonicalStatuses \cup {None}]
    BY <1>12, CanonicalStatusType DEF CommitResult, TypeInv, TypeOK
  <2>4. /\ status' \in [Trades -> ReviewedTradeStatus \cup {"ABSENT"}]
        /\ rowLock' \in [Trades -> Sessions \cup {NoSession}]
    BY <1>12 DEF CommitResult, ReviewedTradeStatus, TypeInv, TypeOK
  <2>5. events' \subseteq {"trade.execute.requested", "trade.executed",
                           "trade.execution_rejected"} \X Keys
    BY <1>12, <2>2 DEF CommitResult, TypeInv, TypeOK
  <2>. QED BY <1>12, <2>1, <2>3, <2>4, <2>5 DEF CommitResult, TypeInv, TypeOK
<1>13. ASSUME NEW s \in Sessions, Reload(s) PROVE TypeInv'
  <2>. DEFINE new == [session[s] EXCEPT !.step = "answered",
                        !.seen = IF ExpireOnCommit THEN status[session[s].trade] ELSE @]
  <2>1. status[session[s].trade] \in ReviewedTradeStatus \cup {"ABSENT"}
    BY <1>0, <1>13 DEF Reload, At, TypeInv, TypeOK
  <2>2. new \in SessionState /\ Known(new)
    BY <1>0, <1>13, <2>1 DEF Reload, At, SessionState, Known, Steps, Executing
  <2>3. session' \in [Sessions -> SessionState] /\ TradeKnown'
    BY <1>0, <1>13, <2>2, UpdateType DEF Reload, At
  <2>. QED BY <1>13, <2>3 DEF Reload, TypeInv, TypeOK
<1>14. ASSUME NEW s \in Sessions, InsertExecution(s) PROVE TypeInv'
  <2>1. /\ session' \in [Sessions -> SessionState] /\ TradeKnown'
        /\ rowLock' \in [Trades -> Sessions \cup {NoSession}]
    BY <1>14, GotoType, FinishType DEF InsertExecution, At, Steps, Executing, TypeInv, TypeOK
  <2>. QED BY <1>14, <2>1 DEF InsertExecution, TypeInv, TypeOK
<1>15. ASSUME NEW s \in Sessions, CompleteExecution(s) PROVE TypeInv'
  <2>. DEFINE target == CompletionTarget(session[s].answer)
              new == [session[s] EXCEPT !.step = "completing", !.target = target]
  <2>1. target \in ReviewedTradeStatus
    BY CompletionTargetType DEF ReviewedTradeStatus
  <2>2. new \in SessionState /\ Known(new)
    BY <1>0, <1>15, <2>1 DEF CompleteExecution, At, SessionState, Known, Steps, Executing
  <2>3. session' \in [Sessions -> SessionState] /\ TradeKnown'
    BY <1>0, <1>15, <2>2, UpdateType DEF CompleteExecution, At
  <2>4. rowLock' \in [Trades -> Sessions \cup {NoSession}]
    BY <1>15 DEF CompleteExecution, LockRow, TypeInv, TypeOK
  <2>. QED BY <1>15, <2>3, <2>4 DEF CompleteExecution, TypeInv, TypeOK
<1>16. ASSUME NEW s \in Sessions, AbandonExecution(s) PROVE TypeInv'
  BY <1>16, FinishType DEF AbandonExecution, TypeInv, TypeOK
<1>17. ASSUME NEW s \in Sessions, CommitExecution(s) PROVE TypeInv'
  <2>1. Key(s) \in Keys /\ session[s].target \in ReviewedTradeStatus
    BY <1>0, <1>17 DEF CommitExecution, At, Known
  <2>2. session[s].answer \in Answers \cup {None}
    BY <1>0 DEF SessionState
  <2>3. executions' \in [Keys -> Answers \cup {None}]
    BY <1>17, <2>1, <2>2 DEF CommitExecution, TypeInv, TypeOK
  <2>4. events' \subseteq {"trade.execute.requested", "trade.executed",
                           "trade.execution_rejected"} \X Keys
    BY <1>17, <2>1 DEF CommitExecution, OutcomeEvent, TypeInv, TypeOK
  <2>5. status' \in [Trades -> ReviewedTradeStatus \cup {"ABSENT"}]
    BY <1>17, <2>1 DEF CommitExecution, TypeInv, TypeOK
  <2>. QED BY <1>17, <2>3, <2>4, <2>5, FinishType DEF CommitExecution, TypeInv, TypeOK
<1>18. ASSUME NEW s \in Sessions, Abort(s) PROVE TypeInv'
  BY <1>18, FinishType DEF Abort, RecordForgotten, TypeInv, TypeOK
<1>19. ASSUME NEW s \in Sessions, BreakDeadlock(s) PROVE TypeInv'
  BY <1>19, FinishType DEF BreakDeadlock, TypeInv, TypeOK
<1>20. CASE GuardForgets
  BY <1>20 DEF GuardForgets, RecordForgotten, TypeInv, TypeOK, TradeKnown, At
<1>21. CASE UNCHANGED vars
  BY <1>21 DEF vars, TypeInv, TypeOK, TradeKnown, At
<1>. QED
  BY <1>1, <1>2, <1>3, <1>4, <1>5, <1>6, <1>7, <1>8, <1>9, <1>10, <1>11, <1>12,
     <1>13, <1>14, <1>15, <1>16, <1>17, <1>18, <1>19, <1>20, <1>21
  DEF Next, Waiting, Running

\* Every reachable state is well typed.
THEOREM TypeCorrect == Spec => []TypeOK
<1>1. Spec => []TypeInv
  BY TypeInit, TypeStep, PTL DEF Spec
<1>. QED BY <1>1, PTL DEF TypeInv

-----------------------------------------------------------------------------
(* The first transaction *)

\* Between the claim and the commit of the result a session holds the row.
Claiming == {"claimed", "saved", "cleared", "placed", "decided"}

RowHeld ==
  \A s \in Sessions : session[s].step \in Claiming => rowLock[session[s].trade] = s

\* A session that saved a request found no result, and there is still none.
ResultOpen ==
  \A s \in Sessions :
    session[s].step \in Claiming \ {"claimed"} => results[Key(s)] = None

\* What the guard store did not hold when it was asked is not there when the
\* order goes out.
ClearedKey == \A s \in Sessions : At(s, "cleared") => Key(s) \notin dedup

\* Orders nobody remembers are all in the history of forgotten ones.
OrdersKnown == \A k \in Keys : ~Remembered(k) => orders[k] = forgotten[k]

\* Two sessions cannot be in the first transaction for the same trade.
LEMMA ClaimExclusive ==
  ASSUME RowHeld, NEW r \in Sessions, NEW s \in Sessions,
         session[r].step \in Claiming, session[s].step \in Claiming,
         session[r].trade = session[s].trade
  PROVE  r = s
BY DEF RowHeld

\* A step of session s changes the memory of no other session.
LEMMA OthersUnchanged ==
  ASSUME NEW s \in Sessions, TypeInv,
         LoadForReview(s) \/ Resolve(s) \/ Waiting(s) \/ Running(s) \/ Abort(s)
  PROVE  \A r \in Sessions \ {s} : session'[r] = session[r] /\ Key(r)' = Key(r)
<1>1. \E new : Update(s, new)
  BY DEF LoadForReview, Resolve, Waiting, Running, Abort, WriteReview, ClaimTrade,
     InsertExecution, CompleteExecution, CommitReview, CheckDuplicate, LookUpResult,
     EvaluateGuard, PlaceOrder, MarkExecuted, CommitResult, Reload, AbandonExecution,
     CommitExecution, BreakDeadlock, Finish, Goto, Begin
<1>. QED BY <1>1 DEF Update, TypeInv, TypeOK, Key

\* Session s goes from one step of its request to another.
Moves(s, from, to) ==
  /\ session[s].step = from /\ session'[s].step = to
  /\ session'[s].trade = session[s].trade /\ Key(s)' = Key(s)

LEMMA UpdateMoves ==
  ASSUME NEW s \in Sessions, TypeInv, NEW new, Update(s, new)
  PROVE  session'[s] = new
BY DEF Update, TypeInv, TypeOK

\* What each action makes of the memory of its session.
LEMMA Effect ==
  ASSUME NEW s \in Sessions, TypeInv
  PROVE  /\ LoadForReview(s) => session'[s].step = "reviewing"
         /\ Resolve(s) => session'[s].step = "resolved"
         /\ WriteReview(s) => Moves(s, "reviewing", "reviewed")
         /\ CommitReview(s) => session'[s] = Idle
         /\ CheckDuplicate(s) => Moves(s, "resolved", "checked") \/ session'[s] = Idle
         /\ ClaimTrade(s) => Moves(s, "checked", "claimed")
         /\ LookUpResult(s) => Moves(s, "claimed", "answered") \/ Moves(s, "claimed", "saved")
         /\ EvaluateGuard(s) => Moves(s, "saved", "cleared") \/ Moves(s, "saved", "decided")
         /\ PlaceOrder(s) => Moves(s, "cleared", "placed")
         /\ MarkExecuted(s) => Moves(s, "placed", "decided")
         /\ CommitResult(s) => Moves(s, "decided", "committed")
         /\ Reload(s) => Moves(s, "committed", "answered")
         /\ InsertExecution(s) => Moves(s, "answered", "inserted") \/ session'[s] = Idle
         /\ CompleteExecution(s) => Moves(s, "inserted", "completing")
         /\ AbandonExecution(s) => session'[s] = Idle
         /\ CommitExecution(s) => session'[s] = Idle
         /\ Abort(s) => session'[s] = Idle
         /\ BreakDeadlock(s) => session'[s] = Idle
<1>0. session[s] \in SessionState
  BY DEF TypeInv, TypeOK
<1>1. Finish(s) => session'[s] = Idle
  BY UpdateMoves DEF Finish
<1>2. \A from, to : At(s, from) /\ Goto(s, to) => Moves(s, from, to)
  BY <1>0, UpdateMoves DEF Goto, At, Moves, Key, SessionState
<1>3. /\ LoadForReview(s) => session'[s].step = "reviewing"
      /\ Resolve(s) => session'[s].step = "resolved"
  <2>1. ASSUME NEW step, NEW t, NEW m, NEW target, Begin(s, step, t, m, target)
        PROVE  session'[s].step = step
    BY <2>1, UpdateMoves DEF Begin
  <2>. QED BY <2>1 DEF LoadForReview, Resolve
<1>4. /\ WriteReview(s) => Moves(s, "reviewing", "reviewed")
      /\ MarkExecuted(s) => Moves(s, "placed", "decided")
      /\ CommitResult(s) => Moves(s, "decided", "committed")
  BY <1>2 DEF WriteReview, MarkExecuted, CommitResult
<1>5. /\ CheckDuplicate(s) => Moves(s, "resolved", "checked") \/ session'[s] = Idle
      /\ InsertExecution(s) => Moves(s, "answered", "inserted") \/ session'[s] = Idle
  BY <1>1, <1>2 DEF CheckDuplicate, InsertExecution
<1>6. ClaimTrade(s) => Moves(s, "checked", "claimed")
  BY <1>0, UpdateMoves DEF ClaimTrade, At, Moves, Key, SessionState
<1>7. LookUpResult(s) => Moves(s, "claimed", "answered") \/ Moves(s, "claimed", "saved")
  <2>1. LookUpResult(s) => At(s, "claimed")
    BY DEF LookUpResult
  <2>2. ASSUME NEW a, At(s, "claimed"),
               Update(s, [session[s] EXCEPT !.step = "answered", !.answer = a])
        PROVE  Moves(s, "claimed", "answered")
    BY <1>0, <2>2, UpdateMoves, ZenonT(60) DEF At, Moves, Key, SessionState
  <2>. QED BY <1>2, <2>1, <2>2 DEF LookUpResult
<1>8. EvaluateGuard(s) => Moves(s, "saved", "cleared") \/ Moves(s, "saved", "decided")
  BY <1>0, <1>2, UpdateMoves DEF EvaluateGuard, At, Moves, Key, SessionState
<1>9. PlaceOrder(s) => Moves(s, "cleared", "placed")
  BY <1>0, UpdateMoves, ZenonT(60) DEF PlaceOrder, At, Moves, Key, SessionState
<1>10. Reload(s) => Moves(s, "committed", "answered")
  BY <1>0, UpdateMoves, ZenonT(60) DEF Reload, At, Moves, Key, SessionState
<1>11. CompleteExecution(s) => Moves(s, "inserted", "completing")
  BY <1>0, UpdateMoves DEF CompleteExecution, At, Moves, Key, SessionState
<1>12. /\ CommitReview(s) => session'[s] = Idle
       /\ AbandonExecution(s) => session'[s] = Idle
       /\ CommitExecution(s) => session'[s] = Idle
       /\ Abort(s) => session'[s] = Idle
       /\ BreakDeadlock(s) => session'[s] = Idle
  BY <1>1 DEF CommitReview, AbandonExecution, CommitExecution, Abort, BreakDeadlock
<1>. QED BY <1>3, <1>4, <1>5, <1>6, <1>7, <1>8, <1>9, <1>10, <1>11, <1>12

\* Row locks change hands only when they are free.
LEMMA LocksKept ==
  ASSUME NEW s \in Sessions, TypeInv, RowHeld,
         LoadForReview(s) \/ Resolve(s) \/ Waiting(s) \/ Running(s) \/ Abort(s)
  PROVE  \A r \in Sessions \ {s}, t \in Trades : rowLock[t] = r => rowLock'[t] = r
<1>1. \/ UNCHANGED rowLock
      \/ Finish(s)
      \/ RowFree(s) /\ LockRow(s)
      \/ CommitResult(s)
  BY DEF LoadForReview, Resolve, Waiting, Running, Abort, WriteReview, ClaimTrade,
     InsertExecution, CompleteExecution, CommitReview, CheckDuplicate, LookUpResult,
     EvaluateGuard, PlaceOrder, MarkExecuted, Reload, AbandonExecution,
     CommitExecution, BreakDeadlock
<1>2. CASE CommitResult(s)
  BY <1>2 DEF CommitResult, At, RowHeld, Claiming, TypeInv, TypeOK
<1>3. CASE RowFree(s) /\ LockRow(s)
  BY <1>3, ConstantsAssumption DEF RowFree, LockRow, TypeInv, TypeOK
<1>4. CASE Finish(s)
  BY <1>4 DEF Finish, TypeInv, TypeOK
<1>. QED BY <1>1, <1>2, <1>3, <1>4

LEMMA RowHeldStep == TypeInv /\ RowHeld /\ [Next]_vars => RowHeld'
<1> SUFFICES ASSUME TypeInv, RowHeld, [Next]_vars PROVE RowHeld'
  OBVIOUS
<1>1. ASSUME NEW s \in Sessions,
             LoadForReview(s) \/ Resolve(s) \/ Waiting(s) \/ Running(s) \/ Abort(s)
      PROVE  RowHeld'
  <2>1. ASSUME NEW r \in Sessions \ {s}, session'[r].step \in Claiming
        PROVE  rowLock'[session'[r].trade] = r
    <3>1. session'[r] = session[r] /\ session[r].trade \in Trades
      BY <1>1, <2>1, OthersUnchanged DEF TypeInv, TradeKnown, Known, Claiming
    <3>. QED BY <1>1, <2>1, <3>1, LocksKept DEF RowHeld
  <2>2. ASSUME session'[s].step \in Claiming
        PROVE  rowLock'[session'[s].trade] = s
    <3>1. \/ ClaimTrade(s)
          \/ LookUpResult(s) \/ EvaluateGuard(s) \/ PlaceOrder(s) \/ MarkExecuted(s)
      BY <1>1, <2>2, Effect DEF Moves, Idle, Claiming, Waiting, Running
    <3>2. session'[s].trade = session[s].trade /\ session[s].trade \in Trades
      BY <3>1, <2>2, Effect DEF Moves, Idle, Claiming, TypeInv, TradeKnown, Known
    <3>3. CASE ClaimTrade(s)
      BY <3>2, <3>3 DEF ClaimTrade, LockRow, TypeInv, TypeOK
    <3>4. CASE LookUpResult(s) \/ EvaluateGuard(s) \/ PlaceOrder(s) \/ MarkExecuted(s)
      <4>1. session[s].step \in Claiming /\ UNCHANGED rowLock
        BY <3>4 DEF LookUpResult, EvaluateGuard, PlaceOrder, MarkExecuted, At, Claiming
      <4>. QED BY <3>2, <4>1 DEF RowHeld
    <3>. QED BY <3>1, <3>3, <3>4
  <2>. QED BY <2>1, <2>2 DEF RowHeld
<1>2. CASE (\E t \in Trades : CreateTrade(t)) \/ GuardForgets \/ UNCHANGED vars
  BY <1>2 DEF CreateTrade, GuardForgets, vars, RowHeld
<1>. QED BY <1>1, <1>2 DEF Next

\* Results are written by the commit of the first transaction only, marks by
\* MarkExecuted only.
LEMMA Writers ==
  ASSUME NEW s \in Sessions,
         LoadForReview(s) \/ Resolve(s) \/ Waiting(s) \/ Running(s) \/ Abort(s)
  PROVE  /\ UNCHANGED results \/ CommitResult(s)
         /\ UNCHANGED dedup \/ MarkExecuted(s)
         /\ UNCHANGED executions \/ CommitExecution(s)
         /\ UNCHANGED orders \/ PlaceOrder(s)
         /\ UNCHANGED forgotten \/ Abort(s)
BY DEF LoadForReview, Resolve, Waiting, Running, Abort, WriteReview, ClaimTrade,
   InsertExecution, CompleteExecution, CommitReview, CheckDuplicate, LookUpResult,
   EvaluateGuard, PlaceOrder, MarkExecuted, CommitResult, Reload, AbandonExecution,
   CommitExecution, BreakDeadlock

LEMMA ResultOpenStep == TypeInv /\ RowHeld /\ ResultOpen /\ [Next]_vars => ResultOpen'
<1> SUFFICES ASSUME TypeInv, RowHeld, ResultOpen, [Next]_vars PROVE ResultOpen'
  OBVIOUS
<1>1. ASSUME NEW s \in Sessions,
             LoadForReview(s) \/ Resolve(s) \/ Waiting(s) \/ Running(s) \/ Abort(s)
      PROVE  ResultOpen'
  <2>1. ASSUME NEW r \in Sessions \ {s}, session'[r].step \in Claiming \ {"claimed"}
        PROVE  results'[Key(r)'] = None
    <3>1. session'[r] = session[r] /\ Key(r)' = Key(r) /\ results[Key(r)] = None
      BY <1>1, <2>1, OthersUnchanged DEF ResultOpen
    <3>2. CASE CommitResult(s)
      <4>1. session[s].step \in Claiming /\ session[r].step \in Claiming
        BY <2>1, <3>1, <3>2 DEF CommitResult, At, Claiming
      <4>2. Key(r) # Key(s)
        BY <2>1, <4>1, ClaimExclusive DEF Key
      <4>. QED BY <3>1, <3>2, <4>2 DEF CommitResult, TypeInv, TypeOK
    <3>. QED BY <1>1, <3>1, <3>2, Writers
  <2>2. ASSUME session'[s].step \in Claiming \ {"claimed"}
        PROVE  results'[Key(s)'] = None
    <3>1. LookUpResult(s) \/ EvaluateGuard(s) \/ PlaceOrder(s) \/ MarkExecuted(s)
      BY <1>1, <2>2, Effect DEF Moves, Idle, Claiming, Waiting, Running
    <3>2. Key(s)' = Key(s) /\ UNCHANGED results
      BY <3>1, <2>2, Effect DEF Moves, LookUpResult, EvaluateGuard, PlaceOrder, MarkExecuted
    <3>3. CASE LookUpResult(s)
      <4>1. results[Key(s)] # None => session'[s].step = "answered"
        <5>1. ASSUME NEW a, Update(s, [session[s] EXCEPT !.step = "answered", !.answer = a])
              PROVE  session'[s].step = "answered"
          BY <5>1, UpdateMoves DEF TypeInv, TypeOK, SessionState
        <5>. QED BY <3>3, <5>1 DEF LookUpResult
      <4>. QED BY <2>2, <3>2, <4>1 DEF Claiming
    <3>4. CASE EvaluateGuard(s) \/ PlaceOrder(s) \/ MarkExecuted(s)
      BY <3>2, <3>4 DEF EvaluateGuard, PlaceOrder, MarkExecuted, At, Claiming, ResultOpen
    <3>. QED BY <3>1, <3>3, <3>4
  <2>. QED BY <2>1, <2>2 DEF ResultOpen
<1>2. CASE (\E t \in Trades : CreateTrade(t)) \/ GuardForgets \/ UNCHANGED vars
  BY <1>2 DEF CreateTrade, GuardForgets, vars, ResultOpen, Key
<1>. QED BY <1>1, <1>2 DEF Next

LEMMA ClearedKeyStep == TypeInv /\ RowHeld /\ ClearedKey /\ [Next]_vars => ClearedKey'
<1> SUFFICES ASSUME TypeInv, RowHeld, ClearedKey, [Next]_vars PROVE ClearedKey'
  OBVIOUS
<1>1. ASSUME NEW s \in Sessions,
             LoadForReview(s) \/ Resolve(s) \/ Waiting(s) \/ Running(s) \/ Abort(s)
      PROVE  ClearedKey'
  <2>1. ASSUME NEW r \in Sessions \ {s}, session'[r].step = "cleared"
        PROVE  Key(r)' \notin dedup'
    <3>1. session'[r] = session[r] /\ Key(r)' = Key(r) /\ Key(r) \notin dedup
      BY <1>1, <2>1, OthersUnchanged DEF ClearedKey, At
    <3>2. CASE MarkExecuted(s)
      <4>1. Key(r) # Key(s)
        BY <2>1, <3>1, <3>2, ClaimExclusive DEF MarkExecuted, At, Claiming, Key
      <4>. QED BY <3>1, <3>2, <4>1 DEF MarkExecuted
    <3>. QED BY <1>1, <3>1, <3>2, Writers
  <2>2. ASSUME session'[s].step = "cleared"
        PROVE  Key(s)' \notin dedup'
    <3>1. EvaluateGuard(s)
      BY <1>1, <2>2, Effect DEF Moves, Idle, Waiting, Running
    <3>2. Key(s) \notin dedup
      <4>1. ~Update(s, [session[s] EXCEPT !.step = "decided", !.answer = "BLOCKED"])
        BY <2>2, UpdateMoves, ZenonT(60) DEF TypeInv, TypeOK, SessionState
      <4>. QED BY <3>1, <4>1 DEF EvaluateGuard
    <3>. QED BY <2>2, <3>1, <3>2, Effect DEF Moves, EvaluateGuard
  <2>. QED BY <2>1, <2>2 DEF ClearedKey, At
<1>2. CASE (\E t \in Trades : CreateTrade(t)) \/ GuardForgets \/ UNCHANGED vars
  BY <1>2 DEF CreateTrade, GuardForgets, vars, ClearedKey, Key, At
<1>. QED BY <1>1, <1>2 DEF Next

\* Only failures erase the memory of an order.
LEMMA RememberedKept ==
  ASSUME TypeInv, NEW s \in Sessions, NEW k \in Keys, Remembered(k),
         LoadForReview(s) \/ Resolve(s) \/ Waiting(s) \/ Running(s)
  PROVE  Remembered(k)'
<1>1. CASE results[k] # None
  <2>1. CASE CommitResult(s)
    BY <1>1, <2>1, CanonicalStatusType, NoneIsNoStatus DEF CommitResult, Remembered, TypeInv, TypeOK
  <2>. QED BY <1>1, <2>1, Writers DEF Remembered
<1>2. CASE k \in dedup
  BY <1>2, Writers DEF MarkExecuted, Remembered
<1>3. ASSUME NEW r \in Sessions \ {s}, HoldsOutcome(r, k) PROVE Remembered(k)'
  <2>1. session'[r] = session[r] /\ Key(r)' = Key(r)
    BY OthersUnchanged
  <2>. QED BY <1>3, <2>1 DEF HoldsOutcome, Remembered
<1>4. CASE HoldsOutcome(s, k)
  <2>1. MarkExecuted(s) \/ CommitResult(s)
    BY <1>4 DEF HoldsOutcome, At, LoadForReview, Resolve, Waiting, Running, WriteReview,
       ClaimTrade, InsertExecution, CompleteExecution, CommitReview, CheckDuplicate,
       LookUpResult, EvaluateGuard, PlaceOrder, Reload, AbandonExecution,
       CommitExecution, BreakDeadlock, Deadlocked
  <2>2. CASE MarkExecuted(s)
    BY <1>4, <2>2, Effect DEF Moves, HoldsOutcome, Remembered
  <2>3. CASE CommitResult(s)
    BY <1>4, <2>3, CanonicalStatusType, NoneIsNoStatus
    DEF CommitResult, HoldsOutcome, Remembered, TypeInv, TypeOK
  <2>. QED BY <2>1, <2>2, <2>3
<1>. QED BY <1>1, <1>2, <1>3, <1>4 DEF Remembered

OrderInv == RowHeld /\ ResultOpen /\ ClearedKey /\ OrdersKnown /\ OrderNotRepeated

LEMMA OrdersStep ==
  TypeInv /\ OrderInv /\ [Next]_vars => OrdersKnown' /\ OrderNotRepeated'
<1> SUFFICES ASSUME TypeInv, OrderInv, [Next]_vars PROVE OrdersKnown' /\ OrderNotRepeated'
  OBVIOUS
<1>1. ASSUME NEW s \in Sessions, LoadForReview(s) \/ Resolve(s) \/ Waiting(s) \/ Running(s)
      PROVE  OrdersKnown' /\ OrderNotRepeated'
  <2>1. UNCHANGED orders \/ PlaceOrder(s)
    BY <1>1, Writers
  <2>2. UNCHANGED forgotten
    BY <1>1 DEF LoadForReview, Resolve, Waiting, Running, WriteReview, ClaimTrade,
       InsertExecution, CompleteExecution, CommitReview, CheckDuplicate, LookUpResult,
       EvaluateGuard, PlaceOrder, MarkExecuted, CommitResult, Reload, AbandonExecution,
       CommitExecution, BreakDeadlock
  <2>3. \A k \in Keys : ~Remembered(k)' => orders[k] = forgotten[k]
    BY <1>1, RememberedKept DEF OrderInv, OrdersKnown
  <2>4. CASE UNCHANGED orders
    BY <2>2, <2>3, <2>4 DEF OrderInv, OrdersKnown, OrderNotRepeated
  <2>5. CASE PlaceOrder(s)
    <3>1. Key(s) \in Keys
      BY <2>5, KeyType DEF PlaceOrder, At, TypeInv, TradeKnown, Known
    <3>2. \A k \in Keys : k = Key(s) => Remembered(k)'
      BY <2>5, Effect DEF Moves, Remembered, HoldsOutcome
    <3>3. ~Remembered(Key(s))
      <4>1. session[s].step = "cleared" /\ session[s].step \in Claiming
        BY <2>5 DEF PlaceOrder, At, Claiming
      <4>2. results[Key(s)] = None /\ Key(s) \notin dedup
        BY <4>1 DEF OrderInv, ResultOpen, ClearedKey, At, Claiming
      <4>3. ASSUME NEW r \in Sessions, HoldsOutcome(r, Key(s)) PROVE FALSE
        <5>1. session[r].step \in Claiming /\ session[r].trade = session[s].trade /\ r # s
          BY <4>1, <4>3 DEF HoldsOutcome, Key, Claiming
        <5>. QED BY <4>1, <5>1, ClaimExclusive DEF OrderInv
      <4>. QED BY <4>2, <4>3 DEF Remembered
    <3>4. orders[Key(s)] = forgotten[Key(s)]
      BY <3>1, <3>3 DEF OrderInv, OrdersKnown
    <3>5. /\ orders'[Key(s)] = orders[Key(s)] + 1
          /\ \A k \in Keys \ {Key(s)} : orders'[k] = orders[k]
      BY <2>5, <3>1 DEF PlaceOrder, TypeInv, TypeOK
    <3>6. OrdersKnown'
      <4>1. ASSUME NEW k \in Keys, ~Remembered(k)' PROVE orders'[k] = forgotten'[k]
        BY <2>2, <2>3, <3>2, <3>5, <4>1
      <4>. QED BY <4>1 DEF OrdersKnown
    <3>7. OrderNotRepeated'
      BY <2>2, <3>1, <3>4, <3>5 DEF OrderInv, OrderNotRepeated, TypeInv, TypeOK
    <3>. QED BY <3>6, <3>7
  <2>. QED BY <2>1, <2>4, <2>5
<1>2. ASSUME RecordForgotten, UNCHANGED orders
      PROVE  OrdersKnown' /\ OrderNotRepeated'
  BY <1>2 DEF RecordForgotten, OrderInv, OrdersKnown, OrderNotRepeated, TypeInv, TypeOK
<1>3. ASSUME NEW t \in Trades, CreateTrade(t) PROVE OrdersKnown' /\ OrderNotRepeated'
  BY <1>3 DEF CreateTrade, OrderInv, OrdersKnown, OrderNotRepeated, Remembered, HoldsOutcome, Key
<1>4. CASE UNCHANGED vars
  BY <1>4 DEF vars, OrderInv, OrdersKnown, OrderNotRepeated, Remembered, HoldsOutcome, Key
<1>. QED BY <1>1, <1>2, <1>3, <1>4 DEF Next, Abort, GuardForgets

LEMMA OrderInit == Init => OrderInv
BY DEF Init, OrderInv, RowHeld, ResultOpen, ClearedKey, OrdersKnown, OrderNotRepeated, At,
   Idle, Claiming

\* An order goes out again only after failures erased every trace of the one
\* before it: the committed result, the mark of the guard store and the
\* request that held its answer.
THEOREM OrdersAreNotRepeated == Spec => []OrderNotRepeated
<1>1. TypeInv /\ OrderInv /\ [Next]_vars => OrderInv'
  BY RowHeldStep, ResultOpenStep, ClearedKeyStep, OrdersStep DEF OrderInv
<1>2. Spec => [](TypeInv /\ OrderInv)
  BY <1>1, TypeInit, TypeStep, OrderInit, PTL DEF Spec
<1>. QED BY <1>2, PTL DEF OrderInv

-----------------------------------------------------------------------------
(* The second transaction *)

\* After the first transaction a session's answer is that of the stored result.
Answering == {"committed", "answered", "inserted", "completing"}

Answered ==
  \A s \in Sessions : session[s].step \in Answering =>
    results[Key(s)] # None /\ CanonicalStatus(session[s].answer) = results[Key(s)]

\* An uncommitted executions row is the only one of its key.
Inserting == {"inserted", "completing"}

InsertAlone ==
  \A s \in Sessions : session[s].step \in Inserting =>
    /\ executions[Key(s)] = None
    /\ \A r \in Sessions \ {s} : session[r].step \in Inserting => Key(r) # Key(s)

OutcomeInv == Answered /\ InsertAlone /\ ExecutionTellsResult

LEMMA ResultsFinal ==
  ASSUME TypeInv, OrderInv, [Next]_vars, NEW k \in Keys, results[k] # None
  PROVE  results'[k] = results[k]
<1>1. ASSUME NEW s \in Sessions, CommitResult(s) PROVE results'[k] = results[k]
  <2>1. results[Key(s)] = None
    BY <1>1 DEF CommitResult, At, Claiming, OrderInv, ResultOpen
  <2>. QED BY <1>1, <2>1 DEF CommitResult, TypeInv, TypeOK
<1>. QED BY <1>1, Writers DEF Next, CreateTrade, GuardForgets, vars

\* The answer is set when the adapter, the guard or the stored result gives it,
\* and kept from then on.
LEMMA AnswerKept ==
  ASSUME TypeInv, NEW s \in Sessions,
         CommitResult(s) \/ Reload(s) \/ InsertExecution(s) \/ CompleteExecution(s)
  PROVE  session'[s] = Idle \/ session'[s].answer = session[s].answer
<1>0. session[s] \in SessionState
  BY DEF TypeInv, TypeOK
<1>1. ASSUME NEW step, Goto(s, step) PROVE session'[s].answer = session[s].answer
  BY <1>0, <1>1, UpdateMoves DEF Goto, SessionState
<1>2. CASE CommitResult(s)
  BY <1>1, <1>2 DEF CommitResult
<1>3. CASE Reload(s)
  BY <1>0, <1>3, UpdateMoves DEF Reload, SessionState
<1>4. CASE InsertExecution(s)
  BY <1>1, <1>4, UpdateMoves DEF InsertExecution, Finish
<1>5. CASE CompleteExecution(s)
  BY <1>0, <1>5, UpdateMoves DEF CompleteExecution, SessionState
<1>. QED BY <1>2, <1>3, <1>4, <1>5

LEMMA AnsweredStep == TypeInv /\ OrderInv /\ Answered /\ [Next]_vars => Answered'
<1> SUFFICES ASSUME TypeInv, OrderInv, Answered, [Next]_vars PROVE Answered'
  OBVIOUS
<1>1. ASSUME NEW s \in Sessions,
             LoadForReview(s) \/ Resolve(s) \/ Waiting(s) \/ Running(s) \/ Abort(s)
      PROVE  Answered'
  <2>1. ASSUME NEW r \in Sessions \ {s}, session'[r].step \in Answering
        PROVE  /\ results'[Key(r)'] # None
               /\ CanonicalStatus(session'[r].answer) = results'[Key(r)']
    <3>1. session'[r] = session[r] /\ Key(r)' = Key(r)
      BY <1>1, OthersUnchanged
    <3>2. Key(r) \in Keys
      BY <2>1, <3>1, KeyType DEF TypeInv, TradeKnown, Known, Answering
    <3>. QED BY <2>1, <3>1, <3>2, ResultsFinal DEF Answered
  <2>2. ASSUME session'[s].step \in Answering
        PROVE  /\ results'[Key(s)'] # None
               /\ CanonicalStatus(session'[s].answer) = results'[Key(s)']
    <3>1. \/ LookUpResult(s) \/ CommitResult(s)
          \/ Reload(s) \/ InsertExecution(s) \/ CompleteExecution(s)
      BY <1>1, <2>2, Effect DEF Moves, Idle, Answering, Waiting, Running
    <3>2. Key(s)' = Key(s) /\ Key(s) \in Keys
      BY <2>2, <3>1, Effect, KeyType DEF Moves, Idle, Answering, TypeInv, TradeKnown, Known
    <3>3. CASE LookUpResult(s)
      <4>1. results[Key(s)] # None
        <5>1. ~Goto(s, "saved")
          BY <2>2, UpdateMoves DEF Goto, Answering, TypeInv, TypeOK, SessionState
        <5>. QED BY <3>3, <5>1 DEF LookUpResult
      <4>2. session'[s].answer = LegacyStatus(results[Key(s)], session[s].mode)
        <5>1. ASSUME NEW a, Update(s, [session[s] EXCEPT !.step = "answered", !.answer = a])
              PROVE  session'[s].answer = a
          BY <5>1, UpdateMoves DEF TypeInv, TypeOK, SessionState
        <5>. QED BY <3>3, <4>1, <5>1 DEF LookUpResult
      <4>3. results[Key(s)] \in CanonicalStatuses
        BY <3>2, <4>1 DEF TypeInv, TypeOK
      <4>. QED BY <3>2, <3>3, <4>1, <4>2, <4>3, LegacyStatusRoundTrip DEF LookUpResult
    <3>4. CASE CommitResult(s)
      <4>1. session'[s].answer = session[s].answer
        BY <2>2, <3>4, AnswerKept DEF Idle, Answering
      <4>2. results'[Key(s)] = CanonicalStatus(session[s].answer)
        BY <3>2, <3>4 DEF CommitResult, TypeInv, TypeOK
      <4>. QED BY <3>2, <4>1, <4>2, CanonicalStatusType, NoneIsNoStatus
    <3>5. CASE Reload(s) \/ InsertExecution(s) \/ CompleteExecution(s)
      <4>1. session'[s].answer = session[s].answer
        BY <2>2, <3>5, AnswerKept DEF Idle, Answering
      <4>2. session[s].step \in Answering
        BY <3>5 DEF Reload, InsertExecution, CompleteExecution, At, Answering
      <4>. QED BY <3>2, <4>1, <4>2, ResultsFinal DEF Answered
    <3>. QED BY <3>1, <3>3, <3>4, <3>5
  <2>. QED BY <2>1, <2>2 DEF Answered
<1>2. CASE (\E t \in Trades : CreateTrade(t)) \/ GuardForgets \/ UNCHANGED vars
  BY <1>2 DEF CreateTrade, GuardForgets, vars, Answered, Key
<1>. QED BY <1>1, <1>2 DEF Next

LEMMA InsertAloneStep == TypeInv /\ InsertAlone /\ [Next]_vars => InsertAlone'
<1> SUFFICES ASSUME TypeInv, InsertAlone, [Next]_vars PROVE InsertAlone'
  OBVIOUS
<1>1. ASSUME NEW s \in Sessions,
             LoadForReview(s) \/ Resolve(s) \/ Waiting(s) \/ Running(s) \/ Abort(s)
      PROVE  InsertAlone'
  <2>1. \A r \in Sessions \ {s} : session'[r] = session[r] /\ Key(r)' = Key(r)
    BY <1>1, OthersUnchanged
  <2>2. ASSUME session'[s].step \in Inserting
        PROVE  /\ executions'[Key(s)'] = None /\ Key(s)' = Key(s)
               /\ \A r \in Sessions \ {s} : session[r].step \in Inserting => Key(r) # Key(s)
    <3>1. InsertExecution(s) \/ CompleteExecution(s)
      BY <1>1, <2>2, Effect DEF Moves, Idle, Inserting, Waiting, Running
    <3>2. Key(s)' = Key(s) /\ UNCHANGED executions
      <4>1. Key(s)' = Key(s)
        BY <2>2, <3>1, Effect DEF Moves, Idle, Inserting
      <4>2. UNCHANGED executions
        BY <3>1 DEF InsertExecution, CompleteExecution
      <4>. QED BY <4>1, <4>2
    <3>3. CASE InsertExecution(s)
      <4>1. ~Finish(s)
        BY <2>2, UpdateMoves DEF Finish, Idle, Inserting
      <4>. QED BY <3>2, <3>3, <4>1 DEF InsertExecution, KeyFree, Inserting
    <3>4. CASE CompleteExecution(s)
      BY <3>2, <3>4 DEF CompleteExecution, At, Inserting, InsertAlone
    <3>. QED BY <3>1, <3>3, <3>4
  <2>3. ASSUME NEW r \in Sessions \ {s}, session'[r].step \in Inserting
        PROVE  executions'[Key(r)'] = None
    <3>1. executions[Key(r)] = None
      BY <2>1, <2>3 DEF InsertAlone
    <3>2. CASE CommitExecution(s)
      <4>1. Key(s) # Key(r)
        BY <2>1, <2>3, <3>2 DEF InsertAlone, CommitExecution, At, Inserting
      <4>. QED BY <2>1, <3>1, <3>2, <4>1 DEF CommitExecution, TypeInv, TypeOK
    <3>. QED BY <1>1, <2>1, <3>1, <3>2, Writers
  <2>. QED BY <2>1, <2>2, <2>3 DEF InsertAlone
<1>2. CASE (\E t \in Trades : CreateTrade(t)) \/ GuardForgets \/ UNCHANGED vars
  BY <1>2 DEF CreateTrade, GuardForgets, vars, InsertAlone, Key
<1>. QED BY <1>1, <1>2 DEF Next

\* What the commit of the second transaction writes.
LEMMA ExecutionWritten ==
  ASSUME TypeInv, OutcomeInv, NEW s \in Sessions, CommitExecution(s)
  PROVE  /\ Key(s) \in Keys
         /\ executions[Key(s)] = None
         /\ results[Key(s)] = CanonicalStatus(session[s].answer)
         /\ executions' = [executions EXCEPT ![Key(s)] = session[s].answer]
         /\ UNCHANGED results
<1>1. Key(s) \in Keys
  BY KeyType DEF CommitExecution, At, TypeInv, TradeKnown, Known
<1>. QED BY <1>1 DEF CommitExecution, At, OutcomeInv, Answered, Answering, InsertAlone, Inserting

LEMMA ExecutionTellsResultStep ==
  TypeInv /\ OrderInv /\ OutcomeInv /\ [Next]_vars => ExecutionTellsResult'
<1> SUFFICES ASSUME TypeInv, OrderInv, OutcomeInv, [Next]_vars, NEW k \in Keys,
                    executions'[k] # None
             PROVE  CanonicalStatus(executions'[k]) = results'[k]
  BY DEF ExecutionTellsResult
<1>1. ASSUME NEW s \in Sessions, CommitExecution(s)
      PROVE  CanonicalStatus(executions'[k]) = results'[k]
  BY <1>1, ExecutionWritten DEF OutcomeInv, ExecutionTellsResult, TypeInv, TypeOK
<1>2. CASE UNCHANGED executions
  <2>1. CanonicalStatus(executions[k]) = results[k]
    BY <1>2 DEF OutcomeInv, ExecutionTellsResult
  <2>2. results[k] # None
    BY <2>1, CanonicalStatusType, NoneIsNoStatus
  <2>. QED BY <1>2, <2>1, <2>2, ResultsFinal
<1>. QED BY <1>1, <1>2, Writers DEF Next, CreateTrade, GuardForgets, vars

LEMMA OutcomeInit == Init => OutcomeInv
BY DEF Init, OutcomeInv, Answered, InsertAlone, ExecutionTellsResult, Idle, Answering, Inserting

\* What every reachable state satisfies.
Inv == TypeInv /\ OrderInv /\ OutcomeInv

LEMMA InvHolds == Spec => []Inv
<1>1. Init => Inv
  BY TypeInit, OrderInit, OutcomeInit DEF Inv
<1>2. Inv /\ [Next]_vars => Inv'
  BY TypeStep, RowHeldStep, ResultOpenStep, ClearedKeyStep, OrdersStep,
     AnsweredStep, InsertAloneStep, ExecutionTellsResultStep
  DEF Inv, OrderInv, OutcomeInv
<1>. QED BY <1>1, <1>2, PTL DEF Spec

\* The executions row and the canonical result of a key never disagree, also
\* when one request called the adapter and another one wrote the row.
THEOREM ExecutionsTellResults == Spec => []ExecutionTellsResult
BY InvHolds, PTL DEF Inv, OutcomeInv

\* No committed result and no committed execution is ever rewritten.
THEOREM OutcomesStayFinal == Spec => OutcomesAreFinal
<1>1. Inv /\ [Next]_vars =>
        [\A k \in Keys : /\ results[k] # None => results'[k] = results[k]
                         /\ executions[k] # None => executions'[k] = executions[k]
          ]_<<results, executions>>
  <2> SUFFICES ASSUME Inv, [Next]_vars, NEW k \in Keys
               PROVE  /\ results[k] # None => results'[k] = results[k]
                      /\ executions[k] # None => executions'[k] = executions[k]
    OBVIOUS
  <2>1. results[k] # None => results'[k] = results[k]
    BY ResultsFinal DEF Inv
  <2>2. ASSUME NEW s \in Sessions, CommitExecution(s), executions[k] # None
        PROVE  executions'[k] = executions[k]
    BY <2>2, ExecutionWritten DEF Inv, TypeInv, TypeOK
  <2>3. executions[k] # None => executions'[k] = executions[k]
    BY <2>2, Writers DEF Next, CreateTrade, GuardForgets, vars
  <2>. QED BY <2>1, <2>3
<1>. QED BY <1>1, InvHolds, PTL DEF Spec, OutcomesAreFinal

-----------------------------------------------------------------------------
(***************************************************************************)
(* What consumers of the outbox and readers of reviewed_trades can rely    *)
(* on: announced outcomes, trades marked EXECUTED, and, as long as only    *)
(* one request runs at a time, the lifecycle of a trade.                   *)
(***************************************************************************)

-----------------------------------------------------------------------------
(* What a session is about to write *)

\* A review writes what was asked for, a completed execution what its answer
\* stands for.
Target(x) ==
  /\ x.step \in Reviewing => x.target \in ReviewStatuses
  /\ x.step = "completing" => x.target = CompletionTarget(x.answer)

Targeted == \A s \in Sessions : Target(session[s])

LEMMA TargetedInit == Init => Targeted
BY DEF Init, Targeted, Target, Idle, Reviewing

\* A session that placed its order, or was spared that, has an answer.
HasAnswer == {"placed", "decided"} \cup Answering

AnswerGiven == \A s \in Sessions : session[s].step \in HasAnswer => session[s].answer # None

LEMMA AnswerGivenInit == Init => AnswerGiven
BY DEF Init, AnswerGiven, Idle, HasAnswer, Answering

LEMMA AnswerGivenStep == TypeInv /\ AnswerGiven /\ [Next]_vars => AnswerGiven'
<1> SUFFICES ASSUME TypeInv, AnswerGiven, [Next]_vars PROVE AnswerGiven'
  OBVIOUS
<1>1. ASSUME NEW s \in Sessions,
             LoadForReview(s) \/ Resolve(s) \/ Waiting(s) \/ Running(s) \/ Abort(s)
      PROVE  AnswerGiven'
  <2>0. session[s] \in SessionState
    BY DEF TypeInv, TypeOK
  <2>1. \A r \in Sessions \ {s} : session'[r].step \in HasAnswer => session'[r].answer # None
    BY <1>1, OthersUnchanged DEF AnswerGiven
  <2>2. ASSUME session'[s].step \in HasAnswer PROVE session'[s].answer # None
    <3>1. \/ LookUpResult(s) \/ EvaluateGuard(s) \/ PlaceOrder(s) \/ MarkExecuted(s)
          \/ CommitResult(s) \/ Reload(s) \/ InsertExecution(s) \/ CompleteExecution(s)
      BY <1>1, <2>2, Effect DEF Moves, Idle, HasAnswer, Answering, Waiting, Running
    <3>2. ASSUME NEW step, NEW a \in Answers,
                 Update(s, [session[s] EXCEPT !.step = step, !.answer = a])
          PROVE  session'[s].answer # None
      BY <2>0, <3>2, UpdateMoves, NoneIsNoStatus DEF SessionState
    <3>3. CASE LookUpResult(s)
      <4>1. Key(s) \in Keys
        BY <3>3, KeyType DEF LookUpResult, At, TypeInv, TradeKnown, Known
      <4>2. ~Goto(s, "saved")
        BY <2>0, <2>2, UpdateMoves DEF Goto, HasAnswer, Answering, SessionState
      <4>. QED BY <3>2, <3>3, <4>1, <4>2, LegacyStatusRoundTrip DEF LookUpResult, TypeInv, TypeOK
    <3>4. CASE EvaluateGuard(s)
      <4>1. ~Goto(s, "cleared")
        BY <2>0, <2>2, UpdateMoves DEF Goto, HasAnswer, Answering, SessionState
      <4>. QED BY <3>2, <3>4, <4>1 DEF EvaluateGuard, Answers, Blocked
    <3>5. CASE PlaceOrder(s)
      BY <2>0, <3>2, <3>5, ConstantsAssumption DEF PlaceOrder, SessionState
    <3>6. CASE MarkExecuted(s)
      <4>1. session'[s].answer = session[s].answer
        BY <2>0, <3>6, UpdateMoves DEF MarkExecuted, Goto, SessionState
      <4>. QED BY <3>6, <4>1 DEF MarkExecuted, At, HasAnswer, AnswerGiven
    <3>7. CASE CommitResult(s) \/ Reload(s) \/ InsertExecution(s) \/ CompleteExecution(s)
      <4>1. session'[s].answer = session[s].answer
        BY <2>2, <3>7, AnswerKept DEF Idle, HasAnswer, Answering
      <4>. QED BY <3>7, <4>1 DEF CommitResult, Reload, InsertExecution, CompleteExecution, At,
               HasAnswer, Answering, AnswerGiven
    <3>. QED BY <3>1, <3>3, <3>4, <3>5, <3>6, <3>7
  <2>. QED BY <2>1, <2>2 DEF AnswerGiven
<1>2. CASE (\E t \in Trades : CreateTrade(t)) \/ GuardForgets \/ UNCHANGED vars
  BY <1>2 DEF CreateTrade, GuardForgets, vars, AnswerGiven
<1>. QED BY <1>1, <1>2 DEF Next

LEMMA TargetedStep == TypeInv /\ Targeted /\ [Next]_vars => Targeted'
<1> SUFFICES ASSUME TypeInv, Targeted, [Next]_vars PROVE Targeted'
  OBVIOUS
<1>1. ASSUME NEW s \in Sessions,
             LoadForReview(s) \/ Resolve(s) \/ Waiting(s) \/ Running(s) \/ Abort(s)
      PROVE  Targeted'
  <2>0. session[s] \in SessionState
    BY DEF TypeInv, TypeOK
  <2>1. \A r \in Sessions \ {s} : Target(session'[r])
    BY <1>1, OthersUnchanged DEF Targeted
  <2>2. ASSUME session'[s].step \in Reviewing \cup {"completing"} PROVE Target(session'[s])
    <3>1. LoadForReview(s) \/ WriteReview(s) \/ CompleteExecution(s)
      BY <1>1, <2>2, Effect DEF Moves, Idle, Reviewing, Waiting, Running
    <3>2. CASE LoadForReview(s)
      <4>1. PICK t \in Trades, target \in ReviewStatuses : Begin(s, "reviewing", t, "PAPER", target)
        BY <3>2 DEF LoadForReview
      <4>2. session'[s].target = target /\ session'[s].step = "reviewing"
        BY <4>1, UpdateMoves DEF Begin
      <4>. QED BY <4>2 DEF Target, Reviewing
    <3>3. CASE WriteReview(s)
      <4>1. session'[s].target = session[s].target /\ session'[s].step = "reviewed"
        BY <2>0, <3>3, UpdateMoves DEF WriteReview, Goto, SessionState
      <4>. QED BY <3>3, <4>1 DEF Target, Targeted, WriteReview, At, Reviewing
    <3>4. CASE CompleteExecution(s)
      <4>1. /\ session'[s].target = CompletionTarget(session[s].answer)
            /\ session'[s].answer = session[s].answer /\ session'[s].step = "completing"
        BY <2>0, <3>4, UpdateMoves DEF CompleteExecution, SessionState
      <4>. QED BY <4>1 DEF Target, Reviewing
    <3>. QED BY <3>1, <3>2, <3>3, <3>4
  <2>3. Target(session'[s])
    BY <2>2 DEF Target
  <2>. QED BY <2>1, <2>3 DEF Targeted
<1>2. CASE (\E t \in Trades : CreateTrade(t)) \/ GuardForgets \/ UNCHANGED vars
  BY <1>2 DEF CreateTrade, GuardForgets, vars, Targeted
<1>. QED BY <1>1, <1>2 DEF Next

\* How a step changes the executions, the events and the statuses.
LEMMA Written ==
  ASSUME TypeInv, Targeted, [Next]_vars
  PROVE  \/ UNCHANGED <<executions, events>>
         \/ \E s \in Sessions : CommitResult(s) /\ UNCHANGED executions
         \/ \E s \in Sessions : CommitExecution(s)
BY ZenonT(60) DEF Next, CreateTrade, GuardForgets, vars, LoadForReview, Resolve, Waiting, Running, Abort,
   WriteReview, ClaimTrade, InsertExecution, CompleteExecution, CommitReview, CheckDuplicate,
   LookUpResult, EvaluateGuard, PlaceOrder, MarkExecuted, CommitResult, Reload,
   AbandonExecution, BreakDeadlock

-----------------------------------------------------------------------------
(* Announcements *)

\* Every result was announced when it was committed.
ResultsAnnounced ==
  \A k \in Keys : results[k] # None => <<"trade.execute.requested", k>> \in events

\* An outcome that was announced is that of the executions row.
OutcomesBacked ==
  \A k \in Keys, e \in {"trade.executed", "trade.execution_rejected"} :
    <<e, k>> \in events =>
      executions[k] # None /\ e = OutcomeEvent(CompletionTarget(executions[k]))

AnnouncedInv == ResultsAnnounced /\ OutcomesBacked

LEMMA AnnouncedInit == Init => AnnouncedInv
BY DEF Init, AnnouncedInv, ResultsAnnounced, OutcomesBacked

LEMMA AnnouncedStep ==
  Inv /\ Targeted /\ AnswerGiven /\ AnnouncedInv /\ [Next]_vars => AnnouncedInv'
<1> SUFFICES ASSUME Inv, Targeted, AnswerGiven, AnnouncedInv, [Next]_vars PROVE AnnouncedInv'
  OBVIOUS
<1>0. TypeInv
  BY DEF Inv
<1>1. ASSUME NEW s \in Sessions, CommitResult(s) PROVE AnnouncedInv'
  <2>1. Key(s) \in Keys
    BY <1>0, <1>1, KeyType DEF CommitResult, At, TypeInv, TradeKnown, Known
  <2>2. /\ results' = [results EXCEPT ![Key(s)] = CanonicalStatus(session[s].answer)]
        /\ events' = events \cup {<<"trade.execute.requested", Key(s)>>}
        /\ executions' = executions
    BY <1>1 DEF CommitResult
  <2>3. ResultsAnnounced'
    BY <1>0, <2>2 DEF AnnouncedInv, ResultsAnnounced, TypeInv, TypeOK
  <2>4. OutcomesBacked'
    BY <2>2 DEF AnnouncedInv, OutcomesBacked
  <2>. QED BY <2>3, <2>4 DEF AnnouncedInv
<1>2. ASSUME NEW s \in Sessions, CommitExecution(s) PROVE AnnouncedInv'
  <2>. DEFINE a == session[s].answer
              e == OutcomeEvent(session[s].target)
  <2>1. /\ Key(s) \in Keys /\ executions[Key(s)] = None
        /\ executions' = [executions EXCEPT ![Key(s)] = a] /\ results' = results
    BY <1>2, ExecutionWritten DEF Inv
  <2>2. events' = events \cup {<<e, Key(s)>>}
    BY <1>2 DEF CommitExecution
  <2>3. e = OutcomeEvent(CompletionTarget(a))
    BY <1>2 DEF CommitExecution, At, Targeted, Target
  <2>4. a # None
    BY <1>2 DEF CommitExecution, At, AnswerGiven, HasAnswer, Answering
  <2>. HIDE DEF a, e
  <2>5. ResultsAnnounced'
    BY <2>1, <2>2 DEF AnnouncedInv, ResultsAnnounced
  <2>6. ASSUME NEW k \in Keys, NEW f \in {"trade.executed", "trade.execution_rejected"},
               <<f, k>> \in events'
        PROVE  executions'[k] # None /\ f = OutcomeEvent(CompletionTarget(executions'[k]))
    <3>1. CASE k = Key(s)
      <4>1. executions'[k] = a
        BY <1>0, <2>1, <3>1 DEF TypeInv, TypeOK
      <4>2. <<f, k>> \notin events
        BY <2>1, <3>1 DEF AnnouncedInv, OutcomesBacked
      <4>3. f = e
        BY <2>2, <2>6, <4>2
      <4>. QED BY <2>3, <2>4, <4>1, <4>3
    <3>2. CASE k # Key(s)
      <4>1. executions'[k] = executions[k] /\ <<f, k>> \in events
        BY <1>0, <2>1, <2>2, <2>6, <3>2 DEF TypeInv, TypeOK
      <4>. QED BY <4>1 DEF AnnouncedInv, OutcomesBacked
    <3>. QED BY <3>1, <3>2
  <2>. QED BY <2>5, <2>6 DEF AnnouncedInv, OutcomesBacked
<1>3. CASE UNCHANGED <<executions, events>>
  <2>1. ASSUME NEW k \in Keys, results'[k] # None PROVE results[k] # None \/ \E s \in Sessions : CommitResult(s)
    BY <2>1, Writers DEF Next, CreateTrade, GuardForgets, vars
  <2>. QED BY <1>1, <1>3, <2>1 DEF AnnouncedInv, ResultsAnnounced, OutcomesBacked
<1>. QED BY <1>0, <1>1, <1>2, <1>3, Written

\* Consumers never hear two outcomes of one execution, nor an outcome whose
\* request was not announced.
THEOREM AnnouncementsNeverConflict == Spec => []AnnouncementsAgree
<1>1. Init => Targeted /\ AnswerGiven /\ AnnouncedInv
  BY TargetedInit, AnswerGivenInit, AnnouncedInit
<1>2. Inv /\ Targeted /\ AnswerGiven /\ AnnouncedInv /\ [Next]_vars
        => (Targeted /\ AnswerGiven /\ AnnouncedInv)'
  BY TargetedStep, AnswerGivenStep, AnnouncedStep DEF Inv
<1>3. Inv /\ AnnouncedInv => AnnouncementsAgree
  <2> SUFFICES ASSUME Inv, AnnouncedInv PROVE AnnouncementsAgree
    OBVIOUS
  <2>1. ASSUME NEW k \in Keys, executions[k] # None PROVE results[k] # None
    BY <2>1, CanonicalStatusType, NoneIsNoStatus DEF Inv, OutcomeInv, ExecutionTellsResult
  <2>. QED BY <2>1 DEF AnnouncedInv, ResultsAnnounced, OutcomesBacked, AnnouncementsAgree
<1>. QED BY <1>1, <1>2, <1>3, InvHolds, PTL DEF Spec

-----------------------------------------------------------------------------
(* Executed trades *)

\* A trade is EXECUTED by the commit of a successful execution, if nobody asks
\* for that status by hand, and that execution stays.
THEOREM ExecutedTradesAreBacked ==
  ASSUME "EXECUTED" \notin CreateStatuses, "EXECUTED" \notin ReviewStatuses
  PROVE  Spec => []ExecutedIsBacked
<1>1. Init => Targeted /\ ExecutedIsBacked
  BY TargetedInit DEF Init, ExecutedIsBacked
<1>2. ASSUME Inv, Targeted, ExecutedIsBacked, [Next]_vars PROVE ExecutedIsBacked'
  <2>0. TypeInv
    BY <1>2 DEF Inv
  <2>1. ASSUME NEW t \in Trades, NEW m \in Modes, executions[<<t, m>>] \in Successful
        PROVE  executions'[<<t, m>>] \in Successful
    <3>1. <<t, m>> \in Keys /\ executions[<<t, m>>] # None
      BY <2>1 DEF Keys, Successful, None
    <3>2. ASSUME NEW s \in Sessions, CommitExecution(s)
          PROVE  executions'[<<t, m>>] = executions[<<t, m>>]
      BY <1>2, <2>0, <3>1, <3>2, ExecutionWritten DEF Inv, TypeInv, TypeOK
    <3>. QED BY <1>2, <2>0, <2>1, <3>2, Written
  <2>2. ASSUME NEW t \in Trades, status'[t] = "EXECUTED", status[t] # "EXECUTED"
        PROVE  \E m \in Modes : executions'[<<t, m>>] \in Successful
    <3>1. \/ \E s \in Sessions : CommitReview(s) \/ CommitResult(s) \/ CommitExecution(s)
          \/ \E x \in Trades : CreateTrade(x)
      BY <1>2, <2>2 DEF Next, GuardForgets, vars, LoadForReview, Resolve, Waiting, Running,
         Abort, WriteReview, ClaimTrade, InsertExecution, CompleteExecution, CheckDuplicate,
         LookUpResult, EvaluateGuard, PlaceOrder, MarkExecuted, Reload, AbandonExecution,
         BreakDeadlock
    <3>2. ASSUME NEW s \in Sessions, CommitReview(s) PROVE FALSE
      <4>1. session[s].target \in ReviewStatuses
        BY <1>2, <3>2 DEF CommitReview, At, Targeted, Target, Reviewing
      <4>. QED BY <2>0, <2>2, <3>2, <4>1 DEF CommitReview, TypeInv, TypeOK
    <3>3. ASSUME NEW s \in Sessions, CommitResult(s) PROVE FALSE
      BY <2>0, <2>2, <3>3 DEF CommitResult, TypeInv, TypeOK
    <3>4. ASSUME NEW x \in Trades, CreateTrade(x) PROVE FALSE
      BY <2>0, <2>2, <3>4 DEF CreateTrade, TypeInv, TypeOK
    <3>5. ASSUME NEW s \in Sessions, CommitExecution(s)
          PROVE  \E m \in Modes : executions'[<<t, m>>] \in Successful
      <4>1. session[s].trade = t /\ session[s].target = "EXECUTED"
        BY <2>0, <2>2, <3>5 DEF CommitExecution, TypeInv, TypeOK
      <4>2. session[s].answer \in Successful
        BY <1>2, <3>5, <4>1 DEF CommitExecution, At, Targeted, Target, CompletionTarget
      <4>3. Key(s) \in Keys /\ executions' = [executions EXCEPT ![Key(s)] = session[s].answer]
        BY <1>2, <3>5, ExecutionWritten DEF Inv
      <4>4. executions'[Key(s)] \in Successful
        BY <2>0, <4>2, <4>3 DEF TypeInv, TypeOK
      <4>5. session[s].mode \in Modes /\ Key(s) = <<t, session[s].mode>>
        BY <2>0, <4>1 DEF Key, TypeInv, TypeOK, SessionState
      <4>. QED BY <4>4, <4>5
    <3>. QED BY <3>1, <3>2, <3>3, <3>4, <3>5
  <2>. QED BY <1>2, <2>1, <2>2 DEF ExecutedIsBacked
<1>3. Inv /\ Targeted /\ [Next]_vars => Targeted'
  BY TargetedStep DEF Inv
<1>. QED BY <1>1, <1>2, <1>3, InvHolds, PTL DEF Spec

-----------------------------------------------------------------------------
(* The lifecycle *)

Requested == "EXECUTE_REQUESTED"

\* What a request makes of the trade it has read: a review has validated its target,
\* a claim has moved the copy to EXECUTE_REQUESTED.
Sees(x) ==
  /\ x.step = "reviewing" => x.target \in AllowedTransitions[x.seen]
  /\ x.step \in Claiming \cup {"committed"} => x.seen = Requested
  /\ x.step # "idle" => status[x.trade] # "ABSENT"

Seen == \A s \in Sessions : Sees(session[s])

\* A flushed review holds the row.
ReviewHeld == \A s \in Sessions : At(s, "reviewed") => rowLock[session[s].trade] = s

LifeInv == Seen /\ ReviewHeld

LEMMA LifeInit == Init => LifeInv
BY DEF Init, LifeInv, Seen, Sees, ReviewHeld, Idle, At, Claiming

\* No trade disappears.
LEMMA TradesStay ==
  ASSUME TypeInv, [Next]_vars, NEW t \in Trades, status[t] # "ABSENT" PROVE status'[t] # "ABSENT"
<1>1. "ABSENT" \notin ReviewedTradeStatus
  BY DEF ReviewedTradeStatus
<1>2. ASSUME NEW u \in Trades, CreateTrade(u) PROVE status'[t] # "ABSENT"
  BY <1>1, <1>2, ConstantsAssumption DEF CreateTrade, TypeInv, TypeOK
<1>3. ASSUME NEW s \in Sessions, CommitReview(s) \/ CommitResult(s) \/ CommitExecution(s)
      PROVE  status'[t] # "ABSENT"
  <2>1. session[s].trade \in Trades
    BY <1>3 DEF CommitReview, CommitResult, CommitExecution, At, TypeInv, TradeKnown, Known
  <2>2. CASE CommitResult(s)
    BY <2>1, <2>2 DEF CommitResult, TypeInv, TypeOK
  <2>3. CASE CommitReview(s) \/ CommitExecution(s)
    <3>1. session[s].target \in ReviewedTradeStatus
      BY <2>3 DEF CommitReview, CommitExecution, At, TypeInv, TradeKnown, Known
    <3>. QED BY <1>1, <2>1, <2>3, <3>1 DEF CommitReview, CommitExecution, TypeInv, TypeOK
  <2>. QED BY <1>3, <2>2, <2>3
<1>4. UNCHANGED status => status'[t] # "ABSENT"
  OBVIOUS
<1>. QED
  BY <1>2, <1>3, <1>4 DEF Next, GuardForgets, vars, LoadForReview, Resolve, Waiting, Running,
     Abort, WriteReview, ClaimTrade, InsertExecution, CompleteExecution, CheckDuplicate,
     LookUpResult, EvaluateGuard, PlaceOrder, MarkExecuted, Reload, AbandonExecution,
     BreakDeadlock

\* What a step leaves of what a session saw.
LEMMA SeesKept ==
  ASSUME TypeInv, [Next]_vars, NEW s \in Sessions, Sees(session[s]), session[s].step # "idle",
         session'[s].step # "reviewing", session'[s].seen = session[s].seen,
         session'[s].trade = session[s].trade,
         session'[s].step \in Claiming \cup {"committed"}
           => session[s].step \in Claiming \cup {"committed"}
  PROVE  Sees(session[s])'
<1>1. session[s].trade \in Trades
  BY DEF TypeInv, TradeKnown, Known
<1>2. status'[session[s].trade] # "ABSENT"
  BY <1>1, TradesStay DEF Sees
<1>. QED BY <1>2 DEF Sees

LEMMA SeesStep ==
  ASSUME TypeInv, [Next]_vars, NEW s \in Sessions, Sees(session[s])
  PROVE  Sees(session[s])'
<1>. DEFINE x == session[s]
<1>0. x \in SessionState
  BY DEF TypeInv, TypeOK
<1>1. session'[s] = Idle => Sees(session[s])'
  BY DEF Sees, Idle, Claiming
<1>2. ASSUME session'[s] = x PROVE Sees(session[s])'
  <2>1. x.step # "idle" => status'[x.trade] # "ABSENT"
    BY TradesStay DEF Sees, TypeInv, TradeKnown, Known
  <2>. QED BY <1>2, <2>1 DEF Sees
<1>3. CASE LoadForReview(s)
  <2>1. PICK t \in Trades, target \in ReviewStatuses :
          /\ status[t] # "ABSENT" /\ target # status[t] /\ CanTransition(status[t], target)
          /\ Begin(s, "reviewing", t, "PAPER", target)
    BY <1>3 DEF LoadForReview
  <2>2. /\ session'[s].step = "reviewing" /\ session'[s].trade = t /\ session'[s].target = target
        /\ session'[s].seen = status[t]
    BY <2>1, UpdateMoves DEF Begin
  <2>. QED BY <1>3, <2>1, <2>2 DEF LoadForReview, Sees, CanTransition, Claiming
<1>4. CASE Resolve(s)
  <2>1. PICK t \in Trades, m \in Modes : status[t] = "APPROVED" /\ Begin(s, "resolved", t, m, None)
    BY <1>4 DEF Resolve
  <2>2. session'[s].step = "resolved" /\ session'[s].trade = t
    BY <2>1, UpdateMoves DEF Begin
  <2>. QED BY <1>4, <2>1, <2>2 DEF Resolve, Sees, Claiming
<1>5. ASSUME NEW step, Goto(s, step), step # "reviewing", x.step # "idle",
             step \in Claiming \cup {"committed"} => x.step \in Claiming \cup {"committed"}
      PROVE  Sees(session[s])'
  <2>1. session'[s] = [x EXCEPT !.step = step]
    BY <1>5, UpdateMoves DEF Goto
  <2>2. session'[s].step = step /\ session'[s].seen = x.seen /\ session'[s].trade = x.trade
    BY <1>0, <2>1 DEF SessionState
  <2>. QED BY <1>5, <2>2, SeesKept
<1>6. ASSUME NEW step, NEW a, Update(s, [x EXCEPT !.step = step, !.answer = a]), step # "reviewing",
             x.step # "idle", step \in Claiming \cup {"committed"} => x.step \in Claiming \cup {"committed"}
      PROVE  Sees(session[s])'
  <2>1. session'[s] = [x EXCEPT !.step = step, !.answer = a]
    BY <1>6, UpdateMoves
  <2>2. session'[s].step = step /\ session'[s].seen = x.seen /\ session'[s].trade = x.trade
    BY <1>0, <2>1 DEF SessionState
  <2>. QED BY <1>6, <2>2, SeesKept
<1>7. CASE WriteReview(s) \/ CheckDuplicate(s) \/ MarkExecuted(s) \/ InsertExecution(s) \/ CommitResult(s)
  <2>1. Finish(s) => session'[s] = Idle
    BY UpdateMoves DEF Finish
  <2>. QED BY <1>1, <1>5, <1>7, <2>1 DEF WriteReview, CheckDuplicate, MarkExecuted, InsertExecution,
           CommitResult, At, Claiming
<1>8. CASE CommitReview(s) \/ AbandonExecution(s) \/ CommitExecution(s) \/ Abort(s) \/ BreakDeadlock(s)
  BY <1>1, <1>8, Effect
<1>9. CASE ClaimTrade(s)
  <2>1. session'[s] = [x EXCEPT !.step = "claimed", !.seen = Requested]
    BY <1>9, UpdateMoves DEF ClaimTrade, Requested
  <2>2. session'[s].step = "claimed" /\ session'[s].trade = x.trade /\ session'[s].seen = Requested
    BY <1>0, <2>1 DEF SessionState
  <2>3. x.trade \in Trades /\ x.step # "idle"
    BY <1>9 DEF ClaimTrade, At, TypeInv, TradeKnown, Known
  <2>. QED BY <2>2, <2>3, TradesStay DEF Sees
<1>10. CASE LookUpResult(s)
  <2>1. \/ Goto(s, "saved")
        \/ \E a : Update(s, [x EXCEPT !.step = "answered", !.answer = a])
    BY <1>10 DEF LookUpResult
  <2>. QED BY <1>5, <1>6, <1>10, <2>1 DEF LookUpResult, At, Claiming
<1>11. CASE EvaluateGuard(s)
  BY <1>5, <1>6, <1>11 DEF EvaluateGuard, At, Claiming
<1>12. CASE PlaceOrder(s)
  <2>1. PICK a \in AdapterAnswers[x.mode] : Update(s, [x EXCEPT !.step = "placed", !.answer = a])
    BY <1>12 DEF PlaceOrder
  <2>. QED BY <1>6, <1>12, <2>1 DEF PlaceOrder, At, Claiming
<1>13. CASE Reload(s)
  <2>1. session'[s].step = "answered" /\ session'[s].trade = x.trade
    BY <1>0, <1>13, UpdateMoves DEF Reload, SessionState
  <2>2. x.trade \in Trades /\ x.step # "idle"
    BY <1>13 DEF Reload, At, TypeInv, TradeKnown, Known
  <2>. QED BY <2>1, <2>2, TradesStay DEF Sees, Claiming
<1>14. CASE CompleteExecution(s)
  <2>1. session'[s].step = "completing" /\ session'[s].trade = x.trade
    BY <1>14, Effect DEF Moves
  <2>2. x.trade \in Trades /\ x.step # "idle"
    BY <1>14 DEF CompleteExecution, At, TypeInv, TradeKnown, Known
  <2>. QED BY <2>1, <2>2, TradesStay DEF Sees, Claiming
<1>15. ASSUME NEW r \in Sessions, r # s,
              LoadForReview(r) \/ Resolve(r) \/ Waiting(r) \/ Running(r) \/ Abort(r)
       PROVE  Sees(session[s])'
  BY <1>2, <1>15, OthersUnchanged
<1>16. CASE (\E t \in Trades : CreateTrade(t)) \/ GuardForgets \/ UNCHANGED vars
  BY <1>2, <1>16 DEF CreateTrade, GuardForgets, vars
<1>. QED
  BY <1>3, <1>4, <1>7, <1>8, <1>9, <1>10, <1>11, <1>12, <1>13, <1>14, <1>15, <1>16
     DEF Next, Waiting, Running

LEMMA ReviewHeldStep ==
  ASSUME TypeInv, RowHeld, ReviewHeld, [Next]_vars PROVE ReviewHeld'
<1>1. ASSUME NEW s \in Sessions,
             LoadForReview(s) \/ Resolve(s) \/ Waiting(s) \/ Running(s) \/ Abort(s)
      PROVE  ReviewHeld'
  <2>1. ASSUME NEW r \in Sessions \ {s}, At(r, "reviewed")' PROVE rowLock'[session'[r].trade] = r
    <3>1. session'[r] = session[r] /\ session[r].trade \in Trades
      BY <1>1, <2>1, OthersUnchanged DEF At, TypeInv, TradeKnown, Known
    <3>. QED BY <1>1, <2>1, <3>1, LocksKept DEF ReviewHeld, At
  <2>2. ASSUME At(s, "reviewed")' PROVE rowLock'[session'[s].trade] = s
    <3>1. WriteReview(s)
      BY <1>1, <2>2, Effect DEF Moves, Idle, At, Waiting, Running
    <3>2. session'[s].trade = session[s].trade /\ session[s].trade \in Trades
      BY <3>1, Effect DEF Moves, TypeInv, TradeKnown, Known
    <3>. QED BY <3>1, <3>2 DEF WriteReview, LockRow, TypeInv, TypeOK
  <2>. QED BY <2>1, <2>2 DEF ReviewHeld
<1>2. CASE (\E t \in Trades : CreateTrade(t)) \/ GuardForgets \/ UNCHANGED vars
  BY <1>2 DEF CreateTrade, GuardForgets, vars, ReviewHeld, At
<1>. QED BY <1>1, <1>2 DEF Next

LEMMA LifeInvHolds == Spec => [](Inv /\ LifeInv)
<1>1. Inv /\ LifeInv /\ [Next]_vars => LifeInv'
  <2>. SUFFICES ASSUME Inv, LifeInv, [Next]_vars PROVE LifeInv'
    OBVIOUS
  <2>1. TypeInv /\ RowHeld
    BY DEF Inv, OrderInv
  <2>2. \A s \in Sessions : Sees(session[s])'
    BY <2>1, SeesStep DEF LifeInv, Seen
  <2>3. Seen'
    BY <2>2 DEF Seen
  <2>4. ReviewHeld'
    BY <2>1, ReviewHeldStep DEF LifeInv
  <2>. QED BY <2>3, <2>4 DEF LifeInv
<1>. QED BY <1>1, LifeInit, InvHolds, PTL DEF Spec

-----------------------------------------------------------------------------
(* The refinement *)

Copies == [s \in Sessions |-> Copy(s)]

\* A step of one session is one of its copy.
LEMMA CopiesMove ==
  ASSUME TypeInv, NEW s \in Sessions,
         LoadForReview(s) \/ Resolve(s) \/ Waiting(s) \/ Running(s) \/ Abort(s)
  PROVE  Copies' = [Copies EXCEPT ![s] = Copy(s)']
<1>1. \A r \in Sessions \ {s} : Copy(r)' = Copy(r)
  BY OthersUnchanged DEF Copy
<1>. QED BY <1>1 DEF Copies

\* What a step makes of one copy, as a step of the lifecycle.
LEMMA Reads ==
  ASSUME NEW s \in Sessions, Copies' = [Copies EXCEPT ![s] = Copy(s)'], UNCHANGED status,
         NEW t \in Trades, status[t] # "ABSENT", Copy(s)' = <<t, status[t]>>
  PROVE  Lifecycle!Read(s, t)
BY DEF Lifecycle!Read, Copies

LEMMA Moved ==
  ASSUME NEW s \in Sessions, Copies' = [Copies EXCEPT ![s] = Copy(s)'], UNCHANGED status,
         NEW t, NEW from, NEW to, Copy(s) = <<t, from>>, Copy(s)' = <<t, to>>,
         CanTransition(from, to)
  PROVE  Lifecycle!Move(s) \/ UNCHANGED <<status, Copies>>
<1>1. CASE from = to
  BY <1>1 DEF Copies
<1>2. CASE to \in AllowedTransitions[from]
  <2>1. Copies[s] = <<t, from>> /\ Copies[s] # <<>> /\ Copies[s][1] = t /\ Copies[s][2] = from
    BY DEF Copies
  <2>2. Copies' = [Copies EXCEPT ![s] = <<Copies[s][1], to>>]
    BY <2>1
  <2>3. Lifecycle!AllowedTransitions = AllowedTransitions
    BY DEF Lifecycle!AllowedTransitions, AllowedTransitions,
       Lifecycle!ReviewedTradeStatus, ReviewedTradeStatus
  <2>4. to \in Lifecycle!AllowedTransitions[Copies[s][2]]
    BY <1>2, <2>1, <2>3
  <2>5. \E st \in Lifecycle!AllowedTransitions[Copies[s][2]] :
          Copies' = [Copies EXCEPT ![s] = <<Copies[s][1], st>>]
    BY <2>2, <2>4
  <2>. QED BY <2>1, <2>5 DEF Lifecycle!Move, Lifecycle!NoCopy, Copies
<1>. QED BY <1>1, <1>2 DEF CanTransition

LEMMA Saved ==
  ASSUME NEW s \in Sessions, Copies' = [Copies EXCEPT ![s] = Copy(s)'],
         NEW t, NEW st, Copy(s) = <<t, st>>, Copy(s)' \in {<<t, st>>, <<>>},
         status' = [status EXCEPT ![t] = st]
  PROVE  Lifecycle!Save(s)
<1>1. Copies[s] = <<t, st>> /\ Copies[s] # <<>> /\ Copies[s][1] = t /\ Copies[s][2] = st
  BY DEF Copies
<1>2. status' = [status EXCEPT ![Copies[s][1]] = Copies[s][2]]
  BY <1>1
<1>3. \E kept \in {Copies[s], <<>>} : Copies' = [Copies EXCEPT ![s] = kept]
  BY <1>1
<1>. QED BY <1>1, <1>2, <1>3 DEF Lifecycle!Save, Lifecycle!NoCopy, Copies

LEMMA Dropped ==
  ASSUME NEW s \in Sessions, Copies' = [Copies EXCEPT ![s] = Copy(s)'], UNCHANGED status,
         Copy(s)' = <<>>
  PROVE  Lifecycle!Drop(s)
BY DEF Lifecycle!Drop, Lifecycle!NoCopy, Copies

\* A step of one session moves its copy as the lifecycle does.
LEMMA SessionStep ==
  ASSUME Inv, LifeInv, NEW s \in Sessions,
         LoadForReview(s) \/ Resolve(s) \/ Waiting(s) \/ Running(s) \/ Abort(s)
  PROVE  Lifecycle!Next \/ UNCHANGED <<status, Copies>>
<1>. DEFINE x == session[s]
            y == session'[s]
            Step == Lifecycle!Next \/ UNCHANGED <<status, Copies>>
<1>0. /\ TypeInv /\ Sees(x) /\ x \in SessionState
      /\ Copies' = [Copies EXCEPT ![s] = Copy(s)']
  BY CopiesMove DEF Inv, LifeInv, Seen, TypeInv, TypeOK
<1>1. x.step # "idle" => x.trade \in Trades /\ status[x.trade] # "ABSENT"
  BY <1>0 DEF TypeInv, TradeKnown, Known, Sees
<1>2. x.step \notin {"idle", "reviewed", "completing"} => Copy(s) = <<x.trade, x.seen>>
  BY DEF Copy
<1>3. x.step \in {"reviewed", "completing"} => Copy(s) = <<x.trade, x.target>>
  BY DEF Copy
<1>4. y = Idle => Copy(s)' = <<>>
  BY DEF Copy, Idle
<1>5. y.step \notin {"idle", "reviewed", "completing"} => Copy(s)' = <<y.trade, y.seen>>
  BY DEF Copy
<1>6. y.step \in {"reviewed", "completing"} => Copy(s)' = <<y.trade, y.target>>
  BY DEF Copy
<1>7. ASSUME NEW t \in Trades, Lifecycle!Read(s, t) PROVE Step
  BY <1>7 DEF Lifecycle!Next
<1>8. Lifecycle!Move(s) \/ Lifecycle!Save(s) \/ Lifecycle!Drop(s) => Step
  BY DEF Lifecycle!Next
<1>9. ASSUME UNCHANGED status, y = Idle PROVE Step
  BY <1>0, <1>4, <1>8, <1>9, Dropped
<1>10. ASSUME UNCHANGED status, x.step \notin {"idle", "reviewed", "completing"},
              y.step \notin {"idle", "reviewed", "completing"}, y.trade = x.trade, y.seen = x.seen
       PROVE  Step
  <2>1. Copy(s)' = Copy(s)
    BY <1>2, <1>5, <1>10
  <2>. QED BY <1>0, <1>10, <2>1 DEF Copies
<1>11. ASSUME NEW step, Goto(s, step)
       PROVE  y.step = step /\ y.trade = x.trade /\ y.seen = x.seen /\ y.target = x.target
  <2>1. y = [x EXCEPT !.step = step]
    BY <1>0, <1>11, UpdateMoves DEF Goto
  <2>. QED BY <1>0, <2>1 DEF SessionState
<1>12. ASSUME NEW step, NEW a, Update(s, [x EXCEPT !.step = step, !.answer = a])
       PROVE  y.step = step /\ y.trade = x.trade /\ y.seen = x.seen
  <2>1. y = [x EXCEPT !.step = step, !.answer = a]
    BY <1>0, <1>12, UpdateMoves
  <2>. QED BY <1>0, <2>1 DEF SessionState
<1>13. Finish(s) => y = Idle
  BY <1>0, UpdateMoves DEF Finish
<1>20. CASE LoadForReview(s)
  <2>1. PICK t \in Trades, target \in ReviewStatuses :
          status[t] # "ABSENT" /\ Begin(s, "reviewing", t, "PAPER", target)
    BY <1>20 DEF LoadForReview
  <2>2. y.step = "reviewing" /\ y.trade = t /\ y.seen = status[t]
    BY <1>0, <2>1, UpdateMoves DEF Begin
  <2>3. UNCHANGED status /\ Copy(s)' = <<t, status[t]>>
    BY <1>5, <1>20, <2>2 DEF LoadForReview
  <2>. QED BY <1>0, <1>7, <2>1, <2>3, Reads
<1>21. CASE Resolve(s)
  <2>1. PICK t \in Trades, m \in Modes : status[t] = "APPROVED" /\ Begin(s, "resolved", t, m, None)
    BY <1>21 DEF Resolve
  <2>2. y.step = "resolved" /\ y.trade = t /\ y.seen = status[t]
    BY <1>0, <2>1, UpdateMoves DEF Begin
  <2>3. UNCHANGED status /\ Copy(s)' = <<t, status[t]>>
    BY <1>5, <1>21, <2>2 DEF Resolve
  <2>4. status[t] # "ABSENT"
    BY <2>1
  <2>. QED BY <1>0, <1>7, <2>3, <2>4, Reads
<1>22. CASE WriteReview(s)
  <2>1. /\ x.step = "reviewing" /\ Goto(s, "reviewed") /\ UNCHANGED status
    BY <1>22 DEF WriteReview, At
  <2>2. Copy(s) = <<x.trade, x.seen>> /\ Copy(s)' = <<x.trade, x.target>>
    BY <1>2, <1>6, <1>11, <2>1
  <2>3. CanTransition(x.seen, x.target)
    BY <1>0, <2>1 DEF Sees, CanTransition
  <2>. QED BY <1>0, <1>8, <2>1, <2>2, <2>3, Moved
<1>23. CASE CommitReview(s)
  <2>1. /\ x.step = "reviewed" /\ y = Idle
        /\ status' = [status EXCEPT ![x.trade] = x.target]
    BY <1>13, <1>23 DEF CommitReview, At
  <2>. QED BY <1>0, <1>3, <1>4, <1>8, <2>1, Saved
<1>24. CASE CheckDuplicate(s) \/ InsertExecution(s)
  BY <1>9, <1>10, <1>11, <1>13, <1>24 DEF CheckDuplicate, InsertExecution, At
<1>25. CASE ClaimTrade(s)
  <2>1. /\ x.step = "checked" /\ UNCHANGED status /\ CanTransition(x.seen, Requested)
        /\ y = [x EXCEPT !.step = "claimed", !.seen = Requested]
    BY <1>0, <1>25, UpdateMoves DEF ClaimTrade, At, Requested
  <2>2. y.step = "claimed" /\ y.trade = x.trade /\ y.seen = Requested
    BY <1>0, <2>1 DEF SessionState
  <2>3. Copy(s) = <<x.trade, x.seen>> /\ Copy(s)' = <<x.trade, Requested>>
    BY <1>2, <1>5, <2>1, <2>2
  <2>. QED BY <1>0, <1>8, <2>1, <2>3, Moved
<1>26. CASE LookUpResult(s) \/ EvaluateGuard(s)
  <2>1. /\ x.step \in {"claimed", "saved"} /\ UNCHANGED status
        /\ \E step \in {"answered", "saved", "cleared", "decided"} :
             Goto(s, step) \/ \E a : Update(s, [x EXCEPT !.step = step, !.answer = a])
    BY <1>26 DEF LookUpResult, EvaluateGuard, At
  <2>2. y.step \in {"answered", "saved", "cleared", "decided"} /\ y.trade = x.trade /\ y.seen = x.seen
    BY <1>11, <1>12, <2>1
  <2>. QED BY <1>10, <2>1, <2>2
<1>27. CASE PlaceOrder(s)
  <2>1. /\ x.step = "cleared" /\ UNCHANGED status
        /\ \E a : Update(s, [x EXCEPT !.step = "placed", !.answer = a])
    BY <1>27 DEF PlaceOrder, At
  <2>. QED BY <1>10, <1>12, <2>1
<1>28. CASE MarkExecuted(s)
  BY <1>10, <1>11, <1>28 DEF MarkExecuted, At
<1>29. CASE CommitResult(s)
  <2>1. /\ x.step = "decided" /\ x.seen = Requested /\ y.step = "committed"
        /\ y.trade = x.trade /\ y.seen = x.seen
        /\ status' = [status EXCEPT ![x.trade] = Requested]
    BY <1>0, <1>11, <1>29 DEF CommitResult, At, Sees, Claiming, Requested
  <2>2. Copy(s) = <<x.trade, Requested>> /\ Copy(s)' = <<x.trade, Requested>>
    BY <1>2, <1>5, <2>1
  <2>. QED BY <1>0, <1>8, <2>1, <2>2, Saved
<1>30. CASE Reload(s)
  <2>1. /\ x.step = "committed" /\ UNCHANGED status
        /\ y = [x EXCEPT !.step = "answered",
                         !.seen = IF ExpireOnCommit THEN status[x.trade] ELSE x.seen]
    BY <1>0, <1>30, UpdateMoves DEF Reload, At
  <2>2. /\ y.step = "answered" /\ y.trade = x.trade
        /\ y.seen = IF ExpireOnCommit THEN status[x.trade] ELSE x.seen
    BY <1>0, <2>1 DEF SessionState
  <2>3. CASE ExpireOnCommit
    <3>1. Copy(s)' = <<x.trade, status[x.trade]>>
      BY <1>5, <2>2, <2>3
    <3>. QED BY <1>0, <1>1, <1>7, <2>1, <3>1, Reads
  <2>4. CASE ~ExpireOnCommit
    BY <1>10, <2>1, <2>2, <2>4
  <2>. QED BY <2>3, <2>4
<1>31. CASE CompleteExecution(s)
  <2>1. PICK target : /\ CanTransition(x.seen, target)
                      /\ Update(s, [x EXCEPT !.step = "completing", !.target = target])
    BY <1>31 DEF CompleteExecution, Completable
  <2>2. y = [x EXCEPT !.step = "completing", !.target = target]
    BY <1>0, <2>1, UpdateMoves
  <2>3. x.step = "inserted" /\ y.step = "completing" /\ y.trade = x.trade /\ y.target = target
    BY <1>0, <1>31, <2>2 DEF SessionState, CompleteExecution, At
  <2>4. UNCHANGED status /\ Copy(s) = <<x.trade, x.seen>> /\ Copy(s)' = <<x.trade, target>>
    BY <1>2, <1>6, <1>31, <2>3 DEF CompleteExecution
  <2>. QED BY <1>0, <1>8, <2>1, <2>4, Moved
<1>32. CASE CommitExecution(s)
  <2>1. /\ x.step = "completing" /\ y = Idle
        /\ status' = IF rowLock[x.trade] = s THEN [status EXCEPT ![x.trade] = x.target] ELSE status
    BY <1>13, <1>32 DEF CommitExecution, At
  <2>2. CASE rowLock[x.trade] = s
    BY <1>0, <1>3, <1>4, <1>8, <2>1, <2>2, Saved
  <2>3. CASE rowLock[x.trade] # s
    BY <1>9, <2>1, <2>3
  <2>. QED BY <2>2, <2>3
<1>33. CASE AbandonExecution(s) \/ Abort(s) \/ BreakDeadlock(s)
  BY <1>9, <1>13, <1>33 DEF AbandonExecution, Abort, BreakDeadlock
<1>. QED
  BY <1>20, <1>21, <1>22, <1>23, <1>24, <1>25, <1>26, <1>27, <1>28, <1>29, <1>30, <1>31, <1>32,
     <1>33 DEF Waiting, Running

LEMMA LifecycleStep ==
  ASSUME Inv, LifeInv, [Next]_vars PROVE [Lifecycle!Next]_<<status, Copies>>
<1>1. CASE \E t \in Trades : CreateTrade(t)
  <2>1. PICK t \in Trades : CreateTrade(t)
    BY <1>1
  <2>2. status[t] = "ABSENT" /\ UNCHANGED Copies
    BY <2>1 DEF CreateTrade, Copies, Copy
  <2>3. \E st \in Lifecycle!ReviewedTradeStatus : status' = [status EXCEPT ![t] = st]
    BY <2>1, ConstantsAssumption DEF CreateTrade, Lifecycle!ReviewedTradeStatus, ReviewedTradeStatus
  <2>4. Lifecycle!Create(t)
    BY <2>2, <2>3 DEF Lifecycle!Create, Copies
  <2>. QED BY <2>4 DEF Lifecycle!Next
<1>2. CASE GuardForgets \/ UNCHANGED vars
  BY <1>2 DEF GuardForgets, vars, Copies, Copy
<1>. QED BY <1>1, <1>2, SessionStep DEF Next

\* Requests, however many run at the same time, and whether or not commits expire the
\* objects of a session, implement the lifecycle: a request moves the status it has read
\* along the table (workflow_service.py) and commits nothing but the outcome.
THEOREM LifecycleImplemented == Spec => LifecycleSpec
<1>1. Init => Lifecycle!Init
  BY DEF Init, Lifecycle!Init, Lifecycle!NoCopy, Copy, Idle
<1>2. Inv /\ LifeInv /\ [Next]_vars => [Lifecycle!Next]_<<status, Copies>>
  BY LifecycleStep
<1>3. Copies = [s \in Sessions |-> Copy(s)]
  BY DEF Copies
<1>. QED BY <1>1, <1>2, <1>3, LifeInvHolds, PTL DEF Spec, LifecycleSpec, Lifecycle!Spec, Copies

-----------------------------------------------------------------------------
(* Claims *)

LEMMA ClaimHeld ==
  ASSUME Inv, LifeInv, [Next]_vars, NEW s \in Sessions,
         session[s].step \in Claiming, session'[s].step \in Claiming
  PROVE  status'[session[s].trade] = status[session[s].trade]
<1>. DEFINE t == session[s].trade
<1>0. TypeInv /\ RowHeld /\ t \in Trades /\ rowLock[t] = s /\ status[t] # "ABSENT"
  BY DEF Inv, OrderInv, LifeInv, Seen, Sees, RowHeld, TypeInv, TradeKnown, Known, Claiming
<1>1. ASSUME NEW u \in Trades, CreateTrade(u) PROVE status'[t] = status[t]
  BY <1>0, <1>1 DEF CreateTrade, TypeInv, TypeOK
<1>2. ASSUME NEW r \in Sessions, CommitReview(r) PROVE status'[t] = status[t]
  <2>1. session[r].trade # t
    <3>1. rowLock[session[r].trade] = r /\ session[r].step = "reviewed"
      BY <1>2 DEF CommitReview, At, LifeInv, ReviewHeld
    <3>. QED BY <1>0, <3>1 DEF Claiming
  <2>. QED BY <1>0, <1>2, <2>1 DEF CommitReview, TypeInv, TypeOK
<1>3. ASSUME NEW r \in Sessions, CommitResult(r) PROVE status'[t] = status[t]
  <2>1. r # s
    BY <1>0, <1>3, Effect DEF Moves, Claiming
  <2>2. session[r].step \in Claiming
    BY <1>3 DEF CommitResult, At, Claiming
  <2>3. session[r].trade # t
    BY <1>0, <2>1, <2>2, ClaimExclusive
  <2>. QED BY <1>0, <1>3, <2>3 DEF CommitResult, TypeInv, TypeOK
<1>4. ASSUME NEW r \in Sessions, CommitExecution(r) PROVE status'[t] = status[t]
  <2>1. session[r].step = "completing"
    BY <1>4 DEF CommitExecution, At
  <2>2. r # s
    BY <2>1 DEF Claiming
  <2>. QED BY <1>0, <1>4, <2>2 DEF CommitExecution, TypeInv, TypeOK
<1>. QED
  BY <1>1, <1>2, <1>3, <1>4 DEF Next, GuardForgets, vars, LoadForReview, Resolve, Waiting, Running,
     Abort, WriteReview, ClaimTrade, InsertExecution, CompleteExecution, CheckDuplicate,
     LookUpResult, EvaluateGuard, PlaceOrder, MarkExecuted, Reload, AbandonExecution,
     BreakDeadlock

\* From the flush of a claim to the commit of the result the status of the trade is the
\* claiming session's: a rejection that was validated before commits after the result,
\* or before the claim, where it is overlooked (service.py:673).
THEOREM ClaimsHoldStatus == Spec => ClaimHoldsStatus
<1>1. Inv /\ LifeInv /\ [Next]_vars =>
        [\A s \in Sessions :
           {session[s].step, session'[s].step} \subseteq {"claimed", "saved", "cleared", "placed", "decided"}
             => status'[session[s].trade] = status[session[s].trade]]_vars
  BY ClaimHeld DEF Claiming
<1>. QED BY <1>1, LifeInvHolds, PTL DEF Spec, ClaimHoldsStatus
=============================================================================
