--------------------- MODULE WorkspaceExecution_proofs ---------------------
(***************************************************************************)
(* How far concurrent batches exceed the daily limit and the cooldown of   *)
(* the execution guard, what one allocation leaves of the portfolio limits *)
(* and how much a batch may open, for any sessions, stores, candidates and *)
(* limits.                                                                 *)
(***************************************************************************)
EXTENDS WorkspaceExecution, FiniteSetTheorems, SequenceTheorems, TLAPS

\* Sessions at one of the steps, with a candidate that is counted under k.
Counting(steps, k) == {w \in Sessions : At(w, steps) /\ Counter(w, Current(w)) = k}
Cooled(steps, k)   == {w \in Sessions : At(w, steps) /\ CoolKey(w, Current(w)) = k}

\* Orders on the way to the count, and those that may be placed; orders on the way to
\* their cooldown, and those that may follow one.
Sent(k)   == Cardinality(Counting({"placed", "marked"}, k))
Ready(k)  == Cardinality(Counting({"cleared"}, k))
Placed(k) == Cardinality(Cooled({"placed"}, k))
Past(k)   == Cardinality(Cooled({"counting", "cleared"}, k))

Fields == {"step", "todo", "keys", "rows", "candidate", "quantity", "exhausted"}

\* Enough of the types: what the quantities are does not matter here.
Shape ==
  /\ DOMAIN worker = Sessions
  /\ \A w \in Sessions : DOMAIN worker[w] = Fields
  /\ count \in [Counters -> Nat]
  /\ orders \in [Counters -> Nat] /\ uncounted \in [Counters -> Nat]
  /\ burst \in [CoolKeys -> Nat] /\ unmarked \in [CoolKeys -> Nat]

\* An order is counted, on its way to the count, or lost to it.
OrdersCounted(k) ==
  orders[k] <= count[k] + Sent(k) + uncounted[k]

\* Orders, and those a session may already place.
OrdersLimited(k) ==
  orders[k] + Ready(k) <= DailyLimit + Cardinality(Users(k[1])) - 1 + uncounted[k]

\* Without a cooldown, every order since the last one is about to set it or lost it.
OrdersCool(k) ==
  k \notin cooldown => burst[k] <= Placed(k) + unmarked[k]

\* With one, those that passed the check before it may still follow.
OrdersSlip(k) ==
  k \in cooldown => burst[k] + Past(k) <= Cardinality(Users(k[1])) + unmarked[k]

LimitInv == \A k \in Counters : OrdersCounted(k) /\ OrdersLimited(k)
CoolInv  == \A k \in CoolKeys : OrdersCool(k) /\ OrdersSlip(k)
Inv      == Shape /\ LimitInv /\ CoolInv

\* A session moves to a step; whether with the same candidate is said apart.
Moves(w, step) ==
  /\ DOMAIN worker' = Sessions
  /\ \A v \in Sessions : DOMAIN worker'[v] = Fields
  /\ worker'[w].step = step
  /\ \A v \in Sessions \ {w} : worker'[v] = worker[v]
Keeps(w) == worker'[w].candidate = worker[w].candidate

Bit(b) == IF b THEN 1 ELSE 0

\* The steps the numbers are about.
Tracked == {"counting", "cleared", "placed", "marked"}

-----------------------------------------------------------------------------
(* How a step of one session changes who is counted *)

LEMMA HoldersFinite ==
  ASSUME NEW T, NEW k
  PROVE  /\ IsFiniteSet(Counting(T, k)) /\ Cardinality(Counting(T, k)) \in Nat
         /\ IsFiniteSet(Cooled(T, k)) /\ Cardinality(Cooled(T, k)) \in Nat
         /\ Cardinality(Counting(T, k)') \in Nat /\ Cardinality(Cooled(T, k)') \in Nat
<1>1. Counting(T, k) \in SUBSET Sessions /\ Cooled(T, k) \in SUBSET Sessions
  BY DEF Counting, Cooled
<1>2. Counting(T, k)' \in SUBSET Sessions /\ Cooled(T, k)' \in SUBSET Sessions
  BY DEF Counting, Cooled
<1>. QED BY <1>1, <1>2, FS_Subset, FS_CardinalityType, WorkspaceAssumption

LEMMA SizesAreNumbers ==
  ASSUME NEW k
  PROVE  /\ Sent(k) \in Nat /\ Ready(k) \in Nat /\ Placed(k) \in Nat /\ Past(k) \in Nat
         /\ Sent(k)' \in Nat /\ Ready(k)' \in Nat /\ Placed(k)' \in Nat /\ Past(k)' \in Nat
BY HoldersFinite DEF Sent, Ready, Placed, Past

LEMMA UsersFinite ==
  ASSUME NEW s PROVE IsFiniteSet(Users(s)) /\ Cardinality(Users(s)) \in Nat
<1>1. Users(s) \in SUBSET Sessions
  BY DEF Users
<1>. QED BY <1>1, FS_Subset, FS_CardinalityType, WorkspaceAssumption

\* The cardinality of a set that an element may enter or leave.
LEMMA OneMoves ==
  ASSUME NEW A, NEW B, NEW w, IsFiniteSet(A), \A v : v # w => (v \in A <=> v \in B)
  PROVE  Cardinality(B) = Cardinality(A) - Bit(w \in A) + Bit(w \in B)
<1>1. CASE w \in A /\ w \in B
  <2>1. A = B
    BY <1>1
  <2>. QED BY <1>1, <2>1, FS_CardinalityType DEF Bit
<1>2. CASE w \notin A /\ w \notin B
  <2>1. A = B
    BY <1>2
  <2>. QED BY <1>2, <2>1, FS_CardinalityType DEF Bit
<1>3. CASE w \in A /\ w \notin B
  <2>1. B = A \ {w}
    BY <1>3
  <2>. QED BY <1>3, <2>1, FS_RemoveElement, FS_CardinalityType DEF Bit
<1>4. CASE w \notin A /\ w \in B
  <2>1. B = A \cup {w}
    BY <1>4
  <2>2. Cardinality(B) = Cardinality(A) + 1
    BY <1>4, <2>1, FS_AddElement
  <2>. QED BY <1>4, <2>2, FS_CardinalityType DEF Bit
<1>. QED BY <1>1, <1>2, <1>3, <1>4

LEMMA CountingMoves ==
  ASSUME NEW w \in Sessions, NEW s, NEW T, NEW k, Moves(w, s), s \in T => Keeps(w)
  PROVE  Cardinality(Counting(T, k)')
           = Cardinality(Counting(T, k))
             - Bit(worker[w].step \in T /\ Counter(w, Current(w)) = k)
             + Bit(s \in T /\ Counter(w, Current(w)) = k)
<1>1. \A v : v # w => (v \in Counting(T, k) <=> v \in Counting(T, k)')
  BY DEF Counting, Moves, At, Counter, Current
<1>2. w \in Counting(T, k) <=> worker[w].step \in T /\ Counter(w, Current(w)) = k
  BY DEF Counting, At
<1>3. w \in Counting(T, k)' <=> s \in T /\ Counter(w, Current(w)) = k
  BY DEF Counting, At, Moves, Keeps, Counter, Current
<1>. QED BY <1>1, <1>2, <1>3, OneMoves, HoldersFinite

LEMMA CooledMoves ==
  ASSUME NEW w \in Sessions, NEW s, NEW T, NEW k, Moves(w, s), s \in T => Keeps(w)
  PROVE  Cardinality(Cooled(T, k)')
           = Cardinality(Cooled(T, k))
             - Bit(worker[w].step \in T /\ CoolKey(w, Current(w)) = k)
             + Bit(s \in T /\ CoolKey(w, Current(w)) = k)
<1>1. \A v : v # w => (v \in Cooled(T, k) <=> v \in Cooled(T, k)')
  BY DEF Cooled, Moves, At, CoolKey, Current
<1>2. w \in Cooled(T, k) <=> worker[w].step \in T /\ CoolKey(w, Current(w)) = k
  BY DEF Cooled, At
<1>3. w \in Cooled(T, k)' <=> s \in T /\ CoolKey(w, Current(w)) = k
  BY DEF Cooled, At, Moves, Keeps, CoolKey, Current
<1>. QED BY <1>1, <1>2, <1>3, OneMoves, HoldersFinite

\* How many more orders of a key a step counts, when a session moves to it.
More(w, s, T, mine) == Bit(s \in T /\ mine) - Bit(worker[w].step \in T /\ mine)

LEMMA Sizes ==
  ASSUME NEW w \in Sessions, NEW s, Moves(w, s), s \in Tracked => Keeps(w), NEW k
  PROVE  /\ Sent(k)' = Sent(k) + More(w, s, {"placed", "marked"}, Counter(w, Current(w)) = k)
         /\ Ready(k)' = Ready(k) + More(w, s, {"cleared"}, Counter(w, Current(w)) = k)
         /\ Placed(k)' = Placed(k) + More(w, s, {"placed"}, CoolKey(w, Current(w)) = k)
         /\ Past(k)' = Past(k) + More(w, s, {"counting", "cleared"}, CoolKey(w, Current(w)) = k)
<1>1. ASSUME NEW T, T \subseteq Tracked
      PROVE  /\ Cardinality(Counting(T, k)')
                  = Cardinality(Counting(T, k)) + More(w, s, T, Counter(w, Current(w)) = k)
             /\ Cardinality(Cooled(T, k)')
                  = Cardinality(Cooled(T, k)) + More(w, s, T, CoolKey(w, Current(w)) = k)
  <2>1. s \in T => Keeps(w)
    BY <1>1
  <2>2. Cardinality(Counting(T, k)) \in Nat /\ Cardinality(Cooled(T, k)) \in Nat
    BY HoldersFinite
  <2>. QED BY <2>1, <2>2, CountingMoves, CooledMoves DEF More, Bit
<1>2. /\ {"placed", "marked"} \subseteq Tracked /\ {"cleared"} \subseteq Tracked
      /\ {"placed"} \subseteq Tracked /\ {"counting", "cleared"} \subseteq Tracked
  BY DEF Tracked
<1>. QED BY <1>1, <1>2 DEF Sent, Ready, Placed, Past

-----------------------------------------------------------------------------
(* The steps as moves *)

LEMMA UpdateMoves ==
  ASSUME Shape, NEW w \in Sessions, NEW new, DOMAIN new = Fields, Update(w, new)
  PROVE  Moves(w, new.step) /\ worker'[w] = new
BY DEF Shape, Update, Moves

LEMMA GotoMoves ==
  ASSUME Shape, NEW w \in Sessions, NEW s, Goto(w, s)
  PROVE  Moves(w, s) /\ Keeps(w)
BY DEF Shape, Goto, Update, Moves, Keeps, Fields

LEMMA RecordMoves ==
  ASSUME Shape, NEW w \in Sessions, NEW c, NEW q, NEW st, NEW ex, Record(w, c, q, st, ex)
  PROVE  Moves(w, "next")
BY DEF Shape, Record, Update, Moves, Fields

LEMMA IdleMoves ==
  ASSUME Shape, NEW w \in Sessions, Update(w, Idle)
  PROVE  Moves(w, "idle")
BY DEF Shape, Update, Moves, Fields, Idle

\* A session past its check counts as one of the others that overshoot.
LEMMA CountingRoom ==
  ASSUME NEW w \in Sessions, NEW k, worker[w].step = "counting", Counter(w, Current(w)) = k
  PROVE  Sent(k) + Ready(k) + 1
           <= Cardinality(Users(k[1]))
<1>. DEFINE A == Counting({"placed", "marked"}, k)
            B == Counting({"cleared"}, k)
<1>1. A \cap B = {} /\ w \notin A \cup B
  BY DEF Counting, At
<1>2. (A \cup B) \cup {w} \in SUBSET Users(k[1])
  BY DEF Counting, At, Counter, Users
<1>3. IsFiniteSet(A) /\ IsFiniteSet(B) /\ Cardinality(A) \in Nat /\ Cardinality(B) \in Nat
  BY HoldersFinite
<1>. HIDE DEF A, B
<1>4. Cardinality(A \cup B) = Cardinality(A) + Cardinality(B)
  BY <1>1, <1>3, FS_Union, FS_EmptySet
<1>5. Cardinality((A \cup B) \cup {w}) = Cardinality(A \cup B) + 1
  BY <1>1, <1>3, FS_Union, FS_AddElement
<1>6. Cardinality((A \cup B) \cup {w}) <= Cardinality(Users(k[1]))
  BY <1>2, UsersFinite, FS_Subset
<1>. QED BY <1>4, <1>5, <1>6 DEF A, B, Sent, Ready

\* Every order about to set the cooldown, or to follow it, has a session of its own.
LEMMA CooledRoom ==
  ASSUME NEW k
  PROVE  Placed(k) + Past(k)
           <= Cardinality(Users(k[1]))
<1>. DEFINE A == Cooled({"placed"}, k)
            B == Cooled({"counting", "cleared"}, k)
<1>1. A \cap B = {}
  BY DEF Cooled, At
<1>2. A \cup B \in SUBSET Users(k[1])
  BY DEF Cooled, At, CoolKey, Users
<1>3. IsFiniteSet(A) /\ IsFiniteSet(B) /\ Cardinality(A) \in Nat /\ Cardinality(B) \in Nat
  BY HoldersFinite
<1>. HIDE DEF A, B
<1>4. Cardinality(A \cup B) = Cardinality(A) + Cardinality(B)
  BY <1>1, <1>3, FS_Union, FS_EmptySet
<1>5. Cardinality(A \cup B) <= Cardinality(Users(k[1]))
  BY <1>2, UsersFinite, FS_Subset
<1>. QED BY <1>4, <1>5 DEF A, B, Placed, Past

-----------------------------------------------------------------------------
(* What the numbers of a key may do without breaking the invariant *)

LEMMA BitType == ASSUME NEW b PROVE Bit(b) \in 0 .. 1
BY DEF Bit

\* A table of numbers stays one when one of them grows.
LEMMA OneMore ==
  ASSUME NEW S, NEW f \in [S -> Nat], NEW i
  PROVE  [f EXCEPT ![i] = @ + 1] \in [S -> Nat]
<1>1. [f EXCEPT ![i] = @ + 1] = [k \in S |-> IF k = i THEN f[k] + 1 ELSE f[k]]
  OBVIOUS
<1>2. ASSUME NEW k \in S PROVE (IF k = i THEN f[k] + 1 ELSE f[k]) \in Nat
  OBVIOUS
<1>. QED BY <1>1, <1>2

\* A step that adds no more orders of a key than it explains keeps the limit of the key.
LEMMA LimitKept ==
  ASSUME Shape, Shape', NEW k \in Counters, OrdersCounted(k), OrdersLimited(k),
         orders'[k] - orders[k]
           <= Sent(k)' - Sent(k) + count'[k] - count[k] + uncounted'[k] - uncounted[k],
         orders'[k] - orders[k] + Ready(k)' - Ready(k) <= uncounted'[k] - uncounted[k]
  PROVE  OrdersCounted(k)' /\ OrdersLimited(k)'
<1>1. /\ Sent(k) \in Nat /\ Ready(k) \in Nat
      /\ Sent(k)' \in Nat /\ Ready(k)' \in Nat
      /\ Cardinality(Users(k[1])) \in Nat /\ DailyLimit \in Nat
  BY SizesAreNumbers, UsersFinite, WorkspaceAssumption DEF DailyLimit
<1>2. orders[k] \in Nat /\ count[k] \in Nat /\ uncounted[k] \in Nat
  BY DEF Shape
<1>3. orders'[k] \in Nat /\ count'[k] \in Nat /\ uncounted'[k] \in Nat
  BY DEF Shape, Counters
<1>4. OrdersCounted(k)'
  BY <1>1, <1>2, <1>3 DEF OrdersCounted
<1>5. OrdersLimited(k)'
  BY <1>1, <1>2, <1>3 DEF OrdersLimited, Users, DailyLimit
<1>. QED BY <1>4, <1>5

\* The same of a cooldown that neither begins nor ends.
LEMMA CoolKept ==
  ASSUME Shape, Shape', NEW k \in CoolKeys, OrdersCool(k), OrdersSlip(k),
         k \in cooldown' <=> k \in cooldown,
         k \notin cooldown =>
           burst'[k] - burst[k] <= Placed(k)' - Placed(k) + unmarked'[k] - unmarked[k],
         k \in cooldown =>
           burst'[k] - burst[k] + Past(k)' - Past(k) <= unmarked'[k] - unmarked[k]
  PROVE  OrdersCool(k)' /\ OrdersSlip(k)'
<1>1. /\ Placed(k) \in Nat /\ Past(k) \in Nat
      /\ Placed(k)' \in Nat /\ Past(k)' \in Nat
      /\ Cardinality(Users(k[1])) \in Nat
  BY SizesAreNumbers, UsersFinite
<1>2. burst[k] \in Nat /\ unmarked[k] \in Nat
  BY DEF Shape
<1>3. burst'[k] \in Nat /\ unmarked'[k] \in Nat
  BY DEF Shape, CoolKeys
<1>4. OrdersCool(k)'
  BY <1>1, <1>2, <1>3 DEF OrdersCool
<1>5. OrdersSlip(k)'
  BY <1>1, <1>2, <1>3 DEF OrdersSlip, Users
<1>. QED BY <1>4, <1>5

-----------------------------------------------------------------------------
(* One lemma per kind of step *)

\* Steps of no account.
LEMMA QuietInv ==
  ASSUME Inv, NEW w \in Sessions, NEW s, Moves(w, s),
         worker[w].step \notin Tracked, s \notin Tracked,
         UNCHANGED <<cooldown, count, history>>
  PROVE  Inv'
<1>1. Shape'
  BY DEF Inv, Shape, Moves, history
<1>3. \A k : Sent(k)' = Sent(k) /\ Ready(k)' = Ready(k) /\ Placed(k)' = Placed(k) /\ Past(k)' = Past(k)
  <2>. SUFFICES ASSUME NEW k
       PROVE  Sent(k)' = Sent(k) /\ Ready(k)' = Ready(k) /\ Placed(k)' = Placed(k) /\ Past(k)' = Past(k)
    OBVIOUS
  <2>. QED BY Sizes, SizesAreNumbers DEF More, Bit, Tracked
<1>4. LimitInv'
  BY <1>3 DEF Inv, LimitInv, OrdersCounted, OrdersLimited, Users, DailyLimit, Counters, history
<1>5. CoolInv'
  BY <1>3 DEF Inv, CoolInv, OrdersCool, OrdersSlip, Users, CoolKeys, history
<1>. QED BY <1>1, <1>4, <1>5 DEF Inv

\* The marks were looked at: a session passes only without a cooldown of its key.
LEMMA PassMarksInv ==
  ASSUME Inv, NEW w \in Sessions, worker[w].step = "checking", Goto(w, "counting"),
         CoolKey(w, Current(w)) \notin cooldown,
         UNCHANGED <<cooldown, count, orders, uncounted, burst, unmarked>>
  PROVE  Inv'
<1>1. Moves(w, "counting") /\ Keeps(w)
  BY GotoMoves DEF Inv
<1>2. Shape'
  BY <1>1 DEF Inv, Shape, Moves
<1>3. \A k : /\ Sent(k)' = Sent(k) /\ Ready(k)' = Ready(k)
             /\ Placed(k)' = Placed(k) /\ Past(k)' = Past(k) + Bit(CoolKey(w, Current(w)) = k)
  <2>. SUFFICES ASSUME NEW k
       PROVE  /\ Sent(k)' = Sent(k) /\ Ready(k)' = Ready(k)
              /\ Placed(k)' = Placed(k) /\ Past(k)' = Past(k) + Bit(CoolKey(w, Current(w)) = k)
    OBVIOUS
  <2>. QED BY <1>1, Sizes, SizesAreNumbers DEF More, Bit
<1>4. LimitInv'
  <2>. SUFFICES ASSUME NEW k \in Counters PROVE OrdersCounted(k)' /\ OrdersLimited(k)'
    BY DEF LimitInv, Counters
  <2>1. /\ orders'[k] = orders[k]
        /\ count'[k] = count[k]
        /\ uncounted'[k] = uncounted[k]
    BY DEF Inv, Shape, Bit, Counters
  <2>2. orders[k] \in Nat /\ count[k] \in Nat /\ uncounted[k] \in Nat
    BY DEF Inv, Shape
  <2>3. OrdersCounted(k) /\ OrdersLimited(k)
    BY DEF Inv, LimitInv
  <2>. QED BY <1>2, <1>3, <2>1, <2>2, <2>3, BitType, SizesAreNumbers, LimitKept DEF Inv
<1>5. CoolInv'
  <2>. SUFFICES ASSUME NEW k \in CoolKeys PROVE OrdersCool(k)' /\ OrdersSlip(k)'
    BY DEF CoolInv, CoolKeys
  <2>1. /\ burst'[k] = burst[k]
        /\ unmarked'[k] = unmarked[k]
    BY DEF Inv, Shape, Bit, CoolKeys
  <2>2. k \in cooldown => CoolKey(w, Current(w)) # k
    OBVIOUS
  <2>3. burst[k] \in Nat /\ unmarked[k] \in Nat
    BY DEF Inv, Shape
  <2>. QED BY <1>2, <1>3, <2>1, <2>2, <2>3, SizesAreNumbers, CoolKept DEF Inv, CoolInv, Bit
<1>. QED BY <1>2, <1>4, <1>5 DEF Inv

\* The marks were not seen: the order that may follow is known as unmarked.
LEMMA PassBlindlyInv ==
  ASSUME Inv, NEW w \in Sessions, worker[w].step = "checking", Goto(w, "counting"),
         unmarked' = [unmarked EXCEPT ![CoolKey(w, Current(w))] = @ + 1],
         UNCHANGED <<cooldown, count, orders, uncounted, burst>>
  PROVE  Inv'
<1>1. Moves(w, "counting") /\ Keeps(w)
  BY GotoMoves DEF Inv
<1>2. Shape'
  <2>1. unmarked' \in [CoolKeys -> Nat]
    BY OneMore DEF Inv, Shape
  <2>. QED BY <1>1, <2>1 DEF Inv, Shape, Moves
<1>3. \A k : /\ Sent(k)' = Sent(k) /\ Ready(k)' = Ready(k)
             /\ Placed(k)' = Placed(k) /\ Past(k)' = Past(k) + Bit(CoolKey(w, Current(w)) = k)
  <2>. SUFFICES ASSUME NEW k
       PROVE  /\ Sent(k)' = Sent(k) /\ Ready(k)' = Ready(k)
              /\ Placed(k)' = Placed(k) /\ Past(k)' = Past(k) + Bit(CoolKey(w, Current(w)) = k)
    OBVIOUS
  <2>. QED BY <1>1, Sizes, SizesAreNumbers DEF More, Bit
<1>4. LimitInv'
  <2>. SUFFICES ASSUME NEW k \in Counters PROVE OrdersCounted(k)' /\ OrdersLimited(k)'
    BY DEF LimitInv, Counters
  <2>1. /\ orders'[k] = orders[k]
        /\ count'[k] = count[k]
        /\ uncounted'[k] = uncounted[k]
    BY DEF Inv, Shape, Bit, Counters
  <2>2. orders[k] \in Nat /\ count[k] \in Nat /\ uncounted[k] \in Nat
    BY DEF Inv, Shape
  <2>3. OrdersCounted(k) /\ OrdersLimited(k)
    BY DEF Inv, LimitInv
  <2>. QED BY <1>2, <1>3, <2>1, <2>2, <2>3, BitType, SizesAreNumbers, LimitKept DEF Inv
<1>5. CoolInv'
  <2>. SUFFICES ASSUME NEW k \in CoolKeys PROVE OrdersCool(k)' /\ OrdersSlip(k)'
    BY DEF CoolInv, CoolKeys
  <2>1. /\ burst'[k] = burst[k]
        /\ unmarked'[k] = unmarked[k] + Bit(CoolKey(w, Current(w)) = k)
    BY DEF Inv, Shape, Bit, CoolKeys
  <2>2. burst[k] \in Nat /\ unmarked[k] \in Nat
    BY DEF Inv, Shape
  <2>. QED BY <1>2, <1>3, <2>1, <2>2, BitType, SizesAreNumbers, CoolKept DEF Inv, CoolInv
<1>. QED BY <1>2, <1>4, <1>5 DEF Inv

\* The count was below the limit: with all that are between their check and the count,
\* it is below the limit and one for each other session.
LEMMA ClearInv ==
  ASSUME Inv, NEW w \in Sessions, worker[w].step = "counting", Goto(w, "cleared"),
         count[Counter(w, Current(w))] < DailyLimit,
         UNCHANGED <<cooldown, count, orders, uncounted, burst, unmarked>>
  PROVE  Inv'
<1>1. Moves(w, "cleared") /\ Keeps(w)
  BY GotoMoves DEF Inv
<1>2. Shape'
  BY <1>1 DEF Inv, Shape, Moves
<1>3. \A k : /\ Sent(k)' = Sent(k) /\ Ready(k)' = Ready(k) + Bit(Counter(w, Current(w)) = k)
             /\ Placed(k)' = Placed(k) /\ Past(k)' = Past(k)
  <2>. SUFFICES ASSUME NEW k
       PROVE  /\ Sent(k)' = Sent(k) /\ Ready(k)' = Ready(k) + Bit(Counter(w, Current(w)) = k)
              /\ Placed(k)' = Placed(k) /\ Past(k)' = Past(k)
    OBVIOUS
  <2>. QED BY <1>1, Sizes, SizesAreNumbers DEF More, Bit
<1>4. LimitInv'
  <2>. SUFFICES ASSUME NEW k \in Counters PROVE OrdersCounted(k)' /\ OrdersLimited(k)'
    BY DEF LimitInv, Counters
  <2>1. /\ orders'[k] = orders[k]
        /\ count'[k] = count[k]
        /\ uncounted'[k] = uncounted[k]
    BY DEF Inv, Shape, Bit, Counters
  <2>2. CASE Counter(w, Current(w)) = k
    <3>1. OrdersCounted(k)
      BY DEF Inv, LimitInv
    <3>2. /\ Sent(k) \in Nat /\ Ready(k) \in Nat
          /\ Cardinality(Users(k[1])) \in Nat /\ DailyLimit \in Nat
      BY SizesAreNumbers, UsersFinite, WorkspaceAssumption DEF DailyLimit
    <3>3. orders[k] \in Nat /\ count[k] \in Nat /\ uncounted[k] \in Nat /\ count[k] < DailyLimit
      BY <2>2 DEF Inv, Shape
    <3>4. Sent(k) + Ready(k) + 1 <= Cardinality(Users(k[1]))
      BY <2>2, CountingRoom
    <3>5. Ready(k)' = Ready(k) + 1
      BY <1>3, <2>2 DEF Bit
    <3>6. OrdersCounted(k)'
      BY <1>3, <2>1, <3>1, <3>2, <3>3 DEF OrdersCounted
    <3>7. OrdersLimited(k)'
      BY <2>1, <3>1, <3>2, <3>3, <3>4, <3>5 DEF OrdersCounted, OrdersLimited, Users, DailyLimit
    <3>. QED BY <3>6, <3>7
  <2>3. CASE Counter(w, Current(w)) # k
    <3>1. Ready(k)' = Ready(k)
      BY <1>3, <2>3, SizesAreNumbers DEF Bit
    <3>2. orders[k] \in Nat /\ count[k] \in Nat /\ uncounted[k] \in Nat
      BY DEF Inv, Shape
    <3>. QED BY <1>2, <1>3, <2>1, <3>1, <3>2, SizesAreNumbers, LimitKept DEF Inv, LimitInv
  <2>. QED BY <2>2, <2>3
<1>5. CoolInv'
  <2>. SUFFICES ASSUME NEW k \in CoolKeys PROVE OrdersCool(k)' /\ OrdersSlip(k)'
    BY DEF CoolInv, CoolKeys
  <2>1. /\ burst'[k] = burst[k]
        /\ unmarked'[k] = unmarked[k]
    BY DEF Inv, Shape, Bit, CoolKeys
  <2>2. burst[k] \in Nat /\ unmarked[k] \in Nat
    BY DEF Inv, Shape
  <2>. QED BY <1>2, <1>3, <2>1, <2>2, BitType, SizesAreNumbers, CoolKept DEF Inv, CoolInv
<1>. QED BY <1>2, <1>4, <1>5 DEF Inv

\* A session that is refused follows no more.
LEMMA RefuseInv ==
  ASSUME Inv, NEW w \in Sessions, worker[w].step = "counting", Goto(w, "refused"),
         UNCHANGED <<cooldown, count, orders, uncounted, burst, unmarked>>
  PROVE  Inv'
<1>1. Moves(w, "refused") /\ Keeps(w)
  BY GotoMoves DEF Inv
<1>2. Shape'
  BY <1>1 DEF Inv, Shape, Moves
<1>3. \A k : /\ Sent(k)' = Sent(k) /\ Ready(k)' = Ready(k)
             /\ Placed(k)' = Placed(k) /\ Past(k)' = Past(k) - Bit(CoolKey(w, Current(w)) = k)
  <2>. SUFFICES ASSUME NEW k
       PROVE  /\ Sent(k)' = Sent(k) /\ Ready(k)' = Ready(k)
              /\ Placed(k)' = Placed(k) /\ Past(k)' = Past(k) - Bit(CoolKey(w, Current(w)) = k)
    OBVIOUS
  <2>. QED BY <1>1, Sizes, SizesAreNumbers DEF More, Bit
<1>4. LimitInv'
  <2>. SUFFICES ASSUME NEW k \in Counters PROVE OrdersCounted(k)' /\ OrdersLimited(k)'
    BY DEF LimitInv, Counters
  <2>1. /\ orders'[k] = orders[k]
        /\ count'[k] = count[k]
        /\ uncounted'[k] = uncounted[k]
    BY DEF Inv, Shape, Bit, Counters
  <2>2. orders[k] \in Nat /\ count[k] \in Nat /\ uncounted[k] \in Nat
    BY DEF Inv, Shape
  <2>3. OrdersCounted(k) /\ OrdersLimited(k)
    BY DEF Inv, LimitInv
  <2>. QED BY <1>2, <1>3, <2>1, <2>2, <2>3, BitType, SizesAreNumbers, LimitKept DEF Inv
<1>5. CoolInv'
  <2>. SUFFICES ASSUME NEW k \in CoolKeys PROVE OrdersCool(k)' /\ OrdersSlip(k)'
    BY DEF CoolInv, CoolKeys
  <2>1. /\ burst'[k] = burst[k]
        /\ unmarked'[k] = unmarked[k]
    BY DEF Inv, Shape, Bit, CoolKeys
  <2>2. burst[k] \in Nat /\ unmarked[k] \in Nat
    BY DEF Inv, Shape
  <2>. QED BY <1>2, <1>3, <2>1, <2>2, BitType, SizesAreNumbers, CoolKept DEF Inv, CoolInv
<1>. QED BY <1>2, <1>4, <1>5 DEF Inv

\* No count was seen: the order that may follow is known as uncounted.
LEMMA ClearBlindlyInv ==
  ASSUME Inv, NEW w \in Sessions, worker[w].step = "counting", Goto(w, "cleared"),
         uncounted' = [uncounted EXCEPT ![Counter(w, Current(w))] = @ + 1],
         UNCHANGED <<cooldown, count, orders, burst, unmarked>>
  PROVE  Inv'
<1>1. Moves(w, "cleared") /\ Keeps(w)
  BY GotoMoves DEF Inv
<1>2. Shape'
  <2>1. uncounted' \in [Counters -> Nat]
    BY OneMore DEF Inv, Shape
  <2>. QED BY <1>1, <2>1 DEF Inv, Shape, Moves
<1>3. \A k : /\ Sent(k)' = Sent(k) /\ Ready(k)' = Ready(k) + Bit(Counter(w, Current(w)) = k)
             /\ Placed(k)' = Placed(k) /\ Past(k)' = Past(k)
  <2>. SUFFICES ASSUME NEW k
       PROVE  /\ Sent(k)' = Sent(k) /\ Ready(k)' = Ready(k) + Bit(Counter(w, Current(w)) = k)
              /\ Placed(k)' = Placed(k) /\ Past(k)' = Past(k)
    OBVIOUS
  <2>. QED BY <1>1, Sizes, SizesAreNumbers DEF More, Bit
<1>4. LimitInv'
  <2>. SUFFICES ASSUME NEW k \in Counters PROVE OrdersCounted(k)' /\ OrdersLimited(k)'
    BY DEF LimitInv, Counters
  <2>1. /\ orders'[k] = orders[k]
        /\ count'[k] = count[k]
        /\ uncounted'[k] = uncounted[k] + Bit(Counter(w, Current(w)) = k)
    BY DEF Inv, Shape, Bit, Counters
  <2>2. orders[k] \in Nat /\ count[k] \in Nat /\ uncounted[k] \in Nat
    BY DEF Inv, Shape
  <2>3. OrdersCounted(k) /\ OrdersLimited(k)
    BY DEF Inv, LimitInv
  <2>. QED BY <1>2, <1>3, <2>1, <2>2, <2>3, BitType, SizesAreNumbers, LimitKept DEF Inv
<1>5. CoolInv'
  <2>. SUFFICES ASSUME NEW k \in CoolKeys PROVE OrdersCool(k)' /\ OrdersSlip(k)'
    BY DEF CoolInv, CoolKeys
  <2>1. /\ burst'[k] = burst[k]
        /\ unmarked'[k] = unmarked[k]
    BY DEF Inv, Shape, Bit, CoolKeys
  <2>2. burst[k] \in Nat /\ unmarked[k] \in Nat
    BY DEF Inv, Shape
  <2>. QED BY <1>2, <1>3, <2>1, <2>2, BitType, SizesAreNumbers, CoolKept DEF Inv, CoolInv
<1>. QED BY <1>2, <1>4, <1>5 DEF Inv

\* The order itself moves from those that may follow to those that are out.
LEMMA OrderInv ==
  ASSUME Inv, NEW w \in Sessions, worker[w].step = "cleared", Goto(w, "placed"),
         orders' = [orders EXCEPT ![Counter(w, Current(w))] = @ + 1],
         burst' = [burst EXCEPT ![CoolKey(w, Current(w))] = @ + 1],
         UNCHANGED <<cooldown, count, uncounted, unmarked>>
  PROVE  Inv'
<1>1. Moves(w, "placed") /\ Keeps(w)
  BY GotoMoves DEF Inv
<1>2. Shape'
  <2>1. orders' \in [Counters -> Nat]
    BY OneMore DEF Inv, Shape
  <2>2. burst' \in [CoolKeys -> Nat]
    BY OneMore DEF Inv, Shape
  <2>. QED BY <1>1, <2>1, <2>2 DEF Inv, Shape, Moves
<1>3. \A k : /\ Sent(k)' = Sent(k) + Bit(Counter(w, Current(w)) = k)
             /\ Ready(k)' = Ready(k) - Bit(Counter(w, Current(w)) = k)
             /\ Placed(k)' = Placed(k) + Bit(CoolKey(w, Current(w)) = k)
             /\ Past(k)' = Past(k) - Bit(CoolKey(w, Current(w)) = k)
  <2>. SUFFICES ASSUME NEW k
       PROVE  /\ Sent(k)' = Sent(k) + Bit(Counter(w, Current(w)) = k)
              /\ Ready(k)' = Ready(k) - Bit(Counter(w, Current(w)) = k)
              /\ Placed(k)' = Placed(k) + Bit(CoolKey(w, Current(w)) = k)
              /\ Past(k)' = Past(k) - Bit(CoolKey(w, Current(w)) = k)
    OBVIOUS
  <2>. QED BY <1>1, Sizes, SizesAreNumbers DEF More, Bit
<1>4. LimitInv'
  <2>. SUFFICES ASSUME NEW k \in Counters PROVE OrdersCounted(k)' /\ OrdersLimited(k)'
    BY DEF LimitInv, Counters
  <2>1. /\ orders'[k] = orders[k] + Bit(Counter(w, Current(w)) = k)
        /\ count'[k] = count[k]
        /\ uncounted'[k] = uncounted[k]
    BY DEF Inv, Shape, Bit, Counters
  <2>2. orders[k] \in Nat /\ count[k] \in Nat /\ uncounted[k] \in Nat
    BY DEF Inv, Shape
  <2>3. OrdersCounted(k) /\ OrdersLimited(k)
    BY DEF Inv, LimitInv
  <2>4. orders'[k] - orders[k]
          <= Sent(k)' - Sent(k) + count'[k] - count[k] + uncounted'[k] - uncounted[k]
    BY <1>3, <2>1, <2>2, BitType, SizesAreNumbers
  <2>5. orders'[k] - orders[k] + Ready(k)' - Ready(k) <= uncounted'[k] - uncounted[k]
    BY <1>3, <2>1, <2>2, BitType, SizesAreNumbers
  <2>. QED BY <1>2, <2>3, <2>4, <2>5, LimitKept DEF Inv
<1>5. CoolInv'
  <2>. SUFFICES ASSUME NEW k \in CoolKeys PROVE OrdersCool(k)' /\ OrdersSlip(k)'
    BY DEF CoolInv, CoolKeys
  <2>1. /\ burst'[k] = burst[k] + Bit(CoolKey(w, Current(w)) = k)
        /\ unmarked'[k] = unmarked[k]
    BY DEF Inv, Shape, Bit, CoolKeys
  <2>2. burst[k] \in Nat /\ unmarked[k] \in Nat
    BY DEF Inv, Shape
  <2>. QED BY <1>2, <1>3, <2>1, <2>2, BitType, SizesAreNumbers, CoolKept DEF Inv, CoolInv
<1>. QED BY <1>2, <1>4, <1>5 DEF Inv

\* The cooldown begins: those that passed their check before it may still follow.
LEMMA MarkInv ==
  ASSUME Inv, NEW w \in Sessions, worker[w].step = "placed", Goto(w, "marked"),
         cooldown' = cooldown \cup {CoolKey(w, Current(w))},
         UNCHANGED <<count, orders, uncounted, burst, unmarked>>
  PROVE  Inv'
<1>1. Moves(w, "marked") /\ Keeps(w)
  BY GotoMoves DEF Inv
<1>2. Shape'
  BY <1>1 DEF Inv, Shape, Moves
<1>3. \A k : /\ Sent(k)' = Sent(k) /\ Ready(k)' = Ready(k)
             /\ Placed(k)' = Placed(k) - Bit(CoolKey(w, Current(w)) = k) /\ Past(k)' = Past(k)
  <2>. SUFFICES ASSUME NEW k
       PROVE  /\ Sent(k)' = Sent(k) /\ Ready(k)' = Ready(k)
              /\ Placed(k)' = Placed(k) - Bit(CoolKey(w, Current(w)) = k) /\ Past(k)' = Past(k)
    OBVIOUS
  <2>. QED BY <1>1, Sizes, SizesAreNumbers DEF More, Bit
<1>4. LimitInv'
  <2>. SUFFICES ASSUME NEW k \in Counters PROVE OrdersCounted(k)' /\ OrdersLimited(k)'
    BY DEF LimitInv, Counters
  <2>1. /\ orders'[k] = orders[k]
        /\ count'[k] = count[k]
        /\ uncounted'[k] = uncounted[k]
    BY DEF Inv, Shape, Bit, Counters
  <2>2. orders[k] \in Nat /\ count[k] \in Nat /\ uncounted[k] \in Nat
    BY DEF Inv, Shape
  <2>3. OrdersCounted(k) /\ OrdersLimited(k)
    BY DEF Inv, LimitInv
  <2>. QED BY <1>2, <1>3, <2>1, <2>2, <2>3, BitType, SizesAreNumbers, LimitKept DEF Inv
<1>5. CoolInv'
  <2>. SUFFICES ASSUME NEW k \in CoolKeys PROVE OrdersCool(k)' /\ OrdersSlip(k)'
    BY DEF CoolInv, CoolKeys
  <2>1. /\ burst'[k] = burst[k]
        /\ unmarked'[k] = unmarked[k]
    BY DEF Inv, Shape, Bit, CoolKeys
  <2>2. CASE CoolKey(w, Current(w)) = k
    <3>1. OrdersCool(k) /\ OrdersSlip(k)
      BY DEF Inv, CoolInv
    <3>2. /\ Placed(k) \in Nat /\ Past(k) \in Nat
          /\ Cardinality(Users(k[1])) \in Nat
      BY SizesAreNumbers, UsersFinite
    <3>3. burst[k] \in Nat /\ unmarked[k] \in Nat /\ k \in cooldown'
      BY <2>2 DEF Inv, Shape
    <3>4. burst[k] + Past(k) <= Cardinality(Users(k[1])) + unmarked[k]
      <4>1. CASE k \in cooldown
        BY <3>1, <4>1 DEF OrdersSlip
      <4>2. CASE k \notin cooldown
        BY <3>1, <3>2, <3>3, <4>2, CooledRoom DEF OrdersCool
      <4>. QED BY <4>1, <4>2
    <3>5. OrdersCool(k)'
      BY <3>3 DEF OrdersCool
    <3>6. OrdersSlip(k)'
      BY <1>3, <2>1, <3>2, <3>3, <3>4 DEF OrdersSlip, Users
    <3>. QED BY <3>5, <3>6
  <2>3. CASE CoolKey(w, Current(w)) # k
    <3>1. Placed(k)' = Placed(k) /\ (k \in cooldown' <=> k \in cooldown)
      BY <1>3, <2>3, SizesAreNumbers DEF Bit
    <3>2. burst[k] \in Nat /\ unmarked[k] \in Nat
      BY DEF Inv, Shape
    <3>. QED BY <1>2, <1>3, <2>1, <3>1, <3>2, SizesAreNumbers, CoolKept DEF Inv, CoolInv
  <2>. QED BY <2>2, <2>3
<1>. QED BY <1>2, <1>4, <1>5 DEF Inv

\* The mark does not arrive.
LEMMA LoseMarkInv ==
  ASSUME Inv, NEW w \in Sessions, worker[w].step = "placed", Goto(w, "marked"),
         unmarked' = [unmarked EXCEPT ![CoolKey(w, Current(w))] = @ + 1],
         UNCHANGED <<cooldown, count, orders, uncounted, burst>>
  PROVE  Inv'
<1>1. Moves(w, "marked") /\ Keeps(w)
  BY GotoMoves DEF Inv
<1>2. Shape'
  <2>1. unmarked' \in [CoolKeys -> Nat]
    BY OneMore DEF Inv, Shape
  <2>. QED BY <1>1, <2>1 DEF Inv, Shape, Moves
<1>3. \A k : /\ Sent(k)' = Sent(k) /\ Ready(k)' = Ready(k)
             /\ Placed(k)' = Placed(k) - Bit(CoolKey(w, Current(w)) = k) /\ Past(k)' = Past(k)
  <2>. SUFFICES ASSUME NEW k
       PROVE  /\ Sent(k)' = Sent(k) /\ Ready(k)' = Ready(k)
              /\ Placed(k)' = Placed(k) - Bit(CoolKey(w, Current(w)) = k) /\ Past(k)' = Past(k)
    OBVIOUS
  <2>. QED BY <1>1, Sizes, SizesAreNumbers DEF More, Bit
<1>4. LimitInv'
  <2>. SUFFICES ASSUME NEW k \in Counters PROVE OrdersCounted(k)' /\ OrdersLimited(k)'
    BY DEF LimitInv, Counters
  <2>1. /\ orders'[k] = orders[k]
        /\ count'[k] = count[k]
        /\ uncounted'[k] = uncounted[k]
    BY DEF Inv, Shape, Bit, Counters
  <2>2. orders[k] \in Nat /\ count[k] \in Nat /\ uncounted[k] \in Nat
    BY DEF Inv, Shape
  <2>3. OrdersCounted(k) /\ OrdersLimited(k)
    BY DEF Inv, LimitInv
  <2>. QED BY <1>2, <1>3, <2>1, <2>2, <2>3, BitType, SizesAreNumbers, LimitKept DEF Inv
<1>5. CoolInv'
  <2>. SUFFICES ASSUME NEW k \in CoolKeys PROVE OrdersCool(k)' /\ OrdersSlip(k)'
    BY DEF CoolInv, CoolKeys
  <2>1. /\ burst'[k] = burst[k]
        /\ unmarked'[k] = unmarked[k] + Bit(CoolKey(w, Current(w)) = k)
    BY DEF Inv, Shape, Bit, CoolKeys
  <2>2. burst[k] \in Nat /\ unmarked[k] \in Nat
    BY DEF Inv, Shape
  <2>. QED BY <1>2, <1>3, <2>1, <2>2, BitType, SizesAreNumbers, CoolKept DEF Inv, CoolInv
<1>. QED BY <1>2, <1>4, <1>5 DEF Inv

\* The order is counted, or the count does not arrive.
LEMMA CountInv ==
  ASSUME Inv, NEW w \in Sessions, worker[w].step = "marked", Goto(w, "counted"),
         count' = [count EXCEPT ![Counter(w, Current(w))] = @ + 1],
         UNCHANGED <<cooldown, orders, uncounted, burst, unmarked>>
  PROVE  Inv'
<1>1. Moves(w, "counted") /\ Keeps(w)
  BY GotoMoves DEF Inv
<1>2. Shape'
  <2>1. count' \in [Counters -> Nat]
    BY OneMore DEF Inv, Shape
  <2>. QED BY <1>1, <2>1 DEF Inv, Shape, Moves
<1>3. \A k : /\ Sent(k)' = Sent(k) - Bit(Counter(w, Current(w)) = k) /\ Ready(k)' = Ready(k)
             /\ Placed(k)' = Placed(k) /\ Past(k)' = Past(k)
  <2>. SUFFICES ASSUME NEW k
       PROVE  /\ Sent(k)' = Sent(k) - Bit(Counter(w, Current(w)) = k) /\ Ready(k)' = Ready(k)
              /\ Placed(k)' = Placed(k) /\ Past(k)' = Past(k)
    OBVIOUS
  <2>. QED BY <1>1, Sizes, SizesAreNumbers DEF More, Bit
<1>4. LimitInv'
  <2>. SUFFICES ASSUME NEW k \in Counters PROVE OrdersCounted(k)' /\ OrdersLimited(k)'
    BY DEF LimitInv, Counters
  <2>1. /\ orders'[k] = orders[k]
        /\ count'[k] = count[k] + Bit(Counter(w, Current(w)) = k)
        /\ uncounted'[k] = uncounted[k]
    BY DEF Inv, Shape, Bit, Counters
  <2>2. orders[k] \in Nat /\ count[k] \in Nat /\ uncounted[k] \in Nat
    BY DEF Inv, Shape
  <2>3. OrdersCounted(k) /\ OrdersLimited(k)
    BY DEF Inv, LimitInv
  <2>. QED BY <1>2, <1>3, <2>1, <2>2, <2>3, BitType, SizesAreNumbers, LimitKept DEF Inv
<1>5. CoolInv'
  <2>. SUFFICES ASSUME NEW k \in CoolKeys PROVE OrdersCool(k)' /\ OrdersSlip(k)'
    BY DEF CoolInv, CoolKeys
  <2>1. /\ burst'[k] = burst[k]
        /\ unmarked'[k] = unmarked[k]
    BY DEF Inv, Shape, Bit, CoolKeys
  <2>2. burst[k] \in Nat /\ unmarked[k] \in Nat
    BY DEF Inv, Shape
  <2>. QED BY <1>2, <1>3, <2>1, <2>2, BitType, SizesAreNumbers, CoolKept DEF Inv, CoolInv
<1>. QED BY <1>2, <1>4, <1>5 DEF Inv

LEMMA LoseCountInv ==
  ASSUME Inv, NEW w \in Sessions, worker[w].step = "marked", Goto(w, "counted"),
         uncounted' = [uncounted EXCEPT ![Counter(w, Current(w))] = @ + 1],
         UNCHANGED <<cooldown, count, orders, burst, unmarked>>
  PROVE  Inv'
<1>1. Moves(w, "counted") /\ Keeps(w)
  BY GotoMoves DEF Inv
<1>2. Shape'
  <2>1. uncounted' \in [Counters -> Nat]
    BY OneMore DEF Inv, Shape
  <2>. QED BY <1>1, <2>1 DEF Inv, Shape, Moves
<1>3. \A k : /\ Sent(k)' = Sent(k) - Bit(Counter(w, Current(w)) = k) /\ Ready(k)' = Ready(k)
             /\ Placed(k)' = Placed(k) /\ Past(k)' = Past(k)
  <2>. SUFFICES ASSUME NEW k
       PROVE  /\ Sent(k)' = Sent(k) - Bit(Counter(w, Current(w)) = k) /\ Ready(k)' = Ready(k)
              /\ Placed(k)' = Placed(k) /\ Past(k)' = Past(k)
    OBVIOUS
  <2>. QED BY <1>1, Sizes, SizesAreNumbers DEF More, Bit
<1>4. LimitInv'
  <2>. SUFFICES ASSUME NEW k \in Counters PROVE OrdersCounted(k)' /\ OrdersLimited(k)'
    BY DEF LimitInv, Counters
  <2>1. /\ orders'[k] = orders[k]
        /\ count'[k] = count[k]
        /\ uncounted'[k] = uncounted[k] + Bit(Counter(w, Current(w)) = k)
    BY DEF Inv, Shape, Bit, Counters
  <2>2. orders[k] \in Nat /\ count[k] \in Nat /\ uncounted[k] \in Nat
    BY DEF Inv, Shape
  <2>3. OrdersCounted(k) /\ OrdersLimited(k)
    BY DEF Inv, LimitInv
  <2>. QED BY <1>2, <1>3, <2>1, <2>2, <2>3, BitType, SizesAreNumbers, LimitKept DEF Inv
<1>5. CoolInv'
  <2>. SUFFICES ASSUME NEW k \in CoolKeys PROVE OrdersCool(k)' /\ OrdersSlip(k)'
    BY DEF CoolInv, CoolKeys
  <2>1. /\ burst'[k] = burst[k]
        /\ unmarked'[k] = unmarked[k]
    BY DEF Inv, Shape, Bit, CoolKeys
  <2>2. burst[k] \in Nat /\ unmarked[k] \in Nat
    BY DEF Inv, Shape
  <2>. QED BY <1>2, <1>3, <2>1, <2>2, BitType, SizesAreNumbers, CoolKept DEF Inv, CoolInv
<1>. QED BY <1>2, <1>4, <1>5 DEF Inv

-----------------------------------------------------------------------------
(* Failures *)

LEMMA OneOrNone == ASSUME NEW w, NEW A, A \subseteq {w} PROVE Cardinality(A) = Bit(w \in A)
<1>1. CASE w \in A
  <2>1. A = {w}
    BY <1>1
  <2>. QED BY <1>1, <2>1, FS_Singleton DEF Bit
<1>2. CASE w \notin A
  <2>1. A = {}
    BY <1>2
  <2>. QED BY <1>2, <2>1, FS_EmptySet DEF Bit
<1>. QED BY <1>1, <1>2

\* What a session leaves behind moves from those that are on their way to those that
\* the store never hears of.
LEMMA ForgetInv ==
  ASSUME Inv, NEW w \in Sessions, NEW s, Moves(w, s), s \notin Tracked,
         Forget({w}), UNCHANGED <<cooldown, count, orders, burst>>
  PROVE  Inv'
<1>. DEFINE Unsent(k) == worker[w].step \in {"placed", "marked"} /\ Counter(w, Current(w)) = k
            Unset(k) == worker[w].step \in {"placed"} /\ CoolKey(w, Current(w)) = k
<1>1. \A k \in Counters : uncounted'[k] = uncounted[k] + Bit(Unsent(k))
  <2>. SUFFICES ASSUME NEW k \in Counters PROVE uncounted'[k] = uncounted[k] + Bit(Unsent(k))
    OBVIOUS
  <2>. DEFINE A == {v \in {w} : At(v, {"placed", "marked"}) /\ Counter(v, Current(v)) = k}
  <2>1. uncounted'[k] = uncounted[k] + Cardinality(A)
    BY DEF Forget
  <2>2. Cardinality(A) = Bit(w \in A)
    BY OneOrNone
  <2>3. w \in A <=> Unsent(k)
    BY DEF At
  <2>. QED BY <2>1, <2>2, <2>3 DEF Bit
<1>2. \A k \in CoolKeys : unmarked'[k] = unmarked[k] + Bit(Unset(k))
  <2>. SUFFICES ASSUME NEW k \in CoolKeys PROVE unmarked'[k] = unmarked[k] + Bit(Unset(k))
    OBVIOUS
  <2>. DEFINE A == {v \in {w} : At(v, {"placed"}) /\ CoolKey(v, Current(v)) = k}
  <2>1. unmarked'[k] = unmarked[k] + Cardinality(A)
    BY DEF Forget
  <2>2. Cardinality(A) = Bit(w \in A)
    BY OneOrNone
  <2>3. w \in A <=> Unset(k)
    BY DEF At
  <2>. QED BY <2>1, <2>2, <2>3 DEF Bit
<1>3. Shape'
  <2>1. \A k \in Counters : uncounted[k] + Bit(Unsent(k)) \in Nat
    BY BitType DEF Inv, Shape
  <2>2. \A k \in CoolKeys : unmarked[k] + Bit(Unset(k)) \in Nat
    BY BitType DEF Inv, Shape
  <2>3. uncounted' \in [Counters -> Nat]
    BY <1>1, <2>1 DEF Forget
  <2>4. unmarked' \in [CoolKeys -> Nat]
    BY <1>2, <2>2 DEF Forget
  <2>. QED BY <2>3, <2>4 DEF Inv, Shape, Moves
<1>4. \A k : /\ Sent(k)' = Sent(k) - Bit(Unsent(k)) /\ Ready(k)' <= Ready(k)
             /\ Placed(k)' = Placed(k) - Bit(Unset(k)) /\ Past(k)' <= Past(k)
  <2>. SUFFICES ASSUME NEW k
       PROVE  /\ Sent(k)' = Sent(k) - Bit(Unsent(k)) /\ Ready(k)' <= Ready(k)
              /\ Placed(k)' = Placed(k) - Bit(Unset(k)) /\ Past(k)' <= Past(k)
    OBVIOUS
  <2>. QED BY Sizes, SizesAreNumbers DEF More, Bit, Tracked
<1>. HIDE DEF Unsent, Unset
<1>5. LimitInv'
  <2>. SUFFICES ASSUME NEW k \in Counters PROVE OrdersCounted(k)' /\ OrdersLimited(k)'
    BY DEF LimitInv, Counters
  <2>1. orders[k] \in Nat /\ count[k] \in Nat /\ uncounted[k] \in Nat
    BY DEF Inv, Shape
  <2>. QED BY <1>1, <1>3, <1>4, <2>1, BitType, SizesAreNumbers, LimitKept DEF Inv, LimitInv
<1>6. CoolInv'
  <2>. SUFFICES ASSUME NEW k \in CoolKeys PROVE OrdersCool(k)' /\ OrdersSlip(k)'
    BY DEF CoolInv, CoolKeys
  <2>1. burst[k] \in Nat /\ unmarked[k] \in Nat
    BY DEF Inv, Shape
  <2>. QED BY <1>2, <1>3, <1>4, <2>1, BitType, SizesAreNumbers, CoolKept DEF Inv, CoolInv
<1>. QED BY <1>3, <1>5, <1>6 DEF Inv

\* A store without marks and counts: everything it was told is unheard of.
LEMMA StoreLostInv == ASSUME Inv, NEW s, StoreLost(s) PROVE Inv'
<1>1. Shape'
  <2>1. count' \in [Counters -> Nat] /\ uncounted' \in [Counters -> Nat] /\ unmarked' \in [CoolKeys -> Nat]
    BY DEF StoreLost, Inv, Shape
  <2>2. DOMAIN worker' = Sessions /\ \A w \in Sessions : DOMAIN worker'[w] = Fields
    BY DEF StoreLost, Inv, Shape, Idle, Fields
  <2>. QED BY <2>1, <2>2 DEF StoreLost, Inv, Shape
<1>2. ASSUME NEW T, NEW k, k[1] # s
      PROVE  Counting(T, k)' = Counting(T, k) /\ Cooled(T, k)' = Cooled(T, k)
  <2>1. \A w \in Sessions : StoreOf[w] = k[1] => worker'[w] = worker[w]
    BY <1>2 DEF StoreLost
  <2>2. Counting(T, k)' = Counting(T, k)
    BY <2>1 DEF Counting, At, Counter, Current
  <2>3. Cooled(T, k)' = Cooled(T, k)
    BY <2>1 DEF Cooled, At, CoolKey, Current
  <2>. QED BY <2>2, <2>3
<1>3. LimitInv'
  <2>. SUFFICES ASSUME NEW k \in Counters PROVE OrdersCounted(k)' /\ OrdersLimited(k)'
    BY DEF LimitInv, Counters
  <2>1. orders[k] \in Nat /\ count[k] \in Nat /\ uncounted[k] \in Nat
    BY DEF Inv, Shape
  <2>2. CASE k[1] # s
    <3>1. orders'[k] = orders[k] /\ count'[k] = count[k] /\ uncounted'[k] = uncounted[k]
      BY <2>2 DEF StoreLost
    <3>. QED BY <1>1, <1>2, <2>1, <2>2, <3>1, SizesAreNumbers, LimitKept DEF Inv, LimitInv, Sent, Ready
  <2>3. CASE k[1] = s
    <3>1. orders'[k] = orders[k] /\ count'[k] = 0 /\ uncounted'[k] = orders[k]
      BY <2>3 DEF StoreLost
    <3>2. Sent(k)' \in Nat /\ Ready(k)' \in Nat /\ Cardinality(Users(k[1])) \in Nat
      BY SizesAreNumbers, UsersFinite
    <3>3. DailyLimit \in Nat \ {0}
      BY WorkspaceAssumption DEF DailyLimit
    <3>4. Ready(k)' <= Cardinality(Users(k[1]))
      <4>1. Counting({"cleared"}, k)' \in SUBSET Users(k[1])
        BY DEF Counting, Counter, Users
      <4>. QED BY <4>1, UsersFinite, FS_Subset DEF Ready
    <3>5. OrdersCounted(k)'
      BY <2>1, <3>1, <3>2 DEF OrdersCounted
    <3>6. OrdersLimited(k)'
      BY <2>1, <3>1, <3>2, <3>3, <3>4 DEF OrdersLimited, Users, DailyLimit
    <3>. QED BY <3>5, <3>6
  <2>. QED BY <2>2, <2>3
<1>4. CoolInv'
  <2>. SUFFICES ASSUME NEW k \in CoolKeys PROVE OrdersCool(k)' /\ OrdersSlip(k)'
    BY DEF CoolInv, CoolKeys
  <2>1. burst[k] \in Nat /\ unmarked[k] \in Nat
    BY DEF Inv, Shape
  <2>2. CASE k[1] # s
    <3>1. burst'[k] = burst[k] /\ unmarked'[k] = unmarked[k] /\ (k \in cooldown' <=> k \in cooldown)
      BY <2>2 DEF StoreLost
    <3>. QED BY <1>1, <1>2, <2>1, <2>2, <3>1, SizesAreNumbers, CoolKept DEF Inv, CoolInv, Placed, Past
  <2>3. CASE k[1] = s
    <3>1. burst'[k] = burst[k] /\ unmarked'[k] = burst[k] /\ k \notin cooldown'
      BY <2>3 DEF StoreLost
    <3>. QED BY <2>1, <3>1, SizesAreNumbers DEF OrdersCool, OrdersSlip
  <2>. QED BY <2>2, <2>3
<1>. QED BY <1>1, <1>3, <1>4 DEF Inv

\* A cooldown ends, and the orders of the next one are counted from nothing.
LEMMA ExpireInv == ASSUME Inv, NEW j, Expire(j) PROVE Inv'
<1>1. burst' = [burst EXCEPT ![j] = 0] /\ cooldown' = cooldown \ {j}
      /\ UNCHANGED <<worker, count, orders, uncounted, unmarked>>
  BY DEF Expire
<1>2. Shape'
  BY <1>1 DEF Inv, Shape
<1>3. \A T, k : Counting(T, k)' = Counting(T, k) /\ Cooled(T, k)' = Cooled(T, k)
  BY <1>1 DEF Counting, Cooled, At, Counter, CoolKey, Current
<1>4. LimitInv'
  BY <1>1, <1>3 DEF Inv, LimitInv, OrdersCounted, OrdersLimited, Users, DailyLimit, Counters, Sent, Ready
<1>5. CoolInv'
  <2>. SUFFICES ASSUME NEW k \in CoolKeys PROVE OrdersCool(k)' /\ OrdersSlip(k)'
    BY DEF CoolInv, CoolKeys
  <2>1. burst[k] \in Nat /\ unmarked[k] \in Nat
    BY DEF Inv, Shape
  <2>2. CASE k = j
    <3>1. burst'[k] = 0 /\ unmarked'[k] = unmarked[k] /\ k \notin cooldown'
      BY <1>1, <2>2 DEF Inv, Shape
    <3>. QED BY <2>1, <3>1, SizesAreNumbers DEF OrdersCool, OrdersSlip
  <2>3. CASE k # j
    <3>1. burst'[k] = burst[k] /\ unmarked'[k] = unmarked[k] /\ (k \in cooldown' <=> k \in cooldown)
      BY <1>1, <2>3 DEF Inv, Shape
    <3>. QED BY <1>2, <1>3, <2>1, <3>1, SizesAreNumbers, CoolKept DEF Inv, CoolInv, Placed, Past
  <2>. QED BY <2>2, <2>3
<1>. QED BY <1>2, <1>4, <1>5 DEF Inv

-----------------------------------------------------------------------------
(* The theorems *)

LEMMA InitInv == Init => Inv
<1>. SUFFICES ASSUME Init PROVE Inv
  OBVIOUS
<1>1. Shape
  BY DEF Init, Shape, Idle, Fields
<1>2. \A T, k : "idle" \notin T => Counting(T, k) = {} /\ Cooled(T, k) = {}
  BY DEF Init, Counting, Cooled, At, Idle
<1>3. \A k : Sent(k) = 0 /\ Ready(k) = 0 /\ Placed(k) = 0
  BY <1>2, FS_EmptySet DEF Sent, Ready, Placed
<1>4. DailyLimit \in Nat \ {0}
  BY WorkspaceAssumption DEF DailyLimit
<1>5. LimitInv
  BY <1>3, <1>4, UsersFinite DEF Init, LimitInv, OrdersCounted, OrdersLimited
<1>6. CoolInv
  BY <1>3 DEF Init, CoolInv, OrdersCool, OrdersSlip
<1>. QED BY <1>1, <1>5, <1>6 DEF Inv

LEMMA NextInv == Inv /\ [Next]_vars => Inv'
<1>. SUFFICES ASSUME Inv, [Next]_vars PROVE Inv'
  OBVIOUS
<1>1. CASE UNCHANGED vars
  <2>1. UNCHANGED <<worker, count, cooldown, orders, uncounted, burst, unmarked>>
    BY <1>1 DEF vars, store, history
  <2>2. \A T, k : Counting(T, k)' = Counting(T, k) /\ Cooled(T, k)' = Cooled(T, k)
    BY <2>1 DEF Counting, Cooled, At, Counter, CoolKey, Current
  <2>. QED BY <2>1, <2>2 DEF Inv, Shape, LimitInv, CoolInv, OrdersCounted, OrdersLimited,
                            OrdersCool, OrdersSlip, Users, DailyLimit, Counters, CoolKeys, Sent, Ready, Placed, Past
<1>2. ASSUME NEW r \in Reviewed, BookReviewed(r) \/ CloseReviewed(r) PROVE Inv'
  <2>1. UNCHANGED <<worker, count, cooldown, orders, uncounted, burst, unmarked>>
    BY <1>2 DEF BookReviewed, CloseReviewed, store, history
  <2>2. \A T, k : Counting(T, k)' = Counting(T, k) /\ Cooled(T, k)' = Cooled(T, k)
    BY <2>1 DEF Counting, Cooled, At, Counter, CoolKey, Current
  <2>. QED BY <2>1, <2>2 DEF Inv, Shape, LimitInv, CoolInv, OrdersCounted, OrdersLimited,
                            OrdersCool, OrdersSlip, Users, DailyLimit, Counters, CoolKeys, Sent, Ready, Placed, Past
<1>3. ASSUME NEW w \in Sessions, Start(w) PROVE Inv'
  <2>. DEFINE new == [Idle EXCEPT !.step = "next", !.todo = Batch[w]]
  <2>1. DOMAIN new = Fields /\ new.step = "next"
    BY DEF Idle, Fields
  <2>2. Moves(w, "next")
    BY <1>3, <2>1, UpdateMoves DEF Start, Inv
  <2>. QED BY <1>3, <2>2, QuietInv DEF Start, At, Tracked, store
<1>4. ASSUME NEW w \in Sessions, Decide(w) PROVE Inv'
  <2>1. worker[w].step = "next" /\ UNCHANGED <<cooldown, count, history>>
    BY <1>4 DEF Decide, Block, Pass, Upcoming, At, store
  <2>2. Moves(w, "next") \/ Moves(w, "saving")
    <3>1. CASE Block(w)
      BY <3>1, RecordMoves DEF Block, Inv
    <3>2. CASE Pass(w)
      <4>. DEFINE c == Head(worker[w].todo)
                  new == [worker[w] EXCEPT !.step = "saving", !.candidate = c,
                    !.quantity = Allocation(w, c).quantity, !.exhausted = Exhausted(Caps(c, Open(w, c), Limits))]
      <4>1. CASE Update(w, new)
        <5>1. DOMAIN new = Fields /\ new.step = "saving"
          BY DEF Inv, Shape, Fields
        <5>. QED BY <4>1, <5>1, UpdateMoves DEF Inv
      <4>2. CASE Record(w, c, Allocation(w, c).quantity, results[RequestId(c)], Exhausted(Caps(c, Open(w, c), Limits)))
        BY <4>2, RecordMoves DEF Inv
      <4>. QED BY <3>2, <4>1, <4>2 DEF Pass
    <3>. QED BY <1>4, <3>1, <3>2 DEF Decide
  <2>. QED BY <2>1, <2>2, QuietInv DEF Tracked
<1>5. ASSUME NEW w \in Sessions, Proceed(w) PROVE Inv'
  <2>1. CASE SaveRequest(w)
    <3>1. Moves(w, "checking") \/ Moves(w, "next")
      BY <2>1, GotoMoves, RecordMoves DEF SaveRequest, RecordCurrent, Inv
    <3>. QED BY <2>1, <3>1, QuietInv DEF SaveRequest, At, Tracked, store
  <2>2. CASE CheckMarks(w)
    <3>1. worker[w].step = "checking" /\ UNCHANGED <<cooldown, count, history>>
      BY <2>2 DEF CheckMarks, At, store
    <3>2. CASE Marked(w)
      <4>1. Moves(w, "refused")
        BY <2>2, <3>2, GotoMoves DEF CheckMarks, Inv
      <4>. QED BY <3>1, <4>1, QuietInv DEF Tracked
    <3>3. CASE ~Marked(w)
      BY <2>2, <3>1, <3>3, PassMarksInv DEF CheckMarks, Marked, history
    <3>. QED BY <3>2, <3>3
  <2>3. CASE CheckCount(w)
    <3>1. worker[w].step = "counting" /\ UNCHANGED <<cooldown, count, history>>
      BY <2>3 DEF CheckCount, At, store
    <3>2. Goto(w, "refused") \/ (Goto(w, "cleared") /\ count[Counter(w, Current(w))] < DailyLimit)
      BY <2>3 DEF CheckCount
    <3>. QED BY <3>1, <3>2, RefuseInv, ClearInv DEF history
  <2>4. CASE PlaceOrder(w)
    BY <2>4, OrderInv DEF PlaceOrder, At, store
  <2>5. CASE SetMarks(w)
    BY <2>5, MarkInv DEF SetMarks, At, history
  <2>6. CASE CountTrade(w)
    BY <2>6, CountInv DEF CountTrade, At, history
  <2>7. CASE CommitResult(w)
    <3>1. worker[w].step \in {"counted", "refused"} /\ UNCHANGED <<cooldown, count, history>>
      BY <2>7 DEF CommitResult, At, store
    <3>2. Moves(w, "next")
      BY <2>7, RecordMoves DEF CommitResult, RecordCurrent, Inv
    <3>. QED BY <3>1, <3>2, QuietInv DEF Tracked
  <2>8. CASE Finish(w)
    BY <2>8, IdleMoves, QuietInv DEF Finish, At, Tracked, store, Inv
  <2>. QED BY <1>5, <2>1, <2>2, <2>3, <2>4, <2>5, <2>6, <2>7, <2>8 DEF Proceed
<1>6. ASSUME NEW w \in Sessions, CheckMarksBlindly(w) PROVE Inv'
  <2>1. worker[w].step = "checking" /\ UNCHANGED <<cooldown, count, orders, uncounted, burst>>
    BY <1>6 DEF CheckMarksBlindly, At, store
  <2>2. CASE Goto(w, "refused") /\ UNCHANGED unmarked
    <3>1. Moves(w, "refused")
      BY <2>2, GotoMoves DEF Inv
    <3>. QED BY <2>1, <2>2, <3>1, QuietInv DEF Tracked, history
  <2>3. CASE Goto(w, "counting") /\ unmarked' = [unmarked EXCEPT ![CoolKey(w, Current(w))] = @ + 1]
    BY <2>1, <2>3, PassBlindlyInv
  <2>. QED BY <1>6, <2>2, <2>3 DEF CheckMarksBlindly
<1>7. ASSUME NEW w \in Sessions, CheckCountBlindly(w) PROVE Inv'
  BY <1>7, ClearBlindlyInv DEF CheckCountBlindly, At, store
<1>8. ASSUME NEW w \in Sessions, LoseMarks(w) PROVE Inv'
  BY <1>8, LoseMarkInv DEF LoseMarks, At, store
<1>9. ASSUME NEW w \in Sessions, LoseCount(w) PROVE Inv'
  BY <1>9, LoseCountInv DEF LoseCount, At, store
<1>10. ASSUME NEW w \in Sessions, SignalFails(w) PROVE Inv'
  <2>1. Moves(w, "next")
    BY <1>10, RecordMoves DEF SignalFails, RecordCurrent, Inv
  <2>. QED BY <1>10, <2>1, ForgetInv DEF SignalFails, store, Tracked
<1>11. ASSUME NEW w \in Sessions, Crash(w) PROVE Inv'
  <2>1. Moves(w, "idle")
    BY <1>11, IdleMoves DEF Crash, Inv
  <2>. QED BY <1>11, <2>1, ForgetInv DEF Crash, store, Tracked
<1>. QED BY <1>1, <1>2, <1>3, <1>4, <1>5, <1>6, <1>7, <1>8, <1>9, <1>10, <1>11, StoreLostInv, ExpireInv DEF Next

LEMMA InvHolds == Spec => []Inv
<1>. QED BY InitInv, NextInv, PTL DEF Spec

\* The daily limit of a symbol is exceeded by at most one order for each other
\* session of the store, and by those the store was never told of, whatever the
\* sessions, the batches and the faults are (guard.py:151,166).
THEOREM DailyLimitKept == Spec => []DailyLimitHolds
<1>1. Inv => DailyLimitHolds
  <2>. SUFFICES ASSUME Inv, NEW k \in Counters
       PROVE  orders[k] <= DailyLimit + Cardinality(Users(k[1])) - 1 + uncounted[k]
    BY DEF DailyLimitHolds
  <2>1. OrdersLimited(k) /\ orders[k] \in Nat /\ uncounted[k] \in Nat
    BY DEF Inv, Shape, LimitInv
  <2>2. Ready(k) \in Nat /\ Cardinality(Users(k[1])) \in Nat /\ DailyLimit \in Nat
    BY SizesAreNumbers, UsersFinite, WorkspaceAssumption DEF DailyLimit
  <2>. QED BY <2>1, <2>2 DEF OrdersLimited
<1>. QED BY <1>1, InvHolds, PTL

\* Between two ends of its cooldown a strategy has at most one order of a symbol for
\* each session of the store, and those that left no mark, whatever the sessions, the
\* batches and the faults are (guard.py:150,170).
THEOREM CooldownKept == Spec => []CooldownHolds
<1>1. Inv => CooldownHolds
  <2>. SUFFICES ASSUME Inv, NEW k \in CoolKeys PROVE burst[k] <= Cardinality(Users(k[1])) + unmarked[k]
    BY DEF CooldownHolds
  <2>1. OrdersCool(k) /\ OrdersSlip(k) /\ burst[k] \in Nat /\ unmarked[k] \in Nat
    BY DEF Inv, Shape, CoolInv
  <2>2. Past(k) \in Nat /\ Placed(k) \in Nat /\ Cardinality(Users(k[1])) \in Nat
    BY SizesAreNumbers, UsersFinite
  <2>3. Placed(k) + Past(k) <= Cardinality(Users(k[1]))
    BY CooledRoom
  <2>. QED BY <2>1, <2>2, <2>3 DEF OrdersCool, OrdersSlip
<1>. QED BY <1>1, InvHolds, PTL

-----------------------------------------------------------------------------
(***************************************************************************)
(* What a batch may execute within the portfolio limits: the types of all  *)
(* that is kept, for which the totals must be seen to be numbers, and the  *)
(* bound on what is open.                                                  *)
(***************************************************************************)

-----------------------------------------------------------------------------
(* Sums over finite sets *)

\* A sum over a set picks one element after the other; t holds the sums over the
\* subsets of S.
Pick(T) == CHOOSE x \in T : TRUE
Tallies(a, S, t) ==
  t = [T \in SUBSET S |-> IF T = {} THEN 0 ELSE a[Pick(T)] + t[T \ {Pick(T)}]]
Tally(a, S) == CHOOSE t : Tallies(a, S, t)

\* Of the subsets of a finite set with some property, one is smallest.
LEMMA SmallestSubset ==
  ASSUME NEW S, IsFiniteSet(S), NEW Bad, Bad \subseteq SUBSET S, Bad # {}
  PROVE  \E T \in Bad : \A U \in Bad : U \subseteq T => U = T
<1>1. Bad \subseteq FiniteSubsetsOf(S)
  BY FS_FiniteSubsetsOfFinite
<1>2. PICK T \in Bad : \A U \in Bad : ~(<<U, T>> \in StrictSubsetOrdering(S))
  BY <1>1, FS_StrictSubsetOrderingWellFounded, WFMin
<1>. QED BY <1>2 DEF StrictSubsetOrdering

LEMMA PickIn == ASSUME NEW T, T # {} PROVE Pick(T) \in T
BY DEF Pick

\* Tallies of functions that agree on a set agree on its subsets.
LEMMA TalliesAgree ==
  ASSUME NEW S, IsFiniteSet(S), NEW R, S \subseteq R, NEW a, NEW b, \A i \in S : a[i] = b[i],
         NEW t, Tallies(a, S, t), NEW u, Tallies(b, R, u)
  PROVE  \A T \in SUBSET S : t[T] = u[T]
<1>. DEFINE Bad == {T \in SUBSET S : t[T] # u[T]}
<1>. SUFFICES ASSUME Bad # {} PROVE FALSE
  OBVIOUS
<1>1. PICK T \in Bad : \A U \in Bad : U \subseteq T => U = T
  <2>1. Bad \subseteq SUBSET S
    OBVIOUS
  <2>. HIDE DEF Bad
  <2>. QED BY <2>1, SmallestSubset
<1>2. T \in SUBSET S /\ T \in SUBSET R
  OBVIOUS
<1>3. /\ t[T] = IF T = {} THEN 0 ELSE a[Pick(T)] + t[T \ {Pick(T)}]
      /\ u[T] = IF T = {} THEN 0 ELSE b[Pick(T)] + u[T \ {Pick(T)}]
  BY <1>2 DEF Tallies
<1>4. T # {}
  BY <1>3
<1>5. Pick(T) \in T
  BY <1>4, PickIn
<1>6. T \ {Pick(T)} \in SUBSET S /\ T \ {Pick(T)} # T
  BY <1>5
<1>7. t[T \ {Pick(T)}] = u[T \ {Pick(T)}]
  BY <1>1, <1>6
<1>. QED BY <1>2, <1>3, <1>4, <1>5, <1>7

\* Every finite set has its tallies.
LEMMA TalliesExist ==
  ASSUME NEW S, IsFiniteSet(S), NEW a
  PROVE  Tallies(a, S, Tally(a, S))
<1>. DEFINE Bad == {T \in SUBSET S : ~(Tallies(a, T, Tally(a, T)))}
<1>. SUFFICES ASSUME Bad # {} PROVE FALSE
  OBVIOUS
<1>1. PICK T \in Bad : \A U \in Bad : U \subseteq T => U = T
  <2>1. Bad \subseteq SUBSET S
    OBVIOUS
  <2>. HIDE DEF Bad
  <2>. QED BY <2>1, SmallestSubset
<1>2. \A U \in SUBSET T : U # T => Tallies(a, U, Tally(a, U))
  BY <1>1
<1>. DEFINE rest(U) == U \ {Pick(U)}
            t == [U \in SUBSET T |-> IF U = {} THEN 0 ELSE a[Pick(U)] + Tally(a, rest(U))[rest(U)]]
<1>3. ASSUME NEW U \in SUBSET T, U # {}
      PROVE  t[rest(U)] = Tally(a, rest(U))[rest(U)]
  <2>. DEFINE W == rest(U)
  <2>1. W \in SUBSET T /\ W # T /\ IsFiniteSet(W)
    BY <1>3, PickIn, FS_Subset
  <2>2. Tallies(a, W, Tally(a, W))
    BY <1>2, <2>1
  <2>. HIDE DEF W
  <2>3. Tally(a, W)[W] = IF W = {} THEN 0 ELSE a[Pick(W)] + Tally(a, W)[rest(W)]
    BY <2>2 DEF Tallies
  <2>4. W # {} => Tally(a, W)[rest(W)] = Tally(a, rest(W))[rest(W)]
    <3>. SUFFICES ASSUME W # {} PROVE Tally(a, W)[rest(W)] = Tally(a, rest(W))[rest(W)]
      OBVIOUS
    <3>1. rest(W) \subseteq W /\ rest(W) # T /\ IsFiniteSet(rest(W)) /\ rest(W) \in SUBSET T
      BY <2>1, PickIn, FS_Subset
    <3>2. Tallies(a, rest(W), Tally(a, rest(W)))
      BY <1>2, <3>1
    <3>. HIDE DEF rest
    <3>. QED BY <2>2, <3>1, <3>2, TalliesAgree
  <2>5. t[W] = IF W = {} THEN 0 ELSE a[Pick(W)] + Tally(a, rest(W))[rest(W)]
    BY <2>1
  <2>. HIDE DEF t, rest
  <2>6. t[W] = Tally(a, W)[W]
    BY <2>3, <2>4, <2>5
  <2>. QED BY <2>6 DEF W
<1>4. Tallies(a, T, t)
  <2>. DEFINE next == [U \in SUBSET T |-> IF U = {} THEN 0 ELSE a[Pick(U)] + t[rest(U)]]
  <2>1. ASSUME NEW U \in SUBSET T PROVE t[U] = next[U]
    <3>. HIDE DEF rest
    <3>1. t[U] = IF U = {} THEN 0 ELSE a[Pick(U)] + Tally(a, rest(U))[rest(U)]
      OBVIOUS
    <3>. HIDE DEF t
    <3>. QED BY <1>3, <3>1
  <2>2. t = next
    <3>. HIDE DEF rest
    <3>1. t \in [SUBSET T -> {t[U] : U \in SUBSET T}] /\ DOMAIN t = SUBSET T /\ DOMAIN next = SUBSET T
      OBVIOUS
    <3>2. t = [U \in SUBSET T |-> t[U]] /\ next = [U \in SUBSET T |-> next[U]]
      OBVIOUS
    <3>. HIDE DEF t, next
    <3>. QED BY <2>1, <3>2
  <2>. QED BY <2>2 DEF Tallies
<1>5. Tallies(a, T, Tally(a, T))
  <2>. HIDE DEF t
  <2>. QED BY <1>4 DEF Tally
<1>. QED BY <1>1, <1>5

LEMMA SumIs ==
  ASSUME NEW a, NEW S PROVE SumFunctionOnSet(a, S) = Tally(a, S)[S]
BY DEF SumFunctionOnSet, FoldFunctionOnSet, MapThenFoldSet, Tally, Tallies, Pick

LEMMA SumEmpty ==
  ASSUME NEW a PROVE SumFunctionOnSet(a, {}) = 0
<1>1. IsFiniteSet({})
  BY FS_EmptySet
<1>2. Tallies(a, {}, Tally(a, {}))
  BY <1>1, TalliesExist
<1>. QED BY <1>2, SumIs DEF Tallies

\* Only the summands count.
LEMMA SumSame ==
  ASSUME NEW S, IsFiniteSet(S), NEW a, NEW b, \A i \in S : a[i] = b[i]
  PROVE  SumFunctionOnSet(a, S) = SumFunctionOnSet(b, S)
<1>1. Tallies(a, S, Tally(a, S)) /\ Tallies(b, S, Tally(b, S))
  BY TalliesExist
<1>2. S \subseteq S /\ S \in SUBSET S
  OBVIOUS
<1>3. \A T \in SUBSET S : Tally(a, S)[T] = Tally(b, S)[T]
  BY <1>1, <1>2, TalliesAgree
<1>. QED BY <1>2, <1>3, SumIs

LEMMA TallyOfPart ==
  ASSUME NEW S, NEW R, IsFiniteSet(S), R \subseteq S, NEW a
  PROVE  Tally(a, S)[R] = Tally(a, R)[R]
<1>1. IsFiniteSet(R)
  BY FS_Subset
<1>2. Tallies(a, S, Tally(a, S))
  BY TalliesExist
<1>3. Tallies(a, R, Tally(a, R))
  BY <1>1, TalliesExist
<1>4. \A T \in SUBSET R : Tally(a, R)[T] = Tally(a, S)[T]
  BY <1>1, <1>2, <1>3, TalliesAgree
<1>. QED BY <1>4

LEMMA SumPicks ==
  ASSUME NEW S, IsFiniteSet(S), S # {}, NEW a
  PROVE  SumFunctionOnSet(a, S) = a[Pick(S)] + SumFunctionOnSet(a, S \ {Pick(S)})
<1>1. Tallies(a, S, Tally(a, S))
  BY TalliesExist
<1>2. Tally(a, S)[S] = a[Pick(S)] + Tally(a, S)[S \ {Pick(S)}]
  BY <1>1 DEF Tallies
<1>. QED BY <1>2, TallyOfPart, SumIs

LEMMA SumType ==
  ASSUME NEW S, IsFiniteSet(S), NEW a, \A i \in S : a[i] \in Nat
  PROVE  SumFunctionOnSet(a, S) \in Nat
<1>. DEFINE Bad == {T \in SUBSET S : SumFunctionOnSet(a, T) \notin Nat}
<1>. SUFFICES ASSUME Bad # {} PROVE FALSE
  OBVIOUS
<1>1. PICK T \in Bad : \A U \in Bad : U \subseteq T => U = T
  <2>1. Bad \subseteq SUBSET S
    OBVIOUS
  <2>. HIDE DEF Bad
  <2>. QED BY <2>1, SmallestSubset
<1>2. T # {} /\ T \subseteq S /\ IsFiniteSet(T)
  <2>1. T # {}
    BY SumEmpty
  <2>. QED BY <2>1, FS_Subset
<1>3. Pick(T) \in T
  BY <1>2, PickIn
<1>4. SumFunctionOnSet(a, T \ {Pick(T)}) \in Nat
  BY <1>1, <1>2, <1>3
<1>5. a[Pick(T)] \in Nat
  BY <1>2, <1>3
<1>6. SumFunctionOnSet(a, T) = a[Pick(T)] + SumFunctionOnSet(a, T \ {Pick(T)})
  BY <1>2, SumPicks
<1>. QED BY <1>4, <1>5, <1>6

\* Any element may be taken out.
LEMMA SumRemove ==
  ASSUME NEW S, IsFiniteSet(S), NEW a, \A i \in S : a[i] \in Nat, NEW x \in S
  PROVE  SumFunctionOnSet(a, S) = a[x] + SumFunctionOnSet(a, S \ {x})
<1>. DEFINE Splits(T, z) == SumFunctionOnSet(a, T) = a[z] + SumFunctionOnSet(a, T \ {z})
            Bad == {T \in SUBSET S : \E z \in T : ~Splits(T, z)}
<1>. SUFFICES ASSUME Bad # {} PROVE FALSE
  <2>1. S \in SUBSET S
    OBVIOUS
  <2>. QED BY <2>1
<1>1. PICK T \in Bad : \A U \in Bad : U \subseteq T => U = T
  <2>1. Bad \subseteq SUBSET S
    OBVIOUS
  <2>. HIDE DEF Bad
  <2>. QED BY <2>1, SmallestSubset
<1>2. PICK z \in T : ~Splits(T, z)
  OBVIOUS
<1>. DEFINE y == Pick(T)
<1>3. z \in T /\ y \in T /\ T \subseteq S /\ IsFiniteSet(T)
  BY <1>2, PickIn, FS_Subset
<1>4. Splits(T, y)
  BY <1>3, SumPicks
<1>. HIDE DEF y
<1>5. y # z
  BY <1>2, <1>4
<1>6. T \ {y} \in SUBSET S /\ T \ {z} \in SUBSET S /\ T \ {y} # T /\ T \ {z} # T
  BY <1>3
<1>7. T \ {y} \notin Bad /\ T \ {z} \notin Bad
  BY <1>1, <1>6
<1>8. Splits(T \ {y}, z) /\ Splits(T \ {z}, y)
  BY <1>3, <1>5, <1>6, <1>7
<1>9. (T \ {y}) \ {z} = (T \ {z}) \ {y}
  OBVIOUS
<1>. DEFINE R == (T \ {z}) \ {y}
<1>10. IsFiniteSet(R) /\ R \subseteq S
  BY <1>3, FS_Subset
<1>11. SumFunctionOnSet(a, R) \in Nat
  BY <1>10, SumType
<1>. HIDE DEF R
<1>12. /\ SumFunctionOnSet(a, T) = a[y] + SumFunctionOnSet(a, T \ {y})
       /\ SumFunctionOnSet(a, T \ {y}) = a[z] + SumFunctionOnSet(a, R)
       /\ SumFunctionOnSet(a, T \ {z}) = a[y] + SumFunctionOnSet(a, R)
  BY <1>4, <1>8, <1>9 DEF R
<1>13. a[y] \in Nat /\ a[z] \in Nat
  BY <1>3
<1>14. SumFunctionOnSet(a, T) = a[z] + SumFunctionOnSet(a, T \ {z})
  BY <1>11, <1>12, <1>13
<1>. QED BY <1>2, <1>14

\* An element may be added.
LEMMA SumAdd ==
  ASSUME NEW S, IsFiniteSet(S), NEW a, NEW x, x \notin S, \A i \in S \cup {x} : a[i] \in Nat
  PROVE  SumFunctionOnSet(a, S \cup {x}) = a[x] + SumFunctionOnSet(a, S)
<1>1. IsFiniteSet(S \cup {x}) /\ x \in S \cup {x} /\ (S \cup {x}) \ {x} = S
  BY FS_AddElement
<1>. QED BY <1>1, SumRemove

-----------------------------------------------------------------------------
(* What one allocation may take of the limits *)

Totals   == [positions : Nat, notional : Nat, symbol : Nat, risk : Nat]
Order(c) == c.price \in Nat /\ c.stop \in Nat /\ c.quantity \in Int
Cap      == [on : BOOLEAN, quantity : Nat]

\* Whole units never cost more than the amount they are cut from.
LEMMA UnitsFit ==
  ASSUME NEW amount \in Nat, NEW unit \in Nat \ {0}
  PROVE  QtyLimit(amount, unit) \in Nat /\ QtyLimit(amount, unit) * unit <= amount
<1>1. CASE amount = 0
  BY <1>1 DEF QtyLimit
<1>2. CASE amount > 0
  <2>1. amount \div unit \in Nat /\ (amount \div unit) * unit <= amount
    OBVIOUS
  <2>. QED BY <1>2, <2>1 DEF QtyLimit
<1>. QED BY <1>1, <1>2

\* Fewer units than fit cost no more either.
LEMMA FewerFit ==
  ASSUME NEW amount \in Nat, NEW unit \in Nat \ {0}, NEW q \in Nat, q <= QtyLimit(amount, unit)
  PROVE  q * unit <= amount
<1>. DEFINE most == QtyLimit(amount, unit)
<1>1. most \in Nat /\ most * unit <= amount
  BY UnitsFit
<1>. HIDE DEF most
<1>2. q <= most
  BY DEF most
<1>3. q * unit <= most * unit
  BY <1>1, <1>2
<1>4. q * unit \in Nat /\ most * unit \in Nat
  BY <1>1
<1>. QED BY <1>1, <1>3, <1>4

\* What is left of a limit, and what fits into it, stays within the limit.
LEMMA RestFits ==
  ASSUME NEW limit \in Nat, NEW used \in Nat, NEW unit \in Nat \ {0}, NEW q \in Nat \ {0},
         q <= QtyLimit(Remaining(limit, used), unit)
  PROVE  used + q * unit <= limit
<1>1. Remaining(limit, used) \in Nat
  BY DEF Remaining
<1>2. q * unit <= Remaining(limit, used)
  BY <1>1, FewerFit
<1>3. q * unit \in Nat
  OBVIOUS
<1>4. CASE limit > used
  BY <1>2, <1>3, <1>4 DEF Remaining
<1>5. CASE limit <= used
  <2>1. QtyLimit(Remaining(limit, used), unit) = 0
    BY <1>5 DEF Remaining, QtyLimit
  <2>. QED BY <2>1
<1>. QED BY <1>4, <1>5

\* A cap that leaves something is kept, and so is the quantity it was given.
LEMMA CappedFits ==
  ASSUME NEW q \in Nat \ {0}, NEW cap \in Cap, cap.on => cap.quantity # 0
  PROVE  /\ Capped(q, cap) \in Nat \ {0} /\ Capped(q, cap) <= q
         /\ cap.on => Capped(q, cap) <= cap.quantity
BY DEF Capped, Cap

\* A cap of a limit that is switched on applies.
LEMMA CapApplies ==
  ASSUME NEW cap, NEW limit, NEW unit, NEW most, NEW q, cap.on => q <= cap.quantity,
         cap = [on |-> limit > 0 /\ unit > 0, quantity |-> most], limit > 0, unit > 0
  PROVE  q <= most
<1>1. cap.on
  BY Zenon
<1>2. cap.quantity = most
  BY Zenon
<1>. QED BY <1>1, <1>2, Zenon

LEMMA CapsAreCaps ==
  ASSUME NEW c, Order(c), NEW open \in Totals, NEW limits \in Amounts
  PROVE  \A i \in 1 .. 5 : Caps(c, open, limits)[i] \in Cap
<1>1. \A amount, unit \in Nat : QtyLimit(amount, unit) \in Nat
  <2>. SUFFICES ASSUME NEW amount \in Nat, NEW unit \in Nat PROVE QtyLimit(amount, unit) \in Nat
    OBVIOUS
  <2>1. CASE unit = 0
    BY <2>1 DEF QtyLimit
  <2>2. CASE unit # 0
    BY <2>2, UnitsFit
  <2>. QED BY <2>1, <2>2
<1>2. \A limit, used \in Nat : Remaining(limit, used) \in Nat
  BY DEF Remaining
<1>3. UnitRisk(c) \in Nat /\ c.price \in Nat
  BY DEF UnitRisk, Order
<1>4. /\ limits.tradeRisk \in Nat /\ limits.position \in Nat
      /\ Remaining(limits.portfolio, open.notional) \in Nat
      /\ Remaining(limits.symbol, open.symbol) \in Nat
      /\ Remaining(limits.openRisk, open.risk) \in Nat
  BY <1>2 DEF Amounts, Totals
<1>5. Caps(c, open, limits)[1] \in Cap /\ Caps(c, open, limits)[2] \in Cap
  BY <1>1, <1>3, <1>4 DEF Caps, Cap
<1>6. Caps(c, open, limits)[3] \in Cap /\ Caps(c, open, limits)[4] \in Cap /\ Caps(c, open, limits)[5] \in Cap
  BY <1>1, <1>3, <1>4 DEF Caps, Cap
<1>. QED BY <1>5, <1>6

\* Whatever is allocated is a number of units.
LEMMA AllocationType ==
  ASSUME NEW c, Order(c), NEW open \in Totals, NEW limits \in Amounts
  PROVE  Allocate(c, open, limits).quantity \in Nat
<1>. DEFINE caps == Caps(c, open, limits)
<1>1. CASE c.quantity <= 0
  BY <1>1 DEF Allocate, Refused
<1>2. CASE c.quantity > 0
  <2>1. \A i \in 1 .. 5 : caps[i] \in Cap
    BY CapsAreCaps
  <2>. HIDE DEF caps
  <2>2. \A q \in Nat, i \in 1 .. 5 : Capped(q, caps[i]) \in Nat
    BY <2>1 DEF Capped, Cap
  <2>3. c.quantity \in Nat
    BY <1>2 DEF Order
  <2>4. AllCapped(c.quantity, caps) \in Nat
    <3>1. Capped(c.quantity, caps[1]) \in Nat
      BY <2>2, <2>3
    <3>2. Capped(Capped(c.quantity, caps[1]), caps[2]) \in Nat
      BY <2>2, <3>1
    <3>3. Capped(Capped(Capped(c.quantity, caps[1]), caps[2]), caps[3]) \in Nat
      BY <2>2, <3>2
    <3>. QED BY <2>2, <3>3 DEF AllCapped
  <2>. QED BY <1>2, <2>4 DEF Allocate, Refused, caps
<1>. QED BY <1>1, <1>2 DEF Order

\* An allocation that is not refused applies the five caps to a positive quantity.
LEMMA AllocationCaps ==
  ASSUME NEW c, Order(c), NEW open, NEW limits,
         Allocate(c, open, limits).reasons = {},
         AllCapped(c.quantity, Caps(c, open, limits)) # 0
  PROVE  /\ c.quantity \in Nat \ {0}
         /\ Allocate(c, open, limits).quantity = AllCapped(c.quantity, Caps(c, open, limits))
<1>1. c.quantity > 0
  <2>. SUFFICES ASSUME c.quantity <= 0 PROVE FALSE
    BY DEF Order
  <2>1. Allocate(c, open, limits) = Refused({"INVALID_QUANTITY"})
    BY DEF Allocate
  <2>. QED BY <2>1 DEF Refused
<1>2. ~limits.killSwitch
  <2>. SUFFICES ASSUME limits.killSwitch PROVE FALSE
    OBVIOUS
  <2>1. Allocate(c, open, limits) = Refused({"PORTFOLIO_KILL_SWITCH_ACTIVE"})
    BY <1>1 DEF Allocate, Order
  <2>. QED BY <2>1 DEF Refused
<1>3. ~(limits.positions > 0 /\ open.positions >= limits.positions)
  <2>. SUFFICES ASSUME limits.positions > 0 /\ open.positions >= limits.positions PROVE FALSE
    OBVIOUS
  <2>1. Allocate(c, open, limits) = Refused({"MAX_OPEN_POSITIONS"})
    BY <1>1, <1>2 DEF Allocate, Order
  <2>. QED BY <2>1 DEF Refused
<1>. DEFINE quantity == AllCapped(c.quantity, Caps(c, open, limits))
<1>4. Allocate(c, open, limits) = [quantity |-> quantity, reasons |-> {}]
  BY <1>1, <1>2, <1>3 DEF Allocate, Order
<1>. HIDE DEF quantity
<1>5. Allocate(c, open, limits).quantity = quantity
  BY <1>4
<1>. QED BY <1>1, <1>5 DEF Order, quantity

\* While no cap is exhausted, what is allocated to a candidate is at least one unit, at
\* most what was asked for, and stays, with all that is open, within every limit
\* that is switched on (risk_engine.py:107-190).  A candidate without a price or
\* without a risk adds nothing, and no cap is applied to it: then the limit holds if
\* it held before.  The exception of an exhausted cap is real: see BatchExposure.
THEOREM AllocationFits ==
  ASSUME NEW c, Order(c), NEW open \in Totals, NEW limits \in Amounts,
         ~Exhausted(Caps(c, open, limits)),
         Allocate(c, open, limits).reasons = {},
         NEW q, q = Allocate(c, open, limits).quantity
  PROVE  /\ q \in 1 .. c.quantity
         /\ limits.tradeRisk > 0 => q * UnitRisk(c) <= limits.tradeRisk
         /\ limits.position > 0 => q * c.price <= limits.position
         /\ limits.portfolio > 0 /\ (c.price > 0 \/ open.notional <= limits.portfolio) =>
              open.notional + q * c.price <= limits.portfolio
         /\ limits.symbol > 0 /\ (c.price > 0 \/ open.symbol <= limits.symbol) =>
              open.symbol + q * c.price <= limits.symbol
         /\ limits.openRisk > 0 /\ (UnitRisk(c) > 0 \/ open.risk <= limits.openRisk) =>
              open.risk + q * UnitRisk(c) <= limits.openRisk
<1>. DEFINE caps == Caps(c, open, limits)
            q1 == Capped(c.quantity, caps[1])
            q2 == Capped(q1, caps[2])
            q3 == Capped(q2, caps[3])
            q4 == Capped(q3, caps[4])
            q5 == Capped(q4, caps[5])
<1>1. c.quantity \in Nat \ {0}
  <2>1. c.quantity \in Int
    BY DEF Order
  <2>. SUFFICES ASSUME c.quantity <= 0 PROVE FALSE
    BY <2>1
  <2>2. Allocate(c, open, limits) = Refused({"INVALID_QUANTITY"})
    BY DEF Allocate
  <2>. QED BY <2>2 DEF Refused
<1>2. \A i \in 1 .. 5 : caps[i] \in Cap /\ (caps[i].on => caps[i].quantity # 0)
  BY CapsAreCaps DEF Exhausted
<1>. HIDE DEF caps
<1>3. q1 \in Nat \ {0} /\ q1 <= c.quantity /\ (caps[1].on => q1 <= caps[1].quantity)
  BY <1>1, <1>2, CappedFits
<1>. HIDE DEF q1
<1>4. q2 \in Nat \ {0} /\ q2 <= q1 /\ (caps[2].on => q2 <= caps[2].quantity)
  BY <1>2, <1>3, CappedFits
<1>. HIDE DEF q2
<1>5. q3 \in Nat \ {0} /\ q3 <= q2 /\ (caps[3].on => q3 <= caps[3].quantity)
  BY <1>2, <1>4, CappedFits
<1>. HIDE DEF q3
<1>6. q4 \in Nat \ {0} /\ q4 <= q3 /\ (caps[4].on => q4 <= caps[4].quantity)
  BY <1>2, <1>5, CappedFits
<1>. HIDE DEF q4
<1>7. q5 \in Nat \ {0} /\ q5 <= q4 /\ (caps[5].on => q5 <= caps[5].quantity)
  BY <1>2, <1>6, CappedFits
<1>. HIDE DEF q5
<1>8. q = q5
  <2>1. AllCapped(c.quantity, Caps(c, open, limits)) = q5
    BY DEF AllCapped, caps, q1, q2, q3, q4, q5
  <2>. QED BY <1>7, <2>1, AllocationCaps
<1>9. /\ q \in Nat \ {0} /\ q <= c.quantity
      /\ q <= q1 /\ q <= q2 /\ q <= q3 /\ q <= q4 /\ q <= q5
  BY <1>1, <1>3, <1>4, <1>5, <1>6, <1>7, <1>8
<1>10. \A i \in 1 .. 5 : caps[i].quantity \in Nat
  BY <1>2 DEF Cap
<1>11. \A i \in 1 .. 5 : caps[i].on => q <= caps[i].quantity
  BY <1>3, <1>4, <1>5, <1>6, <1>7, <1>9, <1>10
<1>12. /\ UnitRisk(c) \in Nat /\ c.price \in Nat
       /\ limits.tradeRisk \in Nat /\ limits.position \in Nat /\ limits.portfolio \in Nat
       /\ limits.symbol \in Nat /\ limits.openRisk \in Nat
       /\ open.notional \in Nat /\ open.symbol \in Nat /\ open.risk \in Nat
  BY DEF UnitRisk, Order, Amounts, Totals
\* One argument for a limit on one order, and one for a limit on all that is open.
<1>13. ASSUME NEW i \in 1 .. 5, NEW limit \in Nat, NEW unit \in Nat, limit > 0,
              caps[i] = [on |-> limit > 0 /\ unit > 0, quantity |-> QtyLimit(limit, unit)]
       PROVE  q * unit <= limit
  <2>1. CASE unit = 0
    BY <1>9, <1>13, <2>1
  <2>2. CASE unit # 0
    <3>1. q <= QtyLimit(limit, unit)
      BY <1>11, <1>13, <2>2, CapApplies
    <3>. QED BY <1>9, <2>2, <3>1, FewerFit
  <2>. QED BY <2>1, <2>2
<1>14. ASSUME NEW i \in 1 .. 5, NEW limit \in Nat, NEW used \in Nat, NEW unit \in Nat, limit > 0,
              caps[i] = [on |-> limit > 0 /\ unit > 0,
                         quantity |-> QtyLimit(Remaining(limit, used), unit)],
              unit > 0 \/ used <= limit
       PROVE  used + q * unit <= limit
  <2>1. CASE unit = 0
    BY <1>9, <1>14, <2>1
  <2>2. CASE unit # 0
    <3>1. q <= QtyLimit(Remaining(limit, used), unit)
      BY <1>11, <1>14, <2>2, CapApplies
    <3>. QED BY <1>9, <2>2, <3>1, RestFits
  <2>. QED BY <2>1, <2>2
<1>15. /\ caps[1] = [on |-> limits.tradeRisk > 0 /\ UnitRisk(c) > 0,
                     quantity |-> QtyLimit(limits.tradeRisk, UnitRisk(c))]
       /\ caps[2] = [on |-> limits.position > 0 /\ c.price > 0,
                     quantity |-> QtyLimit(limits.position, c.price)]
       /\ caps[3] = [on |-> limits.portfolio > 0 /\ c.price > 0,
                     quantity |-> QtyLimit(Remaining(limits.portfolio, open.notional), c.price)]
       /\ caps[4] = [on |-> limits.symbol > 0 /\ c.price > 0,
                     quantity |-> QtyLimit(Remaining(limits.symbol, open.symbol), c.price)]
       /\ caps[5] = [on |-> limits.openRisk > 0 /\ UnitRisk(c) > 0,
                     quantity |-> QtyLimit(Remaining(limits.openRisk, open.risk), UnitRisk(c))]
  BY DEF caps, Caps
<1>16. limits.tradeRisk > 0 => q * UnitRisk(c) <= limits.tradeRisk
  BY <1>12, <1>13, <1>15
<1>17. limits.position > 0 => q * c.price <= limits.position
  BY <1>12, <1>13, <1>15
<1>18. limits.portfolio > 0 /\ (c.price > 0 \/ open.notional <= limits.portfolio) =>
         open.notional + q * c.price <= limits.portfolio
  BY <1>12, <1>14, <1>15
<1>19. limits.symbol > 0 /\ (c.price > 0 \/ open.symbol <= limits.symbol) =>
         open.symbol + q * c.price <= limits.symbol
  BY <1>12, <1>14, <1>15
<1>20. limits.openRisk > 0 /\ (UnitRisk(c) > 0 \/ open.risk <= limits.openRisk) =>
         open.risk + q * UnitRisk(c) <= limits.openRisk
  BY <1>12, <1>14, <1>15
<1>21. q \in 1 .. c.quantity
  BY <1>1, <1>9
<1>. QED BY <1>16, <1>17, <1>18, <1>19, <1>20, <1>21

-----------------------------------------------------------------------------
(* Types *)

\* A candidate in hand is one the batch has yet to record.
InHand     == Before \cup After \cup {"refused"}
Unrecorded == \A w \in Sessions : At(w, InHand) => worker[w].todo # <<>>
TypeInv    == TypeOK /\ Unrecorded

LEMMA CandidatesAreOrders ==
  ASSUME NEW c \in Candidates
  PROVE  Order(c) /\ c # NoCandidate /\ c.symbol \in Symbols /\ c.symbol \in AllSymbols
BY WorkspaceAssumption DEF Order, Symbols, AllSymbols

LEMMA AmountType ==
  ASSUME NEW kind, NEW q \in Nat, NEW c, c.price \in Nat, c.stop \in Nat
  PROVE  Amount(kind, q, c) \in Nat
<1>1. UnitRisk(c) \in Nat
  BY DEF UnitRisk
<1>. QED BY <1>1 DEF Amount, Notional, Risk

LEMMA TypeOfWorker ==
  ASSUME TypeInv, NEW w \in Sessions
  PROVE  /\ worker[w] \in WorkerState
         /\ worker[w].rows \in Seq(Row) /\ worker[w].quantity \in Nat
         /\ At(w, InHand) => Current(w) \in Candidates /\ worker[w].todo # <<>>
         /\ worker[w].step \notin {"idle", "next"} => At(w, InHand)
         /\ RequestId(Current(w)) \in RequestIds \/ Current(w) = NoCandidate
<1>1. worker[w] \in WorkerState
  BY DEF TypeInv, TypeOK
<1>2. worker[w].rows \in Seq(Row) /\ worker[w].quantity \in Nat /\ worker[w].step \in Steps
      /\ worker[w].candidate \in Candidates \cup {NoCandidate}
  BY <1>1 DEF WorkerState
<1>3. worker[w].step \notin {"idle", "next"} <=> At(w, InHand)
  BY <1>2 DEF Steps, InHand, At, Before, After
<1>4. At(w, InHand) => Current(w) # NoCandidate /\ worker[w].todo # <<>>
  BY <1>3 DEF TypeInv, TypeOK, Unrecorded, At
<1>. QED BY <1>1, <1>2, <1>3, <1>4 DEF Current, RequestIds

LEMMA OpenRowsFinite ==
  ASSUME TypeInv, NEW w \in Sessions
  PROVE  /\ DOMAIN worker[w].rows = 1 .. Len(worker[w].rows) /\ Len(worker[w].rows) \in Nat
         /\ IsFiniteSet(OpenRows(w)) /\ Cardinality(OpenRows(w)) \in Nat
         /\ \A i \in OpenRows(w) : worker[w].rows[i] \in Row
<1>. DEFINE rows == worker[w].rows
<1>1. rows \in Seq(Row)
  BY TypeOfWorker
<1>. HIDE DEF rows
<1>2. DOMAIN rows = 1 .. Len(rows) /\ Len(rows) \in Nat /\ \A i \in 1 .. Len(rows) : rows[i] \in Row
  BY <1>1, LenProperties, ElementOfSeq
<1>3. OpenRows(w) \subseteq 1 .. Len(rows)
  BY <1>2 DEF OpenRows, rows
<1>4. IsFiniteSet(1 .. Len(rows))
  BY <1>2, FS_Interval
<1>. QED BY <1>2, <1>3, <1>4, FS_Subset, FS_CardinalityType DEF rows

LEMMA BatchTotalType ==
  ASSUME TypeInv, NEW w \in Sessions, NEW kind, NEW symbols
  PROVE  BatchTotal(w, kind, symbols) \in Nat
<1>. DEFINE rows == worker[w].rows
            S == {j \in OpenRows(w) : rows[j].candidate.symbol \in symbols}
            a == [i \in S |-> Amount(kind, rows[i].quantity, rows[i].candidate)]
<1>1. IsFiniteSet(S)
  BY OpenRowsFinite, FS_Subset
<1>2. ASSUME NEW i \in S PROVE a[i] \in Nat
  <2>1. rows[i].quantity \in Nat /\ rows[i].candidate \in Candidates
    BY OpenRowsFinite DEF Row
  <2>2. Order(rows[i].candidate)
    BY <2>1, CandidatesAreOrders
  <2>. QED BY <2>1, <2>2, AmountType DEF Order
<1>3. BatchTotal(w, kind, symbols) = SumFunctionOnSet(a, S)
  BY DEF BatchTotal, SumFunction
<1>. HIDE DEF a, S
<1>. QED BY <1>1, <1>2, <1>3, SumType

LEMMA ReviewedTotalType ==
  ASSUME TypeInv, NEW kind, NEW symbols
  PROVE  ReviewedTotal(kind, symbols) \in Nat
<1>. DEFINE S == {t \in OpenReviewed : t.symbol \in symbols}
            a == [r \in S |-> Amount(kind, r.quantity, r)]
<1>1. S \subseteq Reviewed
  BY DEF TypeInv, TypeOK, OpenReviewed
<1>2. IsFiniteSet(S)
  BY <1>1, FS_Subset, WorkspaceAssumption
<1>3. ASSUME NEW r \in S PROVE a[r] \in Nat
  BY <1>1, AmountType, WorkspaceAssumption
<1>4. ReviewedTotal(kind, symbols) = SumFunctionOnSet(a, S)
  BY DEF ReviewedTotal, SumFunction
<1>. HIDE DEF a, S
<1>. QED BY <1>2, <1>3, <1>4, SumType

LEMMA OpenType ==
  ASSUME TypeInv, NEW w \in Sessions, NEW c
  PROVE  Open(w, c) \in Totals
<1>1. \A kind, symbols : OpenTotal(w, kind, symbols) \in Nat
  BY BatchTotalType, ReviewedTotalType DEF OpenTotal
<1>2. IsFiniteSet(OpenReviewed)
  <2>1. OpenReviewed \subseteq Reviewed
    BY DEF TypeInv, TypeOK, OpenReviewed
  <2>. QED BY <2>1, FS_Subset, WorkspaceAssumption
<1>3. Cardinality(OpenRows(w)) + Cardinality(OpenReviewed) \in Nat
  BY <1>2, OpenRowsFinite, FS_CardinalityType
<1>. QED BY <1>1, <1>3 DEF Open, Totals

LEMMA AllocatedType ==
  ASSUME TypeInv, NEW w \in Sessions, NEW c \in Candidates
  PROVE  Allocation(w, c).quantity \in Nat
BY OpenType, CandidatesAreOrders, AllocationType, WorkspaceAssumption DEF Allocation

-----------------------------------------------------------------------------
(* Every step keeps the types *)

WorkersTyped ==
  /\ worker \in [Sessions -> WorkerState]
  /\ \A w \in Sessions : (Current(w) = NoCandidate) <=> At(w, {"idle", "next"})
  /\ Unrecorded

HistoryTyped ==
  /\ orders \in [Counters -> Nat] /\ uncounted \in [Counters -> Nat]
  /\ burst \in [CoolKeys -> Nat] /\ unmarked \in [CoolKeys -> Nat]

LEMMA UpdateTyped ==
  ASSUME WorkersTyped, NEW w \in Sessions, NEW new \in WorkerState, Update(w, new),
         (new.candidate = NoCandidate) <=> new.step \in {"idle", "next"},
         new.step \in InHand => new.todo # <<>>
  PROVE  WorkersTyped'
<1>1. worker' \in [Sessions -> WorkerState]
  BY DEF WorkersTyped, Update
<1>2. \A v \in Sessions : worker'[v] = IF v = w THEN new ELSE worker[v]
  BY DEF WorkersTyped, Update
<1>. QED BY <1>1, <1>2 DEF WorkersTyped, Unrecorded, Current, At

LEMMA GotoTyped ==
  ASSUME TypeInv, NEW w \in Sessions, At(w, InHand), NEW s \in InHand, Goto(w, s)
  PROVE  WorkersTyped'
<1>. DEFINE new == [worker[w] EXCEPT !.step = s]
<1>1. worker[w] \in WorkerState /\ Current(w) \in Candidates /\ worker[w].todo # <<>>
  BY TypeOfWorker
<1>2. s \in Steps /\ s \notin {"idle", "next"}
  BY DEF InHand, Steps, Before, After
<1>3. new \in WorkerState /\ new.step = s /\ new.candidate = Current(w) /\ new.todo = worker[w].todo
  BY <1>1, <1>2 DEF WorkerState, Current
<1>4. Update(w, new)
  BY DEF Goto
<1>5. new.candidate # NoCandidate
  BY <1>1, <1>3, CandidatesAreOrders
<1>6. WorkersTyped
  BY DEF TypeInv, TypeOK, WorkersTyped
<1>. HIDE DEF new
<1>. QED BY <1>1, <1>2, <1>3, <1>4, <1>5, <1>6, UpdateTyped

LEMMA RecordTyped ==
  ASSUME TypeInv, NEW w \in Sessions, worker[w].todo # <<>>,
         NEW c \in Candidates, NEW q \in Nat, NEW st \in Status, NEW ex \in BOOLEAN,
         Record(w, c, q, st, ex)
  PROVE  WorkersTyped'
<1>. DEFINE row == [candidate |-> c, quantity |-> q, status |-> st, exhausted |-> ex]
            new == [worker[w] EXCEPT
                      !.step = "next", !.todo = Tail(worker[w].todo), !.keys = @ \cup {TradeKey(c)},
                      !.rows = Append(@, row),
                      !.candidate = NoCandidate, !.quantity = 0, !.exhausted = FALSE]
<1>1. worker[w] \in WorkerState
  BY TypeOfWorker
<1>2. Tail(worker[w].todo) \in Seq(Candidates)
  BY <1>1, HeadTailProperties DEF WorkerState
<1>3. row \in Row
  BY DEF Row
<1>4. Append(worker[w].rows, row) \in Seq(Row)
  <2>. HIDE DEF row
  <2>1. worker[w].rows \in Seq(Row)
    BY <1>1 DEF WorkerState
  <2>. QED BY <1>3, <2>1
<1>5. "next" \in Steps /\ NoCandidate \in Candidates \cup {NoCandidate} /\ "next" \notin InHand
  BY DEF Steps, InHand, Before, After
<1>6. worker[w].keys \cup {TradeKey(c)} \in SUBSET {TradeKey(d) : d \in Candidates}
  BY <1>1 DEF WorkerState
<1>7. /\ new \in WorkerState
      /\ new.step = "next" /\ new.candidate = NoCandidate
  <2>. HIDE DEF row
  <2>. QED BY <1>1, <1>2, <1>4, <1>5, <1>6 DEF WorkerState
<1>8. Update(w, new)
  BY DEF Record
<1>9. WorkersTyped
  BY DEF TypeInv, TypeOK, WorkersTyped
<1>. HIDE DEF new
<1>. QED BY <1>5, <1>7, <1>8, <1>9, UpdateTyped

LEMMA RecordCurrentTyped ==
  ASSUME TypeInv, NEW w \in Sessions, At(w, InHand), NEW st \in Status, RecordCurrent(w, st)
  PROVE  WorkersTyped'
<1>1. Current(w) \in Candidates /\ worker[w].todo # <<>> /\ worker[w].quantity \in Nat
  BY TypeOfWorker
<1>2. worker[w].exhausted \in BOOLEAN
  BY TypeOfWorker DEF WorkerState
<1>. QED BY <1>1, <1>2, RecordTyped DEF RecordCurrent

LEMMA IdleType == Idle \in WorkerState /\ Idle.step = "idle" /\ Idle.candidate = NoCandidate
<1>1. <<>> \in Seq(Candidates) /\ <<>> \in Seq(Row)
  BY EmptySeq
<1>2. "idle" \in Steps
  BY DEF Steps
<1>. QED BY <1>1, <1>2 DEF Idle, WorkerState

LEMMA IdleTyped ==
  ASSUME TypeInv, NEW w \in Sessions, Update(w, Idle)
  PROVE  WorkersTyped'
<1>1. WorkersTyped
  BY DEF TypeInv, TypeOK, WorkersTyped
<1>2. "idle" \notin InHand
  BY DEF InHand, Before, After
<1>. QED BY <1>1, <1>2, IdleType, UpdateTyped

\* What a stopped session keeps from the store is a number.
LEMMA ForgetTyped ==
  ASSUME HistoryTyped, NEW w \in Sessions, Forget({w}), UNCHANGED <<orders, burst>>
  PROVE  HistoryTyped'
<1>1. \A P \in SUBSET {w} : Cardinality(P) \in Nat
  BY FS_Singleton, FS_Subset, FS_CardinalityType
<1>2. ASSUME NEW k \in Counters
      PROVE  uncounted[k] + Cardinality({v \in {w} : At(v, {"placed", "marked"}) /\ Counter(v, Current(v)) = k}) \in Nat
  BY <1>1 DEF HistoryTyped
<1>3. ASSUME NEW k \in CoolKeys
      PROVE  unmarked[k] + Cardinality({v \in {w} : At(v, {"placed"}) /\ CoolKey(v, Current(v)) = k}) \in Nat
  BY <1>1 DEF HistoryTyped
<1>4. uncounted' \in [Counters -> Nat]
  BY <1>2 DEF Forget
<1>5. unmarked' \in [CoolKeys -> Nat]
  BY <1>3 DEF Forget
<1>. QED BY <1>4, <1>5 DEF HistoryTyped, Counters, CoolKeys

StoreTyped ==
  /\ dedup \subseteq Stores \X RequestIds /\ cooldown \subseteq CoolKeys
  /\ count \in [Counters -> Nat]

TablesTyped ==
  /\ booked \subseteq Reviewed /\ closed \subseteq booked
  /\ results \in [RequestIds -> Results \cup {None}]
  /\ batches \in [Sessions -> Nat] /\ faults \in Nat

LEMMA TypeParts ==
  /\ TypeInv => TablesTyped /\ StoreTyped /\ WorkersTyped /\ HistoryTyped
  /\ TablesTyped' /\ StoreTyped' /\ WorkersTyped' /\ HistoryTyped' => TypeInv'
BY DEF TypeInv, TypeOK, TablesTyped, StoreTyped, WorkersTyped, HistoryTyped

LEMMA StoreStays == ASSUME StoreTyped, UNCHANGED store PROVE StoreTyped'
BY DEF StoreTyped, store, Counters, CoolKeys

LEMMA HistoryStays == ASSUME HistoryTyped, UNCHANGED history PROVE HistoryTyped'
BY DEF HistoryTyped, history, Counters, CoolKeys

LEMMA FaultTyped == ASSUME TablesTyped, Fault, UNCHANGED <<tables, results, batches>> PROVE TablesTyped'
BY DEF TablesTyped, Fault, tables, RequestIds

LEMMA TablesStay == ASSUME TablesTyped, UNCHANGED <<tables, results, batches, faults>> PROVE TablesTyped'
BY DEF TablesTyped, tables, RequestIds

\* The keys under which the store knows a candidate are those of its tables.
LEMMA KeysTyped ==
  ASSUME NEW w \in Sessions, NEW c \in Candidates
  PROVE  /\ Counter(w, c) \in Counters /\ CoolKey(w, c) \in CoolKeys
         /\ RequestId(c) \in RequestIds /\ StoreOf[w] \in Stores
BY DEF Counter, CoolKey, Counters, CoolKeys, RequestIds, Stores, Symbols

LEMMA BlockTyped == ASSUME TypeInv, NEW w \in Sessions, Block(w) PROVE TypeInv'
<1>. DEFINE c == Head(worker[w].todo)
<1>1. worker[w].todo \in Seq(Candidates) /\ worker[w].todo # <<>>
  BY TypeOfWorker DEF WorkerState, Block, Upcoming
<1>2. c \in Candidates
  BY <1>1, HeadTailProperties
<1>. HIDE DEF c
<1>3. Allocation(w, c).quantity \in Nat
  BY <1>2, AllocatedType
<1>4. Record(w, c, Allocation(w, c).quantity, "BLOCKED", FALSE)
  BY DEF Block, c
<1>5. WorkersTyped'
  BY <1>1, <1>2, <1>3, <1>4, RecordTyped DEF Status
<1>. QED BY <1>5, TypeParts, StoreStays, HistoryStays, TablesStay DEF Block

LEMMA PassTyped == ASSUME TypeInv, NEW w \in Sessions, Pass(w) PROVE TypeInv'
<1>. DEFINE c == Head(worker[w].todo)
            q == Allocation(w, c).quantity
            ex == Exhausted(Caps(c, Open(w, c), Limits))
            new == [worker[w] EXCEPT !.step = "saving", !.candidate = c, !.quantity = q, !.exhausted = ex]
<1>1. worker[w].todo \in Seq(Candidates) /\ worker[w].todo # <<>> /\ worker[w] \in WorkerState
  BY TypeOfWorker DEF WorkerState, Pass, Upcoming
<1>2. c \in Candidates
  BY <1>1, HeadTailProperties
<1>3. q \in Nat /\ ex \in BOOLEAN
  BY <1>2, AllocatedType DEF Exhausted
<1>4. \/ results[RequestId(c)] # None /\ Record(w, c, q, results[RequestId(c)], ex)
      \/ Update(w, new)
  BY DEF Pass
<1>. HIDE DEF c, q, ex
<1>5. CASE results[RequestId(c)] # None /\ Record(w, c, q, results[RequestId(c)], ex)
  <2>1. results[RequestId(c)] \in Status
    BY <1>2, <1>5 DEF TypeInv, TypeOK, RequestIds, Results, Status
  <2>2. WorkersTyped'
    BY <1>1, <1>2, <1>3, <1>5, <2>1, RecordTyped
  <2>. QED BY <2>2, TypeParts, StoreStays, HistoryStays, TablesStay DEF Pass
<1>6. CASE Update(w, new)
  <2>1. "saving" \in Steps /\ "saving" \notin {"idle", "next"}
    BY DEF Steps, Before
  <2>2. c # NoCandidate
    BY <1>2, CandidatesAreOrders
  <2>3. new \in WorkerState /\ new.step = "saving" /\ new.candidate = c /\ new.todo # <<>>
    BY <1>1, <1>2, <1>3, <2>1 DEF WorkerState
  <2>4. WorkersTyped
    BY TypeParts
  <2>. HIDE DEF new
  <2>5. WorkersTyped'
    BY <1>6, <2>1, <2>2, <2>3, <2>4, UpdateTyped
  <2>. QED BY <2>5, TypeParts, StoreStays, HistoryStays, TablesStay DEF Pass
<1>. QED BY <1>4, <1>5, <1>6

LEMMA StartTyped == ASSUME TypeInv, NEW w \in Sessions, Start(w) PROVE TypeInv'
<1>. DEFINE new == [Idle EXCEPT !.step = "next", !.todo = Batch[w]]
<1>1. "next" \in Steps /\ "next" \notin InHand
  BY DEF Steps, InHand, Before, After
<1>2. new \in WorkerState /\ new.step = "next" /\ new.candidate = NoCandidate
  BY <1>1, IdleType, WorkspaceAssumption DEF WorkerState
<1>3. Update(w, new)
  BY DEF Start
<1>. HIDE DEF new
<1>4. WorkersTyped'
  BY <1>1, <1>2, <1>3, TypeParts, UpdateTyped
<1>5. batches' \in [Sessions -> Nat]
  BY OneMore DEF Start, TypeInv, TypeOK
<1>6. TablesTyped'
  BY <1>5, TypeParts DEF Start, tables, TablesTyped, RequestIds
<1>. QED BY <1>4, <1>6, TypeParts, StoreStays, HistoryStays DEF Start

\* Within the canonical service: a step that leaves tables and results alone.
LEMMA GotoKeepsTypes ==
  ASSUME TypeInv, NEW w \in Sessions, At(w, InHand), NEW s \in InHand, Goto(w, s),
         StoreTyped', HistoryTyped', UNCHANGED <<tables, results, batches>>,
         UNCHANGED faults \/ Fault
  PROVE  TypeInv'
<1>1. WorkersTyped'
  BY GotoTyped
<1>2. TablesTyped'
  BY TypeParts, FaultTyped, TablesStay
<1>. QED BY <1>1, <1>2, TypeParts

LEMMA FinishTyped == ASSUME TypeInv, NEW w \in Sessions, Finish(w) PROVE TypeInv'
BY IdleTyped, TypeParts, StoreStays, HistoryStays, TablesStay DEF Finish

LEMMA SaveRequestTyped == ASSUME TypeInv, NEW w \in Sessions, SaveRequest(w) PROVE TypeInv'
<1>1. At(w, InHand) /\ "checking" \in InHand /\ "ERROR" \in Status
  BY DEF SaveRequest, At, InHand, Before, Status
<1>2. StoreTyped' /\ HistoryTyped' /\ TablesTyped'
  BY TypeParts, StoreStays, HistoryStays, TablesStay DEF SaveRequest
<1>3. WorkersTyped'
  BY <1>1, GotoTyped, RecordCurrentTyped DEF SaveRequest
<1>. QED BY <1>2, <1>3, TypeParts

LEMMA ChecksTyped ==
  ASSUME TypeInv, NEW w \in Sessions, CheckMarks(w) \/ CheckCount(w)
  PROVE  TypeInv'
<1>1. At(w, InHand) /\ "refused" \in InHand /\ "counting" \in InHand /\ "cleared" \in InHand
  BY DEF CheckMarks, CheckCount, At, InHand, Before
<1>2. PICK s \in InHand : Goto(w, s)
  BY <1>1 DEF CheckMarks, CheckCount
<1>3. UNCHANGED <<tables, results, store, batches, faults, history>>
  BY DEF CheckMarks, CheckCount
<1>4. StoreTyped' /\ HistoryTyped'
  BY <1>3, TypeParts, StoreStays, HistoryStays
<1>. QED BY <1>1, <1>2, <1>3, <1>4, GotoKeepsTypes

LEMMA BlindChecksTyped ==
  ASSUME TypeInv, NEW w \in Sessions, CheckMarksBlindly(w) \/ CheckCountBlindly(w)
  PROVE  TypeInv'
<1>1. At(w, InHand) /\ "refused" \in InHand /\ "counting" \in InHand /\ "cleared" \in InHand
  BY DEF CheckMarksBlindly, CheckCountBlindly, At, InHand, Before
<1>2. PICK s \in InHand : Goto(w, s)
  BY <1>1 DEF CheckMarksBlindly, CheckCountBlindly
<1>3. UNCHANGED <<tables, results, store, batches>> /\ Fault
  BY DEF CheckMarksBlindly, CheckCountBlindly
<1>4. HistoryTyped'
  BY TypeParts, OneMore DEF CheckMarksBlindly, CheckCountBlindly, HistoryTyped, history, Counters, CoolKeys
<1>5. StoreTyped'
  BY <1>3, TypeParts, StoreStays
<1>. QED BY <1>1, <1>2, <1>3, <1>4, <1>5, GotoKeepsTypes

LEMMA OrderTyped ==
  ASSUME TypeInv, NEW w \in Sessions,
         PlaceOrder(w) \/ SetMarks(w) \/ LoseMarks(w) \/ CountTrade(w) \/ LoseCount(w)
  PROVE  TypeInv'
<1>1. At(w, InHand) /\ "placed" \in InHand /\ "marked" \in InHand /\ "counted" \in InHand
  BY DEF PlaceOrder, SetMarks, LoseMarks, CountTrade, LoseCount, At, InHand, Before, After
<1>2. PICK s \in InHand : Goto(w, s)
  BY <1>1 DEF PlaceOrder, SetMarks, LoseMarks, CountTrade, LoseCount
<1>3. UNCHANGED <<tables, results, batches>> /\ (UNCHANGED faults \/ Fault)
  BY DEF PlaceOrder, SetMarks, LoseMarks, CountTrade, LoseCount
<1>4. StoreTyped /\ HistoryTyped /\ Current(w) \in Candidates
  BY <1>1, TypeParts, TypeOfWorker
<1>5. CASE PlaceOrder(w)
  <2>1. StoreTyped'
    BY <1>4, <1>5, StoreStays DEF PlaceOrder
  <2>2. HistoryTyped'
    BY <1>4, <1>5, OneMore DEF PlaceOrder, HistoryTyped, Counters, CoolKeys
  <2>. QED BY <1>1, <1>2, <1>3, <2>1, <2>2, GotoKeepsTypes
<1>6. CASE SetMarks(w)
  <2>1. HistoryTyped'
    BY <1>4, <1>6, HistoryStays DEF SetMarks
  <2>2. StoreTyped'
    BY <1>4, <1>6, KeysTyped DEF SetMarks, StoreTyped, Counters, CoolKeys
  <2>. QED BY <1>1, <1>2, <1>3, <2>1, <2>2, GotoKeepsTypes
<1>7. CASE CountTrade(w)
  <2>1. HistoryTyped'
    BY <1>4, <1>7, HistoryStays DEF CountTrade
  <2>2. StoreTyped'
    BY <1>4, <1>7, OneMore DEF CountTrade, StoreTyped, Counters, CoolKeys
  <2>. QED BY <1>1, <1>2, <1>3, <2>1, <2>2, GotoKeepsTypes
<1>8. CASE LoseMarks(w) \/ LoseCount(w)
  <2>1. StoreTyped'
    BY <1>4, <1>8, StoreStays DEF LoseMarks, LoseCount
  <2>2. HistoryTyped'
    <3>1. CASE LoseMarks(w)
      BY <1>4, <3>1, OneMore DEF LoseMarks, HistoryTyped, Counters, CoolKeys
    <3>2. CASE LoseCount(w)
      BY <1>4, <3>2, OneMore DEF LoseCount, HistoryTyped, Counters, CoolKeys
    <3>. QED BY <1>8, <3>1, <3>2
  <2>. QED BY <1>1, <1>2, <1>3, <2>1, <2>2, GotoKeepsTypes
<1>. QED BY <1>5, <1>6, <1>7, <1>8

LEMMA CommitTyped == ASSUME TypeInv, NEW w \in Sessions, CommitResult(w) PROVE TypeInv'
<1>. DEFINE status == IF At(w, {"counted"}) THEN "EXECUTED" ELSE "REJECTED"
<1>1. At(w, InHand)
  BY DEF CommitResult, At, InHand, After
<1>2. status \in Status /\ status \in Results
  BY DEF Status, Results
<1>3. results' = [results EXCEPT ![RequestId(Current(w))] = status] /\ RecordCurrent(w, status)
  BY DEF CommitResult
<1>. HIDE DEF status
<1>4. WorkersTyped'
  BY <1>1, <1>2, <1>3, RecordCurrentTyped
<1>5. results' \in [RequestIds -> Results \cup {None}]
  BY <1>2, <1>3, TypeParts DEF TablesTyped
<1>6. TablesTyped'
  BY <1>5, TypeParts DEF CommitResult, tables, TablesTyped, RequestIds
<1>. QED BY <1>4, <1>6, TypeParts, StoreStays, HistoryStays DEF CommitResult

LEMMA StopTyped ==
  ASSUME TypeInv, NEW w \in Sessions, SignalFails(w) \/ Crash(w)
  PROVE  TypeInv'
<1>1. WorkersTyped'
  <2>1. CASE SignalFails(w)
    <3>1. At(w, InHand) /\ "ERROR" \in Status
      BY <2>1 DEF SignalFails, At, InHand, Before, After, Status
    <3>. QED BY <2>1, <3>1, RecordCurrentTyped DEF SignalFails
  <2>2. CASE Crash(w)
    BY <2>2, IdleTyped DEF Crash
  <2>. QED BY <2>1, <2>2
<1>2. HistoryTyped'
  BY TypeParts, ForgetTyped DEF SignalFails, Crash
<1>3. StoreTyped' /\ TablesTyped'
  BY TypeParts, StoreStays, FaultTyped DEF SignalFails, Crash
<1>. QED BY <1>1, <1>2, <1>3, TypeParts

LEMMA StoreLostTyped == ASSUME TypeInv, NEW s, StoreLost(s) PROVE TypeInv'
<1>1. /\ TablesTyped /\ StoreTyped /\ WorkersTyped /\ HistoryTyped
      /\ Idle \in WorkerState /\ Idle.step = "idle" /\ Idle.candidate = NoCandidate
      /\ "idle" \notin InHand
  BY TypeParts, IdleType DEF InHand, Before, After
<1>2. \A v \in Sessions : worker'[v] = Idle \/ worker'[v] = worker[v]
  BY DEF StoreLost
<1>3. worker' \in [Sessions -> WorkerState]
  BY <1>1 DEF StoreLost, WorkersTyped
<1>4. WorkersTyped'
  BY <1>1, <1>2, <1>3 DEF WorkersTyped, Unrecorded, Current, At
<1>5. StoreTyped'
  BY <1>1 DEF StoreLost, StoreTyped, Counters, CoolKeys
<1>6. HistoryTyped'
  BY <1>1 DEF StoreLost, HistoryTyped, Counters, CoolKeys
<1>7. TablesTyped'
  BY <1>1, FaultTyped DEF StoreLost
<1>. QED BY <1>4, <1>5, <1>6, <1>7, TypeParts

LEMMA ExpireTyped == ASSUME TypeInv, NEW k \in CoolKeys, Expire(k) PROVE TypeInv'
<1>1. TablesTyped /\ StoreTyped /\ WorkersTyped /\ HistoryTyped
  BY TypeParts
<1>2. TablesTyped' /\ WorkersTyped'
  BY <1>1 DEF Expire, tables, TablesTyped, WorkersTyped, Unrecorded, At, Current, RequestIds
<1>3. StoreTyped' /\ HistoryTyped'
  BY <1>1 DEF Expire, StoreTyped, HistoryTyped, Counters, CoolKeys
<1>. QED BY <1>2, <1>3, TypeParts

LEMMA ReviewedTyped ==
  ASSUME TypeInv, NEW r \in Reviewed, BookReviewed(r) \/ CloseReviewed(r)
  PROVE  TypeInv'
<1>1. TablesTyped /\ StoreTyped /\ WorkersTyped /\ HistoryTyped
  BY TypeParts
<1>2. WorkersTyped' /\ StoreTyped' /\ HistoryTyped'
  BY <1>1, StoreStays, HistoryStays DEF BookReviewed, CloseReviewed, WorkersTyped, Unrecorded, At, Current
<1>3. TablesTyped'
  BY <1>1 DEF BookReviewed, CloseReviewed, TablesTyped, RequestIds
<1>. QED BY <1>2, <1>3, TypeParts

LEMMA InitTyped == Init => TypeInv
<1>. SUFFICES ASSUME Init PROVE TypeInv
  OBVIOUS
<1>1. 0 \in Nat /\ None \in Results \cup {None}
  OBVIOUS
<1>2. \A w \in Sessions : worker[w] = Idle
  BY DEF Init
<1>3. worker \in [Sessions -> WorkerState]
  BY IdleType DEF Init
<1>4. Unrecorded /\ \A w \in Sessions : (Current(w) = NoCandidate) <=> At(w, {"idle", "next"})
  BY <1>2, IdleType DEF Unrecorded, Current, At, InHand, Before, After
<1>5. TypeOK
  BY <1>1, <1>3, <1>4 DEF Init, TypeOK
<1>. QED BY <1>4, <1>5 DEF TypeInv

LEMMA NextTyped == TypeInv /\ [Next]_vars => TypeInv'
<1>. SUFFICES ASSUME TypeInv, [Next]_vars PROVE TypeInv'
  OBVIOUS
<1>1. CASE UNCHANGED vars
  <2>1. TablesTyped /\ StoreTyped /\ WorkersTyped /\ HistoryTyped
    BY TypeParts
  <2>2. UNCHANGED <<tables, results, store, worker, batches, faults, history>>
    BY <1>1 DEF vars
  <2>3. WorkersTyped'
    BY <2>1, <2>2 DEF WorkersTyped, Unrecorded, At, Current
  <2>. QED BY <2>1, <2>2, <2>3, TypeParts, StoreStays, HistoryStays, TablesStay
<1>2. ASSUME NEW w \in Sessions, Decide(w) \/ Proceed(w) PROVE TypeInv'
  BY <1>2, BlockTyped, PassTyped, SaveRequestTyped, ChecksTyped, OrderTyped, CommitTyped, FinishTyped
  DEF Decide, Proceed
<1>3. ASSUME NEW w \in Sessions,
             CheckMarksBlindly(w) \/ CheckCountBlindly(w) \/ LoseMarks(w) \/ LoseCount(w)
             \/ SignalFails(w) \/ Crash(w)
      PROVE  TypeInv'
  BY <1>3, BlindChecksTyped, OrderTyped, StopTyped
<1>. QED BY <1>1, <1>2, <1>3, StartTyped, ReviewedTyped, StoreLostTyped, ExpireTyped DEF Next

LEMMA TypeInvHolds == Spec => []TypeInv
<1>. QED BY InitTyped, NextTyped, PTL DEF Spec

\* Tables, store, sessions and histories hold values of their kinds, whatever the
\* sessions do and whatever fails; in particular no quantity is ever negative.
THEOREM TypeCorrect == Spec => []TypeOK
<1>1. TypeInv => TypeOK
  BY DEF TypeInv
<1>. QED BY <1>1, TypeInvHolds, PTL

-----------------------------------------------------------------------------
(* The totals of a batch *)

LEMMA SumGrows ==
  ASSUME NEW S, IsFiniteSet(S), NEW x, x \notin S, NEW f, DOMAIN f = S,
         NEW g, DOMAIN g = S \cup {x}, \A i \in S : g[i] = f[i] /\ f[i] \in Nat, g[x] \in Nat
  PROVE  SumFunction(g) = SumFunction(f) + g[x]
<1>1. \A i \in S \cup {x} : g[i] \in Nat
  OBVIOUS
<1>2. SumFunctionOnSet(g, S \cup {x}) = g[x] + SumFunctionOnSet(g, S)
  BY <1>1, SumAdd
<1>3. SumFunctionOnSet(g, S) = SumFunctionOnSet(f, S)
  BY SumSame
<1>4. SumFunctionOnSet(f, S) \in Nat
  BY SumType
<1>. QED BY <1>2, <1>3, <1>4 DEF SumFunction

\* What a row adds to a total.
Share(kind, symbols, c, q) == IF c.symbol \in symbols THEN Amount(kind, q, c) ELSE 0

LEMMA ShareType ==
  ASSUME NEW c \in Candidates, NEW q \in Nat, NEW kind, NEW symbols
  PROVE  Share(kind, symbols, c, q) \in Nat
BY CandidatesAreOrders, AmountType DEF Share, Order

\* The rows after a candidate is recorded.
LEMMA RecordRows ==
  ASSUME TypeInv, NEW w \in Sessions, NEW c, NEW q, NEW st, NEW ex, Record(w, c, q, st, ex)
  PROVE  LET n == Len(worker[w].rows) + 1
             row == [candidate |-> c, quantity |-> q, status |-> st, exhausted |-> ex]
         IN  /\ n \notin OpenRows(w) /\ worker'[w].step = "next"
             /\ \A i \in OpenRows(w) : worker'[w].rows[i] = worker[w].rows[i]
             /\ worker'[w].rows[n] = row
             /\ OpenRows(w)' = OpenRows(w) \cup (IF st = "EXECUTED" THEN {n} ELSE {})
<1>. DEFINE rows == worker[w].rows
            n == Len(rows) + 1
            row == [candidate |-> c, quantity |-> q, status |-> st, exhausted |-> ex]
<1>1. worker[w] \in WorkerState /\ rows \in Seq(Row) /\ DOMAIN rows = 1 .. Len(rows) /\ Len(rows) \in Nat
  BY TypeOfWorker, OpenRowsFinite
<1>2. worker'[w].rows = Append(rows, row) /\ worker'[w].step = "next"
  <2>1. worker \in [Sessions -> WorkerState]
    BY DEF TypeInv, TypeOK
  <2>. QED BY <1>1, <2>1 DEF Record, Update, WorkerState
<1>. HIDE DEF row, rows
<1>3. /\ DOMAIN Append(rows, row) = 1 .. n /\ Append(rows, row)[n] = row
      /\ \A i \in 1 .. Len(rows) : Append(rows, row)[i] = rows[i]
  BY <1>1
<1>4. OpenRows(w) = {i \in 1 .. Len(rows) : rows[i].status = "EXECUTED"}
  BY <1>1 DEF OpenRows, rows
<1>5. OpenRows(w)' = {i \in 1 .. n : Append(rows, row)[i].status = "EXECUTED"}
  BY <1>2, <1>3 DEF OpenRows
<1>6. row.status = st
  BY DEF row
<1>7. 1 .. n = 1 .. Len(rows) \cup {n} /\ n \notin 1 .. Len(rows)
  BY <1>1
<1>8. OpenRows(w)' = OpenRows(w) \cup (IF st = "EXECUTED" THEN {n} ELSE {})
  BY <1>3, <1>4, <1>5, <1>6, <1>7
<1>. QED BY <1>2, <1>3, <1>4, <1>7, <1>8 DEF rows, row

\* An executed row adds its amount to the totals of its symbol; other rows add nothing.
LEMMA RecordTotal ==
  ASSUME TypeInv, NEW w \in Sessions, NEW c \in Candidates, NEW q \in Nat, NEW st, NEW ex,
         Record(w, c, q, st, ex), NEW kind, NEW symbols
  PROVE  BatchTotal(w, kind, symbols)'
           = BatchTotal(w, kind, symbols)
             + (IF st = "EXECUTED" THEN Share(kind, symbols, c, q) ELSE 0)
<1>. DEFINE n == Len(worker[w].rows) + 1
            row == [candidate |-> c, quantity |-> q, status |-> st, exhausted |-> ex]
            before == worker[w].rows
            after == worker'[w].rows
            S == {j \in OpenRows(w) : before[j].candidate.symbol \in symbols}
            T == {j \in OpenRows(w)' : after[j].candidate.symbol \in symbols}
            f == [i \in S |-> Amount(kind, before[i].quantity, before[i].candidate)]
            g == [i \in T |-> Amount(kind, after[i].quantity, after[i].candidate)]
<1>1. BatchTotal(w, kind, symbols) = SumFunction(f) /\ BatchTotal(w, kind, symbols)' = SumFunction(g)
  BY DEF BatchTotal
<1>2. /\ n \notin OpenRows(w) /\ \A i \in OpenRows(w) : after[i] = before[i]
      /\ after[n] = row
      /\ OpenRows(w)' = OpenRows(w) \cup (IF st = "EXECUTED" THEN {n} ELSE {})
  BY RecordRows
<1>3. row.candidate = c /\ row.quantity = q
  OBVIOUS
<1>4. IsFiniteSet(S) /\ BatchTotal(w, kind, symbols) \in Nat
  BY OpenRowsFinite, BatchTotalType, FS_Subset
<1>5. \A i \in S : f[i] \in Nat
  <2>. SUFFICES ASSUME NEW i \in S PROVE f[i] \in Nat
    OBVIOUS
  <2>1. before[i].quantity \in Nat /\ before[i].candidate \in Candidates
    BY OpenRowsFinite DEF Row
  <2>2. Order(before[i].candidate)
    BY <2>1, CandidatesAreOrders
  <2>. QED BY <2>1, <2>2, AmountType DEF Order
<1>. HIDE DEF n, row, before, after
<1>6. CASE st = "EXECUTED" /\ c.symbol \in symbols
  <2>1. T = S \cup {n} /\ n \notin S
    BY <1>2, <1>3, <1>6
  <2>2. g[n] = Amount(kind, q, c) /\ g[n] \in Nat
    BY <1>2, <1>3, <1>6, <2>1, ShareType DEF Share
  <2>3. \A i \in S : g[i] = f[i]
    BY <1>2, <2>1
  <2>4. DOMAIN f = S /\ DOMAIN g = S \cup {n}
    BY <2>1
  <2>. HIDE DEF f, g, S, T
  <2>5. SumFunction(g) = SumFunction(f) + g[n]
    BY <1>4, <1>5, <2>1, <2>2, <2>3, <2>4, SumGrows
  <2>. QED BY <1>1, <1>6, <2>2, <2>5 DEF Share
<1>7. CASE ~(st = "EXECUTED" /\ c.symbol \in symbols)
  <2>1. T = S
    BY <1>2, <1>3, <1>7
  <2>2. f = g
    BY <1>2, <2>1
  <2>. HIDE DEF f, g, S, T
  <2>. QED BY <1>1, <1>4, <1>7, <2>2 DEF Share
<1>. QED BY <1>6, <1>7

-----------------------------------------------------------------------------
(* The exposure of a batch *)

\* The limits on what is open: what they count, of which symbols, and how much of it.
OpenLimits ==
  {[kind |-> "notional", symbols |-> AllSymbols, limit |-> Limits.portfolio],
   [kind |-> "risk", symbols |-> AllSymbols, limit |-> Limits.openRisk]}
  \cup {[kind |-> "notional", symbols |-> {s}, limit |-> Limits.symbol] : s \in Symbols}

Total(w, b) == BatchTotal(w, b.kind, b.symbols)

\* No open row passed an exhausted limit.
Sound(w) == \A i \in OpenRows(w) : ~worker[w].rows[i].exhausted

\* The rows stay within the limit, and still do with the candidate in hand: whatever
\* else the session does in between, it is the only one to add to its own rows.
Within(w, b) ==
  /\ Sound(w) => Total(w, b) <= b.limit
  /\ Sound(w) /\ At(w, InHand) /\ ~worker[w].exhausted =>
       Total(w, b) + Share(b.kind, b.symbols, Current(w), worker[w].quantity) <= b.limit

ExposureInv == \A w \in Sessions, b \in OpenLimits : b.limit > 0 => Within(w, b)

LEMMA OpenLimitsTyped ==
  ASSUME NEW b \in OpenLimits
  PROVE  /\ b.limit \in Nat /\ b.kind \in {"notional", "risk"}
         /\ b = [kind |-> "notional", symbols |-> AllSymbols, limit |-> Limits.portfolio]
            \/ b = [kind |-> "risk", symbols |-> AllSymbols, limit |-> Limits.openRisk]
            \/ \E s \in Symbols : b = [kind |-> "notional", symbols |-> {s}, limit |-> Limits.symbol]
<1>1. Limits.portfolio \in Nat /\ Limits.openRisk \in Nat /\ Limits.symbol \in Nat
  BY WorkspaceAssumption DEF Amounts
<1>. QED BY <1>1 DEF OpenLimits

\* A session that keeps its rows and what it has in hand stays within the limits.
LEMMA WithinKept ==
  ASSUME NEW w \in Sessions, NEW b, Within(w, b),
         worker'[w].rows = worker[w].rows, At(w, InHand)' => At(w, InHand),
         At(w, InHand)' =>
           /\ worker'[w].candidate = worker[w].candidate
           /\ worker'[w].quantity = worker[w].quantity
           /\ worker'[w].exhausted = worker[w].exhausted
  PROVE  Within(w, b)'
<1>1. OpenRows(w)' = OpenRows(w)
  BY DEF OpenRows
<1>2. Total(w, b)' = Total(w, b) /\ (Sound(w)' <=> Sound(w))
  BY <1>1 DEF Total, BatchTotal, Sound
<1>3. At(w, InHand)' =>
        Share(b.kind, b.symbols, Current(w), worker[w].quantity)'
          = Share(b.kind, b.symbols, Current(w), worker[w].quantity)
  BY DEF Share, Current
<1>. QED BY <1>1, <1>2, <1>3 DEF Within

\* A session without rows has used nothing.
LEMMA EmptyWithin ==
  ASSUME NEW w \in Sessions, NEW b \in OpenLimits, worker'[w].rows = <<>>, ~At(w, InHand)'
  PROVE  Within(w, b)'
<1>. DEFINE S == {j \in OpenRows(w)' : worker'[w].rows[j].candidate.symbol \in b.symbols}
            f == [i \in S |-> Amount(b.kind, worker'[w].rows[i].quantity, worker'[w].rows[i].candidate)]
<1>1. S = {}
  BY DEF OpenRows
<1>2. Total(w, b)' = SumFunctionOnSet(f, {})
  <2>1. Total(w, b)' = SumFunction(f)
    BY DEF Total, BatchTotal
  <2>. QED BY <1>1, <2>1 DEF SumFunction
<1>. HIDE DEF f
<1>3. Total(w, b)' = 0
  BY <1>2, SumEmpty
<1>. QED BY <1>3, OpenLimitsTyped DEF Within

\* A row that is recorded as executed had room.
LEMMA RecordWithin ==
  ASSUME TypeInv, NEW w \in Sessions, NEW b \in OpenLimits, Within(w, b),
         NEW c \in Candidates, NEW q \in Nat, NEW st, NEW ex, Record(w, c, q, st, ex),
         st = "EXECUTED" /\ Sound(w) /\ ~ex => Total(w, b) + Share(b.kind, b.symbols, c, q) <= b.limit
  PROVE  Within(w, b)'
<1>. DEFINE n == Len(worker[w].rows) + 1
            row == [candidate |-> c, quantity |-> q, status |-> st, exhausted |-> ex]
<1>1. /\ worker'[w].step = "next" /\ worker'[w].rows[n] = row
      /\ \A i \in OpenRows(w) : worker'[w].rows[i] = worker[w].rows[i]
      /\ OpenRows(w)' = OpenRows(w) \cup (IF st = "EXECUTED" THEN {n} ELSE {})
  BY RecordRows
<1>2. row.exhausted = ex
  OBVIOUS
<1>. HIDE DEF n, row
<1>3. Sound(w)' => Sound(w) /\ (st = "EXECUTED" => ~ex)
  BY <1>1, <1>2 DEF Sound
<1>4. Total(w, b)' = Total(w, b) + (IF st = "EXECUTED" THEN Share(b.kind, b.symbols, c, q) ELSE 0)
  BY RecordTotal DEF Total
<1>5. Total(w, b) \in Nat
  BY BatchTotalType DEF Total
<1>6. Sound(w)' => Total(w, b)' <= b.limit
  BY <1>3, <1>4, <1>5 DEF Within
<1>7. ~At(w, InHand)'
  BY <1>1 DEF At, InHand, Before, After
<1>. QED BY <1>6, <1>7 DEF Within

LEMMA RecordCurrentWithin ==
  ASSUME TypeInv, NEW w \in Sessions, NEW b \in OpenLimits, Within(w, b), At(w, InHand),
         NEW st, RecordCurrent(w, st)
  PROVE  Within(w, b)'
<1>1. Current(w) \in Candidates /\ worker[w].quantity \in Nat
  BY TypeOfWorker
<1>2. Sound(w) /\ ~worker[w].exhausted =>
        Total(w, b) + Share(b.kind, b.symbols, Current(w), worker[w].quantity) <= b.limit
  BY DEF Within
<1>. QED BY <1>1, <1>2, RecordWithin DEF RecordCurrent

\* Without open reviewed trades, what counts as open is what the batch has executed.
LEMMA NothingReviewed ==
  ASSUME TypeInv, NEW w \in Sessions, OpenReviewed = {}, NEW kind, NEW symbols
  PROVE  OpenTotal(w, kind, symbols) = BatchTotal(w, kind, symbols)
<1>. DEFINE S == {t \in OpenReviewed : t.symbol \in symbols}
            f == [r \in S |-> Amount(kind, r.quantity, r)]
<1>1. ReviewedTotal(kind, symbols) = SumFunctionOnSet(f, {})
  <2>1. S = {}
    OBVIOUS
  <2>. QED BY <2>1 DEF ReviewedTotal, SumFunction
<1>. HIDE DEF f
<1>2. ReviewedTotal(kind, symbols) = 0
  BY <1>1, SumEmpty
<1>. QED BY <1>2, BatchTotalType DEF OpenTotal

\* What a candidate that passes is allocated has room.
LEMMA PassingFits ==
  ASSUME TypeInv, ExposureInv, NEW w \in Sessions, NEW c \in Candidates, ~Blocked(w, c),
         ~Exhausted(Caps(c, Open(w, c), Limits)), Sound(w),
         NEW b \in OpenLimits, b.limit > 0
  PROVE  Total(w, b) + Share(b.kind, b.symbols, c, Allocation(w, c).quantity) <= b.limit
<1>. DEFINE q == Allocation(w, c).quantity
            open == Open(w, c)
<1>1. Order(c) /\ open \in Totals /\ Limits \in Amounts /\ q \in Nat
  BY CandidatesAreOrders, OpenType, AllocatedType, WorkspaceAssumption
<1>2. OpenReviewed = {} /\ Allocate(c, open, Limits).reasons = {} /\ q = Allocate(c, open, Limits).quantity
  BY DEF Blocked, Allocation
<1>3. /\ open.notional = BatchTotal(w, "notional", AllSymbols)
      /\ open.symbol = BatchTotal(w, "notional", {c.symbol})
      /\ open.risk = BatchTotal(w, "risk", AllSymbols)
  BY <1>2, NothingReviewed DEF Open
<1>. HIDE DEF q, open
<1>4. /\ Limits.portfolio > 0 /\ (c.price > 0 \/ open.notional <= Limits.portfolio) =>
           open.notional + q * c.price <= Limits.portfolio
      /\ Limits.symbol > 0 /\ (c.price > 0 \/ open.symbol <= Limits.symbol) =>
           open.symbol + q * c.price <= Limits.symbol
      /\ Limits.openRisk > 0 /\ (UnitRisk(c) > 0 \/ open.risk <= Limits.openRisk) =>
           open.risk + q * UnitRisk(c) <= Limits.openRisk
  BY <1>1, <1>2, AllocationFits DEF open
<1>5. Total(w, b) <= b.limit
  BY DEF ExposureInv, Within
<1>6. Amount("notional", q, c) = q * c.price /\ Amount("risk", q, c) = q * UnitRisk(c)
  BY DEF Amount, Notional, Risk
<1>7. c.symbol \in AllSymbols
  BY CandidatesAreOrders
<1>8. CASE b = [kind |-> "notional", symbols |-> AllSymbols, limit |-> Limits.portfolio]
  <2>1. b.kind = "notional" /\ b.symbols = AllSymbols /\ b.limit = Limits.portfolio
    BY <1>8
  <2>2. Total(w, b) = open.notional /\ Share(b.kind, b.symbols, c, q) = q * c.price
    BY <1>3, <1>6, <1>7, <2>1 DEF Total, Share
  <2>. QED BY <1>4, <1>5, <2>1, <2>2 DEF q
<1>9. CASE b = [kind |-> "risk", symbols |-> AllSymbols, limit |-> Limits.openRisk]
  <2>1. b.kind = "risk" /\ b.symbols = AllSymbols /\ b.limit = Limits.openRisk
    BY <1>9
  <2>2. Total(w, b) = open.risk /\ Share(b.kind, b.symbols, c, q) = q * UnitRisk(c)
    BY <1>3, <1>6, <1>7, <2>1 DEF Total, Share
  <2>. QED BY <1>4, <1>5, <2>1, <2>2 DEF q
<1>10. ASSUME NEW s \in Symbols, b = [kind |-> "notional", symbols |-> {s}, limit |-> Limits.symbol]
       PROVE  Total(w, b) + Share(b.kind, b.symbols, c, q) <= b.limit
  <2>1. b.kind = "notional" /\ b.symbols = {s} /\ b.limit = Limits.symbol
    BY <1>10
  <2>2. CASE c.symbol = s
    <3>1. Total(w, b) = open.symbol /\ Share(b.kind, b.symbols, c, q) = q * c.price
      BY <1>3, <1>6, <2>1, <2>2 DEF Total, Share
    <3>. QED BY <1>4, <1>5, <2>1, <3>1
  <2>3. CASE c.symbol # s
    <3>1. Share(b.kind, b.symbols, c, q) = 0 /\ Total(w, b) \in Nat
      BY <2>1, <2>3, BatchTotalType DEF Share, Total
    <3>. QED BY <1>5, <3>1
  <2>. QED BY <2>2, <2>3
<1>. QED BY <1>8, <1>9, <1>10, OpenLimitsTyped DEF q

LEMMA PassWithin ==
  ASSUME TypeInv, ExposureInv, NEW w \in Sessions, Pass(w), NEW b \in OpenLimits, b.limit > 0
  PROVE  Within(w, b)'
<1>. DEFINE c == Head(worker[w].todo)
            q == Allocation(w, c).quantity
            ex == Exhausted(Caps(c, Open(w, c), Limits))
            new == [worker[w] EXCEPT !.step = "saving", !.candidate = c, !.quantity = q, !.exhausted = ex]
<1>1. worker[w].todo \in Seq(Candidates) /\ worker[w].todo # <<>> /\ worker[w] \in WorkerState
  BY TypeOfWorker DEF WorkerState, Pass, Upcoming
<1>2. c \in Candidates
  BY <1>1, HeadTailProperties
<1>3. q \in Nat
  BY <1>2, AllocatedType
<1>4. ~Blocked(w, c) /\ (Record(w, c, q, results[RequestId(c)], ex) \/ Update(w, new))
  BY DEF Pass
<1>. HIDE DEF c
<1>5. ~ex /\ Sound(w) => Total(w, b) + Share(b.kind, b.symbols, c, q) <= b.limit
  BY <1>2, <1>4, PassingFits
<1>. HIDE DEF q, ex
<1>6. Within(w, b)
  BY DEF ExposureInv
<1>7. CASE Record(w, c, q, results[RequestId(c)], ex)
  BY <1>2, <1>3, <1>5, <1>6, <1>7, RecordWithin
<1>8. CASE Update(w, new)
  <2>1. new.rows = worker[w].rows /\ new.candidate = c /\ new.quantity = q /\ new.exhausted = ex
    BY <1>1 DEF WorkerState
  <2>. HIDE DEF new
  <2>2. worker'[w] = new
    BY <1>8 DEF Update, TypeInv, TypeOK
  <2>3. OpenRows(w)' = OpenRows(w)
    BY <2>1, <2>2 DEF OpenRows
  <2>4. Total(w, b)' = Total(w, b) /\ (Sound(w)' <=> Sound(w))
    BY <2>1, <2>2, <2>3 DEF Total, BatchTotal, Sound
  <2>5. Share(b.kind, b.symbols, Current(w), worker[w].quantity)' = Share(b.kind, b.symbols, c, q)
    BY <2>1, <2>2 DEF Share, Current
  <2>6. worker'[w].exhausted = ex
    BY <2>1, <2>2
  <2>. QED BY <1>5, <1>6, <2>4, <2>5, <2>6 DEF Within
<1>. QED BY <1>4, <1>7, <1>8

\* Only the session that moves has to be looked at.
LEMMA OneSession ==
  ASSUME ExposureInv, NEW w \in Sessions,
         \A v \in Sessions \ {w} : worker'[v] = worker[v],
         \A b \in OpenLimits : b.limit > 0 => Within(w, b)'
  PROVE  ExposureInv'
<1>. SUFFICES ASSUME NEW v \in Sessions, NEW b \in OpenLimits, b.limit > 0 PROVE Within(v, b)'
  BY DEF ExposureInv, OpenLimits, AllSymbols, Symbols, Candidates
<1>1. CASE v = w
  BY <1>1
<1>2. CASE v # w
  <2>1. Within(v, b)
    BY DEF ExposureInv
  <2>2. worker'[v] = worker[v]
    BY <1>2
  <2>. QED BY <2>1, <2>2, WithinKept DEF At
<1>. QED BY <1>1, <1>2

LEMMA UpdateMovesOne ==
  ASSUME TypeInv, NEW w \in Sessions, NEW new, Update(w, new)
  PROVE  worker'[w] = new /\ \A v \in Sessions \ {w} : worker'[v] = worker[v]
BY DEF TypeInv, TypeOK, Update

LEMMA GotoWithin ==
  ASSUME TypeInv, ExposureInv, NEW w \in Sessions, At(w, InHand), NEW s, Goto(w, s)
  PROVE  ExposureInv'
<1>. DEFINE new == [worker[w] EXCEPT !.step = s]
<1>1. worker'[w] = new /\ \A v \in Sessions \ {w} : worker'[v] = worker[v]
  BY UpdateMovesOne DEF Goto
<1>2. /\ new.rows = worker[w].rows /\ new.candidate = worker[w].candidate
      /\ new.quantity = worker[w].quantity /\ new.exhausted = worker[w].exhausted
  BY TypeOfWorker DEF WorkerState
<1>. HIDE DEF new
<1>3. \A b \in OpenLimits : b.limit > 0 => Within(w, b)'
  BY <1>1, <1>2, WithinKept DEF ExposureInv
<1>. QED BY <1>1, <1>3, OneSession

LEMMA RecordMovesOne ==
  ASSUME TypeInv, NEW w \in Sessions, NEW c, NEW q, NEW st, NEW ex, Record(w, c, q, st, ex)
  PROVE  \A v \in Sessions \ {w} : worker'[v] = worker[v]
BY UpdateMovesOne DEF Record

LEMMA RecordCurrentExposes ==
  ASSUME TypeInv, ExposureInv, NEW w \in Sessions, At(w, InHand), NEW st, RecordCurrent(w, st)
  PROVE  ExposureInv'
<1>1. \A v \in Sessions \ {w} : worker'[v] = worker[v]
  BY RecordMovesOne DEF RecordCurrent
<1>2. \A b \in OpenLimits : b.limit > 0 => Within(w, b)'
  BY RecordCurrentWithin DEF ExposureInv
<1>. QED BY <1>1, <1>2, OneSession

LEMMA EmptyExposes ==
  ASSUME TypeInv, ExposureInv, NEW w \in Sessions, NEW new, Update(w, new),
         new.rows = <<>>, new.step \notin InHand
  PROVE  ExposureInv'
<1>1. worker'[w] = new /\ \A v \in Sessions \ {w} : worker'[v] = worker[v]
  BY UpdateMovesOne
<1>2. \A b \in OpenLimits : Within(w, b)'
  BY <1>1, EmptyWithin DEF At
<1>. QED BY <1>1, <1>2, OneSession

LEMMA QuietExposes == ASSUME ExposureInv, UNCHANGED worker PROVE ExposureInv'
<1>. SUFFICES ASSUME NEW v \in Sessions, NEW b \in OpenLimits, b.limit > 0 PROVE Within(v, b)'
  BY DEF ExposureInv, OpenLimits, AllSymbols, Symbols, Candidates
<1>. QED BY WithinKept DEF ExposureInv, At

LEMMA IdleIsEmpty == Idle.rows = <<>> /\ Idle.step \notin InHand
BY DEF Idle, InHand, Before, After

LEMMA DecideExposes ==
  ASSUME TypeInv, ExposureInv, NEW w \in Sessions, Decide(w)
  PROVE  ExposureInv'
<1>1. CASE Block(w)
  <2>. DEFINE c == Head(worker[w].todo)
  <2>1. worker[w].todo \in Seq(Candidates) /\ worker[w].todo # <<>>
    BY <1>1, TypeOfWorker DEF WorkerState, Block, Upcoming
  <2>2. c \in Candidates
    BY <2>1, HeadTailProperties
  <2>3. Record(w, c, Allocation(w, c).quantity, "BLOCKED", FALSE)
    BY <1>1 DEF Block
  <2>. HIDE DEF c
  <2>4. Allocation(w, c).quantity \in Nat
    BY <2>2, AllocatedType
  <2>5. \A b \in OpenLimits : b.limit > 0 => Within(w, b)'
    BY <2>2, <2>3, <2>4, RecordWithin DEF ExposureInv
  <2>. QED BY <2>3, <2>5, RecordMovesOne, OneSession
<1>2. CASE Pass(w)
  <2>1. \A v \in Sessions \ {w} : worker'[v] = worker[v]
    BY <1>2, RecordMovesOne, UpdateMovesOne DEF Pass
  <2>. QED BY <1>2, <2>1, PassWithin, OneSession
<1>. QED BY <1>1, <1>2 DEF Decide

LEMMA ServiceExposes ==
  ASSUME TypeInv, ExposureInv, NEW w \in Sessions,
         \/ SaveRequest(w) \/ CheckMarks(w) \/ CheckCount(w) \/ PlaceOrder(w)
         \/ SetMarks(w) \/ CountTrade(w) \/ CommitResult(w)
         \/ CheckMarksBlindly(w) \/ CheckCountBlindly(w) \/ LoseMarks(w) \/ LoseCount(w)
         \/ SignalFails(w)
  PROVE  ExposureInv'
<1>1. At(w, InHand)
  BY DEF SaveRequest, CheckMarks, CheckCount, PlaceOrder, SetMarks, CountTrade, CommitResult,
         CheckMarksBlindly, CheckCountBlindly, LoseMarks, LoseCount, SignalFails,
         At, InHand, Before, After
<1>2. (\E s : Goto(w, s)) \/ (\E st : RecordCurrent(w, st))
  BY DEF SaveRequest, CheckMarks, CheckCount, PlaceOrder, SetMarks, CountTrade, CommitResult,
         CheckMarksBlindly, CheckCountBlindly, LoseMarks, LoseCount, SignalFails
<1>. QED BY <1>1, <1>2, GotoWithin, RecordCurrentExposes

LEMMA StoreLostExposes == ASSUME TypeInv, ExposureInv, NEW s, StoreLost(s) PROVE ExposureInv'
<1>. SUFFICES ASSUME NEW v \in Sessions, NEW b \in OpenLimits, b.limit > 0 PROVE Within(v, b)'
  BY DEF ExposureInv, OpenLimits, AllSymbols, Symbols, Candidates
<1>1. worker'[v] = Idle \/ worker'[v] = worker[v]
  BY DEF StoreLost
<1>2. CASE worker'[v] = Idle
  BY <1>2, IdleIsEmpty, EmptyWithin DEF At
<1>3. CASE worker'[v] = worker[v]
  BY <1>3, WithinKept DEF ExposureInv, At
<1>. QED BY <1>1, <1>2, <1>3

LEMMA NextExposes == TypeInv /\ ExposureInv /\ [Next]_vars => ExposureInv'
<1>. SUFFICES ASSUME TypeInv, ExposureInv, [Next]_vars PROVE ExposureInv'
  OBVIOUS
<1>1. CASE UNCHANGED vars
  BY <1>1, QuietExposes DEF vars
<1>2. ASSUME NEW r \in Reviewed, BookReviewed(r) \/ CloseReviewed(r) PROVE ExposureInv'
  BY <1>2, QuietExposes DEF BookReviewed, CloseReviewed
<1>3. ASSUME NEW k \in CoolKeys, Expire(k) PROVE ExposureInv'
  BY <1>3, QuietExposes DEF Expire
<1>4. ASSUME NEW w \in Sessions, Start(w) PROVE ExposureInv'
  <2>. DEFINE new == [Idle EXCEPT !.step = "next", !.todo = Batch[w]]
  <2>1. Update(w, new) /\ new.rows = <<>> /\ new.step \notin InHand
    BY <1>4 DEF Start, Idle, InHand, Before, After
  <2>. QED BY <2>1, EmptyExposes
<1>5. ASSUME NEW w \in Sessions, Finish(w) \/ Crash(w) PROVE ExposureInv'
  BY <1>5, IdleIsEmpty, EmptyExposes DEF Finish, Crash
<1>6. ASSUME NEW w \in Sessions, Proceed(w) PROVE ExposureInv'
  BY <1>5, <1>6, ServiceExposes DEF Proceed
<1>. QED BY <1>1, <1>2, <1>3, <1>4, <1>5, <1>6, DecideExposes, ServiceExposes, StoreLostExposes DEF Next

LEMMA InitExposes == Init => ExposureInv
<1>. SUFFICES ASSUME Init, NEW w \in Sessions, NEW b \in OpenLimits PROVE Within(w, b)
  BY DEF ExposureInv
<1>. DEFINE S == {j \in OpenRows(w) : worker[w].rows[j].candidate.symbol \in b.symbols}
            f == [i \in S |-> Amount(b.kind, worker[w].rows[i].quantity, worker[w].rows[i].candidate)]
<1>1. worker[w].rows = <<>> /\ worker[w].step \notin InHand
  BY IdleIsEmpty DEF Init
<1>2. S = {}
  BY <1>1 DEF OpenRows
<1>3. Total(w, b) = SumFunctionOnSet(f, {})
  BY <1>2 DEF Total, BatchTotal, SumFunction
<1>. HIDE DEF f
<1>4. Total(w, b) = 0
  BY <1>3, SumEmpty
<1>. QED BY <1>1, <1>4, OpenLimitsTyped DEF Within, At

\* What a batch has executed stays within the portfolio, symbol and open-risk limits
\* unless some candidate passed an exhausted limit, whatever the batches, the prices
\* and the limits are, however the sessions interleave and whatever fails
\* (risk_engine.py:155,164,173,182).
THEOREM ExposureKept == Spec => []BatchExposure
<1>1. ExposureInv => BatchExposure
  <2>. SUFFICES ASSUME ExposureInv, NEW w \in Sessions, \A i \in OpenRows(w) : ~worker[w].rows[i].exhausted
       PROVE  /\ Limits.portfolio > 0 => BatchTotal(w, "notional", AllSymbols) <= Limits.portfolio
              /\ Limits.openRisk > 0 => BatchTotal(w, "risk", AllSymbols) <= Limits.openRisk
              /\ Limits.symbol > 0 =>
                   \A s \in Symbols : BatchTotal(w, "notional", {s}) <= Limits.symbol
    BY DEF BatchExposure
  <2>1. \A b \in OpenLimits : b.limit > 0 => BatchTotal(w, b.kind, b.symbols) <= b.limit
    BY DEF ExposureInv, Within, Sound, Total
  <2>2. ASSUME NEW kind, NEW symbols, NEW limit, limit > 0,
               [kind |-> kind, symbols |-> symbols, limit |-> limit] \in OpenLimits
        PROVE  BatchTotal(w, kind, symbols) <= limit
    <3>. DEFINE b == [kind |-> kind, symbols |-> symbols, limit |-> limit]
    <3>1. b.kind = kind /\ b.symbols = symbols /\ b.limit = limit
      OBVIOUS
    <3>. HIDE DEF b
    <3>. QED BY <2>1, <2>2, <3>1 DEF b
  <2>. QED BY <2>2 DEF OpenLimits
<1>2. TypeInv /\ ExposureInv /\ [Next]_vars => ExposureInv'
  BY NextExposes
<1>. QED BY <1>1, <1>2, InitExposes, TypeInvHolds, PTL DEF Spec
=============================================================================
