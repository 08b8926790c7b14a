--------------------------- MODULE RiskAllocation ---------------------------
(***************************************************************************)
(* How many units of a candidate the portfolio limits leave.  Every limit  *)
(* is turned into a cap on the quantity, and the caps are applied one      *)
(* after the other; a limit of zero is switched off.  All amounts are      *)
(* money: the percentages of the code times a capital above zero.          *)
(***************************************************************************)
EXTENDS Integers

\* Values of the limits.
Amounts ==
  [tradeRisk : Nat, position : Nat, portfolio : Nat, symbol : Nat, openRisk : Nat,
   positions : Nat, killSwitch : BOOLEAN]

\* Mutant: what is taken is forgotten.
RemainingUnused(limit, used) == limit

\* What of `limit` is left when `used` of it is taken.
Remaining(limit, used) == IF limit > used THEN limit - used ELSE 0

QtyLimit(amount, unit) == IF amount > 0 /\ unit > 0 THEN amount \div unit ELSE 0

UnitRisk(c) == IF c.price > c.stop THEN c.price - c.stop ELSE c.stop - c.price

\* The five caps, in the order of the code.  `open` totals the open positions.
Caps(c, open, limits) ==
  <<[on |-> limits.tradeRisk > 0 /\ UnitRisk(c) > 0,
     quantity |-> QtyLimit(limits.tradeRisk, UnitRisk(c))],
    [on |-> limits.position > 0 /\ c.price > 0,
     quantity |-> QtyLimit(limits.position, c.price)],
    [on |-> limits.portfolio > 0 /\ c.price > 0,
     quantity |-> QtyLimit(Remaining(limits.portfolio, open.notional), c.price)],
    [on |-> limits.symbol > 0 /\ c.price > 0,
     quantity |-> QtyLimit(Remaining(limits.symbol, open.symbol), c.price)],
    [on |-> limits.openRisk > 0 /\ UnitRisk(c) > 0,
     quantity |-> QtyLimit(Remaining(limits.openRisk, open.risk), UnitRisk(c))]>>

\* Applying a cap.  A quantity that has come down to zero counts as "no cap
\* so far", so that the next cap replaces it.
Capped(quantity, cap) ==
  IF cap.on /\ (quantity = 0 \/ cap.quantity < quantity) THEN cap.quantity ELSE quantity

AllCapped(quantity, caps) ==
  Capped(Capped(Capped(Capped(Capped(quantity, caps[1]), caps[2]), caps[3]), caps[4]), caps[5])

\* Limits that are named when nothing is left.
Configured(limits) ==
  {r \in {"tradeRisk", "position", "portfolio", "symbol", "openRisk"} : limits[r] > 0}

Refused(reasons) == [quantity |-> 0, reasons |-> reasons]

Allocate(c, open, limits) ==
  LET quantity == AllCapped(c.quantity, Caps(c, open, limits))
  IN  IF c.quantity <= 0 THEN Refused({"INVALID_QUANTITY"})
      ELSE IF limits.killSwitch THEN Refused({"PORTFOLIO_KILL_SWITCH_ACTIVE"})
      ELSE IF limits.positions > 0 /\ open.positions >= limits.positions
           THEN Refused({"MAX_OPEN_POSITIONS"})
      ELSE IF quantity = 0 THEN Refused(Configured(limits))
      ELSE [quantity |-> quantity, reasons |-> {}]

\* Some cap leaves nothing.
Exhausted(caps) == \E i \in 1..5 : caps[i].on /\ caps[i].quantity = 0
=============================================================================
