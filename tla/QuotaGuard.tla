----------------------------- MODULE QuotaGuard -----------------------------
(***************************************************************************)
(* What a job may cost, and its reservation of units (quota/guard.ts).     *)
(* Decimals are strings there and whole numbers with a scale here, as the  *)
(* code computes with them.                                                *)
(***************************************************************************)
EXTENDS Integers, FiniteSetsExt

\* digits without their point, and how many stand behind it, at least one
Dec(n, s) == [digits |-> n, scale |-> s]
Shift(d, s) == d.digits * 10^(s - d.scale)
Wider(a, b) == Max({a.scale, b.scale})

\* addDecimal, multiplyDecimal, compareDecimal
Add(a, b) == Dec(Shift(a, Wider(a, b)) + Shift(b, Wider(a, b)), Wider(a, b))
Times(a, b) == Dec(a.digits * b.digits, a.scale + b.scale)
Exceeds(a, b) == Shift(a, Wider(a, b)) > Shift(b, Wider(a, b))

Classes == {"cpu_heavy", "storage", "network", "verification"}
Total   == [cpu_heavy |-> 100, storage |-> 10000, network |-> 1000, verification |-> 50]
UnitCost == [cpu_heavy |-> Dec(5, 2), storage |-> Dec(1, 3), network |-> Dec(1, 2), verification |-> Dec(2, 2)]
Risk    == [cpu_heavy |-> Dec(11, 1), storage |-> Dec(10, 1), network |-> Dec(105, 2), verification |-> Dec(12, 1)]
MaxJobCost == Dec(1000, 2)

\* The less there is, the dearer it gets.
Scarcity(class, available) ==
  LET Below(percent) == available * 100 < percent * Total[class] IN
  IF Below(10) THEN Dec(30, 1) ELSE IF Below(25) THEN Dec(20, 1) ELSE IF Below(50) THEN Dec(15, 1) ELSE Dec(10, 1)

\* calculateExpectedCost, before its bound
ExpectedCost(class, available, units) ==
  LET scarce  == Scarcity(class, available)
      replace == Times(Times(UnitCost[class], Dec(units * 10, 1)), scarce)
      verify  == Times(Dec(1, 2), scarce)
      facilitate == Times(Dec(5, 3), scarce)
      retry   == Times(Times(replace, Dec(1, 1)), Risk[class])
      refund  == Times(replace, Dec(5, 2))
      keep    == Times(Dec(1, 3), scarce)
  IN Add(Add(Add(Add(Add(Add(Dec(0, 1), replace), verify), facilitate), retry), refund), keep)

Refused == [reserved |-> -1, remaining |-> 0, cost |-> Dec(0, 1)]

\* reserveQuota: what is available is read, and not written.
Reserve(class, available, units) ==
  IF available < units \/ Exceeds(ExpectedCost(class, available, units), MaxJobCost) THEN Refused
  ELSE [reserved |-> units, remaining |-> available - units, cost |-> ExpectedCost(class, available, units)]

\* releaseQuota
Free(r) == [r EXCEPT !.reserved = 0, !.remaining = @ + r.reserved]

-----------------------------------------------------------------------------
\* The cost in millionths of a dollar, by the percentages the code names: ten
\* for a retry by its risk, five for a refund, 16 thousandths of a dollar for
\* verification, facilitator and storage.
Millionths(class, available, units) ==
  LET tenths == Scarcity(class, available).digits
      unit == 10^3 * UnitCost[class].digits * 10^(3 - UnitCost[class].scale)
      risk == Risk[class].digits * 10^(2 - Risk[class].scale)
      replace == (units * unit * tenths) \div 10
  IN replace + ((replace \div 100) * (risk + 50)) \div 10 + 1600 * tenths

\* The cost of a reservation is exact and within the bound; more units never
\* cost less, nor do the same units when fewer are left; and a release gives
\* back what was reserved, once however often it is called.
ReservationsAreSound(class, available, units) ==
  LET r == Reserve(class, available, units)
      scale == r.cost.scale
  IN r # Refused =>
       /\ r.cost.digits = Millionths(class, available, units) * 10^(scale - 6)
       /\ Reserve(class, available, units + 1) # Refused =>
            Exceeds(Reserve(class, available, units + 1).cost, r.cost)
       /\ Reserve(class, available + 1, units) # Refused /\ ~ Exceeds(ExpectedCost(class, available + 1, units), r.cost)
       /\ Free(r).remaining = available /\ Free(Free(r)) = Free(r)

=============================================================================
