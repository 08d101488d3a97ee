----------------------------- MODULE Statistics -----------------------------
(***************************************************************************)
(* Revenue and orders over time: getMonthlyStatistics, getDailyStatistics, *)
(* getTotalRevenueByYear and getOrderStatusByYear of OrderService, all     *)
(* read only, over the orders that the other modules leave.                *)
(*                                                                         *)
(* The year is a few short months.  An order was created at the midnight a *)
(* day begins with, or later that day.  Profits are left out, and time     *)
(* zones: the server and the database are in the same one.                 *)
(***************************************************************************)
EXTENDS Parties, FiniteSetsExt

CONSTANTS
    Calendar, \* how many days each month of the year has
    Totals,   \* what an order may cost
    MaxLines, \* bounds the details of an order
    MaxSales  \* bounds the orders of the year

ASSUME StatisticsAssumption ==
    /\ Calendar \in Seq(1 .. 31) /\ Totals \subseteq Nat
    /\ MaxLines \in Nat /\ MaxSales \in Nat

Months == DOMAIN Calendar

\* A date is a month and a day of it, a moment a date and the part of the day.
Sale == {s \in [month: Months, day: 1 .. 31, late: BOOLEAN, total: Totals,
                lines: 0 .. MaxLines, status: {"DELIVERED", "other"},
                payment: {"PAID", "other"}] :
            s.day <= Calendar[s.month]}

VARIABLE book \* the orders of the year

---------------------------------------------------------------------------

\* a is not after b.
NotAfter(a, b) ==
    \/ a.month < b.month
    \/ /\ a.month = b.month
       /\ a.day < b.day \/ (a.day = b.day /\ (a.late => b.late))

Between(from, to) == {i \in DOMAIN book : NotAfter(from, book[i]) /\ NotAfter(book[i], to)}

\* Only orders that were delivered and paid for count.
Counts(i) == book[i].status = "DELIVERED" /\ book[i].payment = "PAID"

\* Mutant: orders that are not paid for count as well.
JoinedMutant(set) ==
    MapThenSumSet(LAMBDA i : book[i].total * (IF book[i].lines = 0 THEN 1 ELSE book[i].lines),
                  {i \in set : book[i].status = "DELIVERED"})

\* SUM(total_price) after a LEFT JOIN with the details: once for each of them.
Joined(set) ==
    MapThenSumSet(LAMBDA i : book[i].total * (IF book[i].lines = 0 THEN 1 ELSE book[i].lines),
                  {i \in set : Counts(i)})

First(m) == [month |-> m, day |-> 1, late |-> FALSE]

\* The ranges that a request may ask for.
ValidMonthRange(from, to) == from \in Months /\ to \in Months /\ from <= to

ValidDayRange(m, from, to) == 1 <= from /\ from <= to /\ to <= Calendar[m]

GetMonthsInRange(from, to) == from .. to

\* The revenue of each month from the beginning of one to the end of another.
MonthlyStatistics(from, to) ==
    LET found == Between(First(from), [month |-> to, day |-> Calendar[to], late |-> TRUE])
    IN  [m \in GetMonthsInRange(from, to) |-> Joined({i \in found : book[i].month = m})]

\* The revenue of each day from one midnight to another.
DailyStatistics(m, from, to) ==
    LET found == Between([First(m) EXCEPT !.day = from], [First(m) EXCEPT !.day = to])
    IN  [d \in from .. to |-> Joined({i \in found : book[i].day = d})]

TotalRevenueByYear ==
    MapThenSumSet(LAMBDA i : book[i].total, {i \in DOMAIN book : Counts(i)})

\* How many orders have the status.
OrderStatusByYear == [st \in {"DELIVERED", "other"} |->
                         Cardinality({i \in DOMAIN book : book[i].status = st})]

---------------------------------------------------------------------------

SInit == book = <<>>

\* Another order, as it is by the time the statistics are asked for.
Sell(s) ==
    /\ Len(book) < MaxSales
    /\ book' = Append(book, s)

SNext == Uses("statistics") /\ \E s \in Sale : Sell(s)

---------------------------------------------------------------------------
(* Properties *)

\* Whatever range of months is asked for, the revenue of each month is that of
\* its orders.  Over the year they add up to the revenue of the year while no
\* order has several details, and otherwise to more: an order counts once for
\* each.  The days of any range add up to the revenue of their orders but for
\* the last day, of which only midnight counts.  No order is missing among the
\* statuses (getRevenueProfitStatics, getMonthsInRange, getMonthlyStatistics,
\* getDailyStatistics, getTotalRevenueByYear, getOrderStatusByYear).
RevenueAddsUp ==
    LET Within(m, from, to) ==
            {i \in DOMAIN book : book[i].month = m /\ from <= book[i].day /\ book[i].day <= to}
        late(m, d) == {i \in Within(m, d, d) : book[i].late}
        year == MonthlyStatistics(1, Len(Calendar))
        months == MapThenSumSet(LAMBDA m : year[m], Months)
        counts == OrderStatusByYear
    IN  /\ \A from, to \in Months : ValidMonthRange(from, to) =>
              \A m \in from .. to :
                  MonthlyStatistics(from, to)[m] = Joined(Within(m, 1, Calendar[m]))
        /\ months >= TotalRevenueByYear
        /\ (\A i \in DOMAIN book : book[i].lines <= 1) => months = TotalRevenueByYear
        /\ \A m \in Months : \A from, to \in 1 .. Calendar[m] : ValidDayRange(m, from, to) =>
              MapThenSumSet(LAMBDA d : DailyStatistics(m, from, to)[d], from .. to)
                  + Joined(late(m, to))
              = Joined(Within(m, from, to))
        /\ Len(book) = counts["DELIVERED"] + counts["other"]

=============================================================================
