------------------------------- MODULE Reports -------------------------------
(***************************************************************************)
(* What the house reads off its orders: the dashboard, the charts and the  *)
(* breakdown of services/report.service.ts, the order book of              *)
(* services/export.service.ts, and the calendar both cut the orders with   *)
(* (utils/tradingDay.ts).                                                  *)
(*                                                                         *)
(* Reports change nothing.  They are operators over the rows of OrderFloor *)
(* and a clock c, which says when each order was placed and when the       *)
(* report is read.  What they promise is checked in every state the floor  *)
(* reaches, for every clock.                                               *)
(*                                                                         *)
(* Time is counted in slots of UTC.  The reporting zone is its offset from *)
(* UTC at each slot, which changes where daylight saving begins or ends.   *)
(***************************************************************************)
EXTENDS OrderFloor

CONSTANTS
    SlotsPerDay,
    Horizon,     \* bound: the last slot of the clock
    Offset,      \* the zone, as its offset at each slot from the day before
    WindowDays   \* how far back the breakdown looks (PERIOD_CONFIG)

ASSUME ClockAssumption ==
    /\ SlotsPerDay \in Nat \ {0} /\ Horizon \in Nat /\ WindowDays \in Nat
    /\ Offset \in [-SlotsPerDay .. Horizon -> Int]
    \* no zone has ever moved by more than a day
    /\ \A t, u \in -SlotsPerDay .. Horizon : Offset[t] - Offset[u] <= SlotsPerDay

Slots  == 0 .. Horizon
Clocks == { c \in [now: Slots, placedAt: [Orders -> Slots]] :
                \A o \in Orders : c.placedAt[o] <= c.now }

-----------------------------------------------------------------------------
(* utils/tradingDay.ts: the calendar of the reporting zone *)

\* The day a wall clock in the zone shows.
TradingDayKey(t) == (t + Offset[t]) \div SlotsPerDay

\* (mutant) the day begins at midnight UTC
StartOfUtcDay(t) == (t \div SlotsPerDay) * SlotsPerDay

\* Midnight of that day, less the offset of the moment asked about.
StartOfTradingDay(t) == TradingDayKey(t) * SlotsPerDay - Offset[t]

\* As many whole days earlier.
DaysBefore(t, days) == StartOfTradingDay(t) - days * SlotsPerDay

Days == { TradingDayKey(t) : t \in Slots }

-----------------------------------------------------------------------------
(* Which orders a figure is about *)

\* (mutant) an order waiting at a gate is counted as revenue
RevenueWithHolds == { o \in Orders : order[o].status \notin {"UNPLACED", "CANCELLED"} }

\* REVENUE_STATUSES, and REVENUE_ONLY in the raw queries.
Revenue == { o \in Orders :
                order[o].status \notin {"UNPLACED", "CANCELLED"} \union HELD_STATUSES }

\* The scope "completed" of the best sellers.
Sold   == { o \in Revenue : order[o].status = "SERVED" }
Paid   == { o \in Orders : order[o].payment = "PAID" }
Placings == { o \in Orders : Placed(o) }

PlacedSince(c, S, from) == { o \in S : c.placedAt[o] >= from }
OnDay(c, S, d) == { o \in S : TradingDayKey(c.placedAt[o]) = d }
TotalOver(S) == MapThenSumSet(LAMBDA o : order[o].total, S)
LinesOver(S) == MapThenSumSet(LAMBDA o : order[o].lines, S)
ChargesOver(S) == MapThenSumSet(LAMBDA o : TotalOf(order[o].lines) - order[o].lines, S)

-----------------------------------------------------------------------------
(* The reports *)

\* getDashboardSummary: today's headline and what is open.
DashboardSummary(c) ==
    LET today == PlacedSince(c, Revenue, StartOfTradingDay(c.now))
    IN  [ date |-> TradingDayKey(StartOfTradingDay(c.now)), today |-> today,
          revenue |-> TotalOver(today),
          open |-> { o \in Placings : order[o].status \notin TerminalStatuses },
          held |-> { o \in Placings : order[o].status \in HELD_STATUSES },
          occupied |-> Cardinality({ t \in Tables : table[t].status = "OCCUPIED" }) ]

\* getSalesReport: one bar a day.
SalesReport(c) == [ d \in Days |-> OnDay(c, Revenue, d) ]

\* What is still to be collected; a refunded order is neither paid nor unpaid.
Unpaid   == { o \in Revenue : order[o].payment = "UNPAID" }
Refunded == { o \in Revenue : order[o].payment = "REFUNDED" }

\* getRevenueBreakdown by days: bars, totals, what was collected and what is owed.
RevenueBreakdown(c) ==
    LET since == DaysBefore(c.now, WindowDays)
        within == PlacedSince(c, Revenue, since)
    IN  [ bars        |-> [ d \in Days |-> OnDay(c, within, d) ],
          revenue     |-> TotalOver(within),
          collected   |-> TotalOver(PlacedSince(c, Paid, since)),
          outstanding |-> TotalOver(PlacedSince(c, Unpaid, since)),
          \* paid for, and yet no revenue: cancelled afterwards, or still held
          unearned    |-> TotalOver(PlacedSince(c, Paid \ Revenue, since)),
          \* revenue nobody has paid and nobody is asked for: it was refunded
          returned    |-> TotalOver(PlacedSince(c, Refunded, since)) ]

\* (mutant) the dishes of a cancelled order were sold
DishSalesCancelled(scope) == LinesOver(IF scope = "completed" THEN Sold ELSE Placings)

\* getTopSellingItems: what the dishes of the counted orders brought in.
DishSales(scope) == LinesOver(IF scope = "completed" THEN Sold ELSE Revenue)

\* getTopCustomers: what each guest has spent.
SpentBy(g) == TotalOver({ o \in Revenue : order[o].guest = g })

\* ExportOrdersButton: a date is sent as its first and its last moment of UTC.
ExportWindow(d) == d * SlotsPerDay .. d * SlotsPerDay + SlotsPerDay - 1

\* buildOrderExport for one date, whatever the status of the orders.
OrderBook(c, d) == { o \in Placings : c.placedAt[o] \in ExportWindow(d) }

\* The customer sheet over the whole book: everything that is not cancelled.
BilledTo(g) == TotalOver({ o \in Placings : /\ order[o].guest = g
                                            /\ order[o].status # "CANCELLED" })

-----------------------------------------------------------------------------
\* The zone keeps its offset all day: no transition falls within today, nor between the
\* midnight that StartOfTradingDay computes and now.
Steady(now) ==
    \A t \in DOMAIN Offset :
        TradingDayKey(t) = TradingDayKey(now) \/ t \in StartOfTradingDay(now) .. now
            => Offset[t] = Offset[now]

\* "The headline figure and the last bar of the chart always describe the same set of
\* orders" (getDashboardSummary, getSalesReport), on every day but one on which the
\* clocks change.
HeadlineIsLastBar ==
    \A c \in Clocks : Steady(c.now) =>
        /\ DashboardSummary(c).date = TradingDayKey(c.now)
        /\ DashboardSummary(c).today = SalesReport(c)[TradingDayKey(c.now)]

\* The day of an order by the wall clock of the house is its date in UTC.
SameDate(t) == TradingDayKey(t) = t \div SlotsPerDay

\* The bars of the breakdown that show the whole of their day: all but the first, and the
\* first too unless the clocks have changed since.
WholeBars(now) ==
    { d \in Days : LET first == TradingDayKey(now) - WindowDays
                   IN  \/ d > first
                       \/ /\ d = first
                          /\ \A t \in Slots : TradingDayKey(t) = d => Offset[t] = Offset[now] }

\* The screens that count the same orders with queries of their own agree.  A bar of the
\* breakdown is the bar of the sales chart; what was taken is collected, outstanding or
\* returned; the order book of a date holds the orders of its bar, but for those placed
\* while it was another day in UTC; and the guests, the lines of the dishes with their
\* charges and the sales all sum to one figure (getRevenueBreakdown, getSalesReport,
\* getTopSellingItems, getTopCustomers, buildOrderExport).
FiguresAgree ==
    /\ \A c \in Clocks : LET report == RevenueBreakdown(c) IN
        /\ report.revenue = MapThenSumSet(LAMBDA d : TotalOver(report.bars[d]), Days)
        /\ \A d \in WholeBars(c.now) : report.bars[d] = SalesReport(c)[d]
        /\ report.revenue + report.unearned
             = report.collected + report.outstanding + report.returned
        /\ \A o \in Revenue, d \in Days : SameDate(c.placedAt[o]) =>
             (o \in OrderBook(c, d) <=> o \in SalesReport(c)[d])
        /\ MapThenSumSet(LAMBDA d : TotalOver(SalesReport(c)[d]), Days)
             = DishSales("all") + ChargesOver(Revenue)
        /\ MapThenSumSet(BilledTo, Guests) = TotalOver(Revenue \union DashboardSummary(c).held)
    /\ MapThenSumSet(SpentBy, Guests) = DishSales("all") + ChargesOver(Revenue)

\* "Every report has to state the zone explicitly and use the SAME one" (tradingDay.ts):
\* the order book of a date and the bar of that day are about the same orders.
BookIsTradingDay ==
    \A c \in Clocks, d \in Days : OrderBook(c, d) \intersect Revenue = SalesReport(c)[d]

\* The bars of the sales chart do not depend on when they are read: read at the end.
LastClocks == { c \in Clocks : c.now = Horizon }

\* Takings never move backwards: a day's revenue falls only when an order the kitchen
\* had been told about is cancelled, never because a hold is abandoned, and what has
\* been sold to the end stays sold (REVENUE_STATUSES, getTopSellingItems).
TakingsStand ==
    [][ /\ \A c \in LastClocks, d \in Days :
             TotalOver(SalesReport(c)[d])' < TotalOver(SalesReport(c)[d])
             => \E o \in Orders : order[o].status \in KitchenQueue
                                  /\ order'[o].status = "CANCELLED"
        /\ DishSales("completed")' >= DishSales("completed") ]_vars
=============================================================================
