---------------------------- MODULE MCScheduler ----------------------------
(* Two jobs, the second after the first or beside it, over a free provider *)
(* of one place and a paid one with two offers.                            *)
EXTENDS Scheduler, TLC
CONSTANTS job1, job2, home, rent

Slot(p, k, s, c, w, n, f) ==
    [prov |-> p, key |-> k, setup |-> s, price |-> c, wait |-> w, cap |-> n, fits |-> f]
Free == Slot(home, "home#0", 0, None, 1, 1, {job1, job2})
Small == Slot(home, "home#1", 0, None, 0, 1, {job1})
Paid(k, s, n) == Slot(rent, k, s, 1, 0, n, {job1, job2})

MCJobSeq == <<job1, job2>>
MCProviders == {home, rent}
MCOffers == {<<Free, Paid("ask1", 0, 1), Paid("ask2", 1, 2)>>,
             <<Small, Paid("ask3", 0, 2), Paid("ask4", 0, 1)>>}
MCTime == job1 :> 1 @@ job2 :> 2
Asked(f, m, d, i) ==
    [priority |-> 0, finish |-> f, maxCost |-> m, pin |-> None, deps |-> d, ignore |-> i]
MCPolicies == job1 :> {Asked(1, None, {}, FALSE)}
           @@ job2 :> {Asked(2, 3, {}, FALSE), Asked(None, None, {job1}, TRUE)}
MCCap == [day |-> 3, week |-> 4]
MCSpan == [day |-> 1, week |-> 2]
=============================================================================
