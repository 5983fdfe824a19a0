-------------------------------- MODULE Tail --------------------------------
(***************************************************************************)
(* The window of a tail_rows export (export/tail.go).  A heap is a number  *)
(* of pages and the page of each row that the transaction sees.  The       *)
(* sizing is done in integers of a fixed width, which wrap around.         *)
(***************************************************************************)
EXTENDS Integers, FiniteSets

CONSTANTS
  ProbePages,  \* how many pages at the end the density probe reads
  MarginPct,   \* how much larger the window is made, in percent
  MaxInt       \* the largest integer

ASSUME TailAssumption ==
  /\ ProbePages \in Nat \ {0}
  /\ MarginPct \in Nat /\ MarginPct >= 100
  /\ MaxInt \in Nat

\* Two's complement of the width of MaxInt, and a division that truncates.
Wrap(n) == ((n + MaxInt + 1) % (2 * (MaxInt + 1))) - (MaxInt + 1)
Quotient(a, b) == IF a >= 0 THEN a \div b ELSE -((-a) \div b)

\* Slip: the rows of all probed pages are taken for the rows of one.
SlipDensity(requested, pages, live) ==
  LET num == Wrap(requested * MarginPct)
      den == Wrap(live * 100)
  IN Quotient(Wrap(num + den - 1), den)

\* tailWindowPages: the request over the density, with the margin, rounded up.
WindowPages(requested, pages, live) ==
  LET num == Wrap(Wrap(requested * pages) * MarginPct)
      den == Wrap(live * 100)
  IN Quotient(Wrap(num + den - 1), den)

\* The rows of a heap that lie on the given page or after it.
From(page, place) == {r \in DOMAIN place : place[r] >= page}

\* PlanTailWindow and planTail: the first page to read, 0 for all of them.
StartPage(pages, place, requested) ==
  LET probed == IF pages < ProbePages THEN pages ELSE ProbePages
      live == Cardinality(From(pages - probed, place))
      wanted == WindowPages(requested, probed, live)
  IN IF pages = 0 \/ live = 0 \/ wanted >= pages THEN 0 ELSE pages - wanted

Full(start) == start <= 0

\* A warning is logged: no window was applied, or (tailShortfall) the one that
\* was came back short.
Warned(start, pages, count, requested) ==
  \/ Full(start)
  \/ pages - start < pages /\ (count = 0 \/ count < requested)
=============================================================================
