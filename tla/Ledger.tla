------------------------------- MODULE Ledger -------------------------------
(***************************************************************************)
(* How the call ledger is read (src/src/agy_bridge/budget.py): the lines   *)
(* of ledger.jsonl in file order, and the number of calls they amount to.  *)
(* An entry keeps what counting looks at; "retry" is a start entry with    *)
(* the retry flag.  A list of entries is the set of their positions.       *)
(***************************************************************************)
EXTENDS Naturals, Sequences, FiniteSets

Events == {"start", "retry", "spawn_failed", "finish"}
Entry(event, date, job) == [event |-> event, date |-> date, job |-> job]

\* How many of the lines at these positions have an event of E.
Number(lines, at, E) == Cardinality({i \in at : lines[i].event \in E})

\* max(0, starts - failed spawns)
Net(lines, at) ==
    LET starts == Number(lines, at, {"start", "retry"})
        failed == Number(lines, at, {"spawn_failed"})
    IN  IF starts > failed THEN starts - failed ELSE 0

\* _entries_today: from the end back to the first line of another date.
EntriesToday(lines, today) ==
    {i \in DOMAIN lines : \A k \in DOMAIN lines : k >= i => lines[k].date = today}

CallsToday(lines, today) == Net(lines, EntriesToday(lines, today))

----------------------------------------------------------------------------
\* What counting is meant to give: the entries of date d, wherever they stand.
EntriesOf(lines, d) == {i \in DOMAIN lines : lines[i].date = d}

\* The order EntriesToday relies on (budget.py:70-72).
Chronological(lines) ==
    \A i, k \in DOMAIN lines : i < k => lines[i].date <= lines[k].date
=============================================================================
