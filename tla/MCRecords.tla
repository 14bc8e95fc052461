------------------------------ MODULE MCRecords ------------------------------
EXTENDS Records

MCType == [s \in Suppliers |-> IF s \in {"s1", "s2"} THEN "TECHNICIAN" ELSE "SPARE"]
MCCost == [s \in Suppliers |-> IF s = "s1" THEN 2 ELSE 1]
MCReputation == [s \in Suppliers |-> 3]

\* Free throughout, busy on one day, free only at the end.
MCCalendars == {[d \in 1..Days |-> d # busy] : busy \in {0, 2, 3}} \cup {[d \in 1..Days |-> d > 2]}

Row(priority, code, from, to) == [priority |-> priority, code |-> code, tw |-> <<from, to>>]
File(rows) == [readable |-> TRUE, rows |-> rows]
Unreadable == [readable |-> FALSE, rows |-> <<Row("HIGH", 44, 1, 4)>>]

\* A second row or file after the first; windows from inside to past the calendar.
MCSchedules ==
    {<<Unreadable, File(<<Row("MED", 11, 1, 2), Row("HIGH", code, from, to)>>)>> :
        code \in {11, 22, 33, 44}, from \in {-1, 2}, to \in {4, 6}}
    \cup {<<File(<<Row("LOW", 11, 1, 2)>>)>>}
=============================================================================
