------------------------------- MODULE Records -------------------------------
(***************************************************************************)
(* The records of the bri-1 example: jobs read from a schedule             *)
(* (mods/extract), the availability a supplier computes for a job          *)
(* (mods/avail), and the selection made of the suppliers that answered     *)
(* (mods/allign, utils/utils.ts).  The state is the workflow the           *)
(* end-to-end test drives with them: one job, answers in any order, the    *)
(* selection.                                                              *)
(*                                                                         *)
(* A calendar tells the free days, counted from 1.                         *)
(***************************************************************************)
EXTENDS Integers, Sequences, FiniteSets, SequencesExt, FiniteSetsExt

CONSTANTS
    Days,           \* length of a calendar: 30
    Suppliers,
    SupplierType,   \* the type of each supplier
    Cost,
    Reputation,
    Calendars,      \* calendars a supplier may have
    Schedules       \* files of rows, some of which cannot be read

\* A row tells the priority, the code of the job, which MJcodes knows, and its window.
Rows == [priority : {"LOW", "MED", "HIGH"}, code : {11, 22, 33, 44}, tw : Int \X Int]

ASSUME DaysAssumption == Days \in Nat
ASSUME CalendarsAssumption == Calendars \subseteq [1..Days -> BOOLEAN]
ASSUME SchedulesAssumption == Schedules \subseteq Seq([readable : BOOLEAN, rows : Seq(Rows)])

VARIABLES
    stage,          \* "schedule", "asking", "selected", "refused", "failed"
    job,
    calendar,       \* each supplier's
    answers,        \* suppliers in the order of their answers
    selection       \* the day and the supplier sets to choose from, and the choice

vars == <<stage, job, calendar, answers, selection>>

\* The order of the categories of partitionSuppliers, with their types.
Categories == <<"PORT", "SPARE", "TECHNICIAN", "VESSEL">>
NoSelection == [day |-> 0, sets |-> <<>>, chosen |-> <<>>]

\* The elements of a sequence that are in a set, in their order: the loops that push
\* what passes a test, as a recursive function.
Among(seq, set) ==
    LET kept[k \in 0..Len(seq)] ==
            IF k = 0 THEN <<>>
            ELSE IF seq[k] \in set THEN Append(kept[k - 1], seq[k]) ELSE kept[k - 1]
    IN  kept[Len(seq)]

-----------------------------------------------------------------------------
(* mods/extract                                                            *)

MJcodes(code) ==
    CASE code \in {11, 22, 33} -> [tech |-> 2, taskLength |-> 1]
      [] code = 44             -> [tech |-> 12, taskLength |-> 3]

\* retrieveJobs and jobFormatter: the rows of the priority, of the files that
\* can be read.
RetrieveJobs(files, priority) ==
    LET rows == FlattenSeq([k \in DOMAIN files |->
                    IF files[k].readable THEN files[k].rows ELSE <<>>])
        urgent == Among(rows, {row \in ToSet(rows) : row.priority = priority})
    IN  [k \in DOMAIN urgent |-> [code |-> urgent[k].code, tw |-> urgent[k].tw,
                                  reqs |-> MJcodes(urgent[k].code)]]

\* reqExpander: `case "11" || "22"` is `case "11"`, so 22 has no entry.
Expanded == {11, 33, 44}
ReqExpander(code) ==
    CASE code = 11 -> {"TECHNICIAN"}
      [] code = 33 -> {"SPARE", "TECHNICIAN"}
      [] code = 44 -> {"SPARE", "PORT", "TECHNICIAN"}

\* jobCanBeStarted: nobody answered who is not needed.
JobCanBeStarted(j, suppliers) ==
    /\ suppliers # {}
    /\ \A s \in suppliers : SupplierType[s] \in ReqExpander(j.code)

-----------------------------------------------------------------------------
(* mods/avail                                                              *)

\* Mutant: the end of the window is not looked at.
SuitabilityFinderPastWindow(free, tw, taskLength) ==
    {day \in 1..Days :
        /\ day >= tw[1]
        /\ day - 1 + taskLength < Days
        /\ \A d \in day..(day + taskLength - 1) : free[d]}

\* The days counted up to the task's length: from each free day on, as long as
\* days are free, and not at all when the task reaches the last day of the
\* calendar or of the window.
SuitabilityFinder(free, tw, taskLength) ==
    LET index(day) == day - 1
        counted(day) ==
            IF index(day) + taskLength >= Days \/ index(day) + taskLength >= tw[2] THEN 0
            ELSE Max({n \in 0..taskLength : \A d \in day..(day + n - 1) : free[d]})
    IN  {day \in 1..Days : index(day) >= tw[1] - 1 /\ counted(day) = taskLength}

Availability(s) == SuitabilityFinder(calendar[s], job.tw, job.reqs.taskLength)

-----------------------------------------------------------------------------
(* mods/allign                                                             *)

PartitionSuppliers(suppliers) ==
    [c \in ToSet(Categories) |-> Among(suppliers, {s \in Suppliers : SupplierType[s] = c})]

\* The categories of a day, in their order, with the suppliers that are free.
OverlapOn(partition, day) ==
    LET able == {s \in Suppliers : day \in Availability(s)}
        free == [k \in DOMAIN Categories |-> Among(partition[Categories[k]], able)]
    IN  Among(free, ToSet(free) \ {<<>>})

\* Mutant: one category is enough.
DayReducerAny(partition, days) == days

\* dayReducer: the days that every category with a supplier shares.
DayReducer(partition, days) ==
    LET minNum == Cardinality({c \in DOMAIN partition : partition[c] # <<>>})
    IN  {day \in days : Len(OverlapOn(partition, day)) = minNum}

\* Object.keys lists days in ascending order: the first is the earliest.
FindOverlappingDay(partition) ==
    LET days == UNION {Availability(s) : s \in UNION {ToSet(partition[c]) : c \in DOMAIN partition}}
        viable == DayReducer(partition, days)
    IN  IF viable = {} THEN 0 ELSE Min(viable)

\* Mutant: a digit that overflows keeps its place.
OdometerIncrementKeeps(odometer, arrays) ==
    LET digit == Max({k \in DOMAIN odometer : odometer[k] < Len(arrays[k])})
    IN  [odometer EXCEPT ![digit] = @ + 1]

\* The last digit that can be incremented is, and those after it start again.
OdometerIncrement(odometer, arrays) ==
    LET digit == Max({k \in DOMAIN odometer : odometer[k] < Len(arrays[k])})
    IN  [k \in DOMAIN odometer |-> CASE k < digit -> odometer[k]
                                     [] k = digit -> odometer[k] + 1
                                     [] OTHER     -> 1]

FormCombination(odometer, arrays) == [k \in DOMAIN arrays |-> arrays[k][odometer[k]]]

Odometers(arrays) ==
    {o \in [DOMAIN arrays -> Nat] : \A k \in DOMAIN arrays : o[k] \in 1..Len(arrays[k])}

CombineArrays(arrays) ==
    LET from[o \in Odometers(arrays)] ==
            <<FormCombination(o, arrays)>> \o
            IF \A k \in DOMAIN o : o[k] = Len(arrays[k]) THEN <<>>
            ELSE from[OdometerIncrement(o, arrays)]
    IN  IF arrays = <<>> \/ \E k \in DOMAIN arrays : arrays[k] = <<>> THEN <<>>
        ELSE from[[k \in DOMAIN arrays |-> 1]]

CreateUniqueSets(partition, day) ==
    IF day = 0 THEN <<>> ELSE CombineArrays(OverlapOn(partition, day))

Price(s, reqs) ==
    CASE SupplierType[s] \in {"PORT", "SPARE"} -> Cost[s]
      [] SupplierType[s] = "TECHNICIAN"        -> Cost[s] * 8 * reqs.tech * reqs.taskLength
      [] SupplierType[s] = "VESSEL"            -> Cost[s] * reqs.taskLength

\* The first set is taken, priced and rated; the rating is a sum here.
FormatUniqueSets(sets, reqs) ==
    IF sets = <<>> THEN <<>>
    ELSE <<[supplierSet   |-> Head(sets),
            totalPrice    |-> FoldSeq(LAMBDA s, sum : sum + Price(s, reqs), 0, Head(sets)),
            averageRating |-> FoldSeq(LAMBDA s, sum : sum + Reputation[s], 0, Head(sets))]>>

-----------------------------------------------------------------------------
(* The workflow                                                            *)

Init ==
    /\ stage = "schedule"
    /\ job \in {[code |-> 0, tw |-> <<0, 0>>, reqs |-> MJcodes(11)]}
    /\ calendar \in [Suppliers -> Calendars]
    /\ answers = <<>>
    /\ selection = NoSelection

Retrieve ==
    /\ stage = "schedule"
    /\ \E files \in Schedules :
          LET jobs == RetrieveJobs(files, "HIGH") IN
          IF jobs = <<>> THEN stage' = "refused" /\ UNCHANGED job
          ELSE stage' = "asking" /\ job' = Head(jobs)
    /\ UNCHANGED <<calendar, answers, selection>>

\* A response is stored under its sender: a second one takes the first's place.
Answer(s) ==
    /\ stage = "asking" /\ s \notin ToSet(answers)
    /\ answers' = Append(answers, s)
    /\ UNCHANGED <<stage, job, calendar, selection>>

\* jobCanBeStarted throws on a job that reqExpander does not know.
Start ==
    /\ stage = "asking"
    /\ stage' = IF answers # <<>> /\ job.code \notin Expanded THEN "failed"
                ELSE IF answers # <<>> /\ JobCanBeStarted(job, ToSet(answers)) THEN "selected"
                ELSE "refused"
    /\ LET partition == PartitionSuppliers(answers)
           day == FindOverlappingDay(partition)
           sets == CreateUniqueSets(partition, day)
       IN  selection' = IF stage' # "selected" THEN selection
                        ELSE [day |-> day, sets |-> sets,
                              chosen |-> FormatUniqueSets(sets, job.reqs)]
    /\ UNCHANGED <<job, calendar, answers>>

Next == Retrieve \/ Start \/ \E s \in Suppliers : Answer(s)

Spec == Init /\ [][Next]_vars

-----------------------------------------------------------------------------
\* Properties

\* A day is free for the task that starts on it, up to its last day.
Workable(free, day) ==
    LET last == day + job.reqs.taskLength - 1 IN
    /\ day >= job.tw[1] /\ last <= Days /\ last <= job.tw[2]
    /\ \A d \in day..last : free[d]

\* The days a supplier offers are those on which the whole task can be done
\* inside of the window, except when it would end on the window's or the
\* calendar's last day.
OfferedDaysAreWorkable ==
    stage = "asking" /\ answers = <<>> =>
        \A free \in [1..Days -> BOOLEAN] :
            SuitabilityFinder(free, job.tw, job.reqs.taskLength) =
                {day \in 1..Days : /\ Workable(free, day)
                                   /\ day + job.reqs.taskLength - 1 < job.tw[2]
                                   /\ day + job.reqs.taskLength - 1 < Days}

Represented == {SupplierType[s] : s \in ToSet(answers)}

\* The day on which every category that has answered can start with somebody.
Shared(day) ==
    \A c \in Represented :
        \E s \in ToSet(answers) : SupplierType[s] = c /\ day \in Availability(s)

\* The selected day is the earliest that every category shares, whatever the
\* order of the answers; without such a day nothing is selected.
EarliestSharedDay ==
    stage = "selected" =>
        LET shared == {day \in 1..Days : Shared(day)} IN
        IF shared = {} THEN selection = NoSelection ELSE selection.day = Min(shared)

\* The sets to choose from are every way to take one free supplier of each
\* category, each of them once.
SetsAreThePossibleTeams ==
    stage = "selected" /\ selection.day # 0 =>
        LET free == {s \in ToSet(answers) : selection.day \in Availability(s)}
            teams == {team \in SUBSET free :
                        /\ {SupplierType[s] : s \in team} = Represented
                        /\ Cardinality(team) = Cardinality(Represented)}
        IN  /\ {ToSet(selection.sets[k]) : k \in DOMAIN selection.sets} = teams
            /\ Len(selection.sets) = Cardinality(teams)

=============================================================================
