------------------------------ MODULE CronMatch ------------------------------
(* Which minutes a cron expression names: CronField and CronSchedule of       *)
(* connectors/schedule.py, which fire the runs, and _cron_field_matches and   *)
(* _cron_matches of the control plane, which look for runs that did not       *)
(* start.  A field is a sequence of chunks; texts are already split.  The     *)
(* calendar is external, with fields as small as its constants say.           *)
EXTENDS Integers, FiniteSets, Sequences

CONSTANTS Size,        \* sizes of the fields <<minute, hour, day, month, weekday>>
          MaxChunks,   \* bound on the length of the lists in the minute field
          Starts       \* minutes the search may start in

VARIABLES expr,   \* five fields
          start,  \* the minute next_after is called with
          t,      \* candidate
          pc      \* "search" or "found"
vars == <<expr, start, t, pc>>

-----------------------------------------------------------------------------
\* Days of the month and months count from one.
Lowest(f) == IF f \in {3, 4} THEN 1 ELSE 0
Highest(f) == Lowest(f) + Size[f] - 1

\* The calendar: field f of minute m.
FieldOf(f, m) ==
  LET hours == m \div Size[1]
      days == hours \div Size[2]
  IN CASE f = 1 -> m % Size[1]
       [] f = 2 -> hours % Size[2]
       [] f = 3 -> 1 + (days % Size[3])
       [] f = 4 -> 1 + ((days \div Size[3]) % Size[4])
       [] f = 5 -> days % Size[5]
Period == Size[1] * Size[2] * Size[3] * Size[4] * Size[5]

\* The chunks the parser accepts: "*", "*/s", "a", "a/s", "a-b" and "a-b/s";
\* step 0 stands for no step.  A weekday may be written 7 for 0.
Written(f) == Lowest(f) .. (IF f = 5 THEN Highest(f) + 1 ELSE Highest(f))
ParseValue(f, v) == IF f = 5 /\ v = Highest(f) + 1 THEN 0 ELSE v
Chunks(f) ==
  {c \in [base : {"star", "value", "range"}, lo : Written(f), hi : Written(f), step : 0..2] :
     /\ c.base = "star" => c.lo = Lowest(f) /\ c.hi = Highest(f)
     /\ c.base = "value" => c.hi = c.lo
     /\ c.base = "range" => ParseValue(f, c.lo) <= ParseValue(f, c.hi)}

\* _parse_chunk: "a/s" runs to the end of the field.
ParseChunk(f, c) ==
  LET lo == ParseValue(f, c.lo)
      hi == IF c.base = "value" /\ c.step > 0 THEN Highest(f) ELSE ParseValue(f, c.hi)
  IN {v \in lo..hi : (v - lo) % (IF c.step = 0 THEN 1 ELSE c.step) = 0}

Values(f, field) == UNION {ParseChunk(f, field[i]) : i \in 1..Len(field)}
IsAny(field) == Len(field) = 1 /\ field[1].base = "star" /\ field[1].step = 0

\* Days of the month and of the week: either one will do if both are given.
DayMatches(dom, dow, domAny, dowAny) ==
  IF domAny /\ dowAny THEN TRUE
  ELSE IF domAny THEN dow ELSE IF dowAny THEN dom ELSE dom \/ dow

\* CronSchedule.matches.
Matches(e, m) ==
  LET in(f) == FieldOf(f, m) \in Values(f, e[f])
  IN in(1) /\ in(2) /\ in(4) /\ DayMatches(in(3), in(5), IsAny(e[3]), IsAny(e[5]))

\* The control plane's reading of a chunk: a plain value returns from the
\* function, whatever follows it in the list.
Decides(c) == c.base = "value"

ScannerHit(f, c, v) ==
  IF c.base = "value" THEN c.lo = v
  ELSE c.lo <= v /\ v <= c.hi /\ (v - c.lo) % (IF c.step = 0 THEN 1 ELSE c.step) = 0

\* _cron_field_matches: the first chunk that hits or decides is the answer.
ScannerField(f, field, v) ==
  \E i \in 1..Len(field) :
    /\ ScannerHit(f, field[i], v)
    /\ \A j \in 1..i - 1 : ~Decides(field[j])

\* _cron_matches.
ScannerMatches(e, m) ==
  LET in(f) == ScannerField(f, e[f], FieldOf(f, m))
  IN in(1) /\ in(2) /\ in(4) /\ DayMatches(in(3), in(5), IsAny(e[3]), IsAny(e[5]))

-----------------------------------------------------------------------------
Star(f) == <<[base |-> "star", lo |-> Lowest(f), hi |-> Highest(f), step |-> 0]>>
Lists(f, n) == UNION {[1..k -> Chunks(f)] : k \in 1..n}
Single(f) == {<<c>> : c \in Chunks(f)}

Init ==
  /\ expr \in {<<mi, Star(2), dm, Star(4), dw>> :
                 mi \in Lists(1, MaxChunks), dm \in {Star(3)}, dw \in {Star(5)}}
           \cup {<<mi, Star(2), dm, Star(4), dw>> :
                 mi \in Single(1), dm \in Single(3), dw \in Single(5)}
  /\ start \in Starts
  /\ t = start + 1 /\ pc = "search"

\* Mutant: the search skips a minute after a miss.
StepTwo == pc = "search" /\ ~Matches(expr, t) /\ t < start + 2 * Period
           /\ t' = t + 2 /\ UNCHANGED <<expr, start, pc>>

\* next_after: minute by minute, for two years at most.
Step == pc = "search" /\ ~Matches(expr, t) /\ t < start + 2 * Period
        /\ t' = t + 1 /\ UNCHANGED <<expr, start, pc>>

Found == pc = "search" /\ Matches(expr, t) /\ pc' = "found" /\ UNCHANGED <<expr, start, t>>

Next == Step \/ Found
Spec == Init /\ [][Next]_vars /\ WF_vars(Next)

-----------------------------------------------------------------------------
\* The type invariant.
TypeOK == pc \in {"search", "found"} /\ t \in Nat /\ start \in Nat

\* next_after returns the first later minute of the schedule, whichever minute
\* (one of the schedule's own too) it is called with.
FirstLater == pc = "found" => /\ Matches(expr, t)
                              /\ \A m \in start + 1 .. t - 1 : ~Matches(expr, m)

\* A list names the minutes of each of its chunks: adding a chunk to a field
\* never removes a minute.
ListsAdd ==
  \A m \in start .. start + Size[1] - 1 :
    Len(expr[1]) = 2 /\ (Matches([expr EXCEPT ![1] = <<expr[1][1]>>], m)
                         \/ Matches([expr EXCEPT ![1] = <<expr[1][2]>>], m))
      => Matches(expr, m)

\* The control plane never expects a run in a minute the source does not fire
\* in: an expected start that cannot happen would be reported as missed.  For
\* weekdays as the docs write them, 0-6: the two disagree on ranges up to 7.
Documented == \A i \in 1..Len(expr[5]) : expr[5][i].hi <= Highest(5)
NoFalseSlot ==
  Documented => \A m \in start .. start + 6 : ScannerMatches(expr, m) => Matches(expr, m)

\* The control plane expects every run the source fires.
ExpectsEveryRun == \A m \in start .. start + 6 : Matches(expr, m) => ScannerMatches(expr, m)
=============================================================================
