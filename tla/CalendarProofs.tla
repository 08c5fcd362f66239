--------------------------- MODULE CalendarProofs ---------------------------
(***************************************************************************)
(* Proofs about Calendar.                                                  *)
(***************************************************************************)
EXTENDS Calendar, Integers, WellFoundedInduction, TLAPS

(***************************************************************************)
(* Numbers                                                                 *)
(***************************************************************************)

LEMMA LeastExists ==
  ASSUME NEW S \in SUBSET Nat, S # {}
  PROVE  \E n \in S : \A k \in S : n <= k
<1>1. IsWellFoundedOn(OpToRel(<, Nat), Nat)
  BY NatLessThanWellFounded
<1> DEFINE R == OpToRel(<, Nat)
<1>2. \A x, y \in Nat : x < y => <<x, y>> \in R
  BY DEF OpToRel
<1> HIDE DEF R
<1>3. PICK n \in S : \A k \in S : ~ (<<k, n>> \in R)
  BY <1>1, WFMin DEF R
<1>4. \A k \in S : k \in Nat /\ n \in Nat /\ ~ (k < n)
  BY <1>2, <1>3
<1> QED
  BY <1>4

LEMMA GreatestExists ==
  ASSUME NEW b \in Nat, NEW S \in SUBSET (0 .. b), S # {}
  PROVE  \E n \in S : \A k \in S : k <= n
<1> DEFINE T == {m \in Nat : b - m \in S}
<1>1. \A k \in S : b - k \in T /\ b - (b - k) = k
  OBVIOUS
<1>2. PICK m \in T : \A k \in T : m <= k
  BY <1>1, LeastExists
<1>3. \A k \in S : k <= b - m
  BY <1>1, <1>2
<1> QED
  BY <1>2, <1>3

LEMMA DivMod ==
  ASSUME NEW a \in Nat, NEW d \in Nat \ {0}
  PROVE  /\ a \div d \in Nat /\ a % d \in 0 .. d - 1
         /\ a = (d * (a \div d)) + (a % d)
OBVIOUS

LEMMA DivUnique ==
  ASSUME NEW d \in Nat \ {0}, NEW q \in Nat, NEW r \in 0 .. d - 1
  PROVE  (d * q + r) \div d = q /\ (d * q + r) % d = r
<1> DEFINE a == d * q + r
           p == a \div d
           s == a % d
<1>1. a \in Nat
  OBVIOUS
<1>2. p \in Nat /\ s \in 0 .. d - 1 /\ a = d * p + s
  BY <1>1, DivMod
<1> HIDE DEF p, s
<1>3. CASE p = q
  BY <1>1, <1>2, <1>3 DEF p, s
<1>4. ASSUME p < q PROVE FALSE
  <2>1. PICK k \in Nat : q = p + 1 + k
    BY <1>2, <1>4
  <2>2. d * q = d * p + d + d * k /\ d * k >= 0
    BY <1>2, <2>1
  <2> QED
    BY <1>2, <2>2
<1>5. ASSUME q < p PROVE FALSE
  <2>1. PICK k \in Nat : p = q + 1 + k
    BY <1>2, <1>5
  <2>2. d * p = d * q + d + d * k /\ d * k >= 0
    BY <1>2, <2>1
  <2> QED
    BY <1>2, <2>2
<1> QED
  BY <1>2, <1>3, <1>4, <1>5

(***************************************************************************)
(* Triggers                                                                *)
(***************************************************************************)

Period == DayLength * WeekLength

LEMMA Lengths ==
  /\ DayLength \in Nat \ {0} /\ WeekLength \in Nat \ {0} /\ Period \in Nat /\ Period > 0
  /\ Grace \in Nat /\ MaxTime \in Nat /\ MaxChanges \in Nat
BY TimeAssumption DEF Period

\* The instants of a trigger: a week, a day of it, a time of day.
LEMMA Instant ==
  ASSUME NEW trigger \in Triggers, NEW k \in Nat, NEW w \in 0 .. WeekLength - 1,
         trigger.weekdays = {} \/ w \in trigger.weekdays
  PROVE  /\ FiresAt(trigger, DayLength * (WeekLength * k + w) + trigger.time)
         /\ DayLength * (WeekLength * k + w) + trigger.time \in Nat
         /\ Period * k <= DayLength * (WeekLength * k + w) + trigger.time
         /\ DayLength * (WeekLength * k + w) + trigger.time < Period * (k + 1)
<1> DEFINE q == WeekLength * k + w
<1>1. DayLength \in Nat \ {0} /\ WeekLength \in Nat \ {0} /\ trigger.time \in 0 .. DayLength - 1
  BY Lengths DEF Triggers
<1>2. q \in Nat /\ q % WeekLength = w
  <2>1. WeekLength * k \in Nat
    BY <1>1
  <2>2. (WeekLength * k + w) % WeekLength = w
    BY <1>1, DivUnique
  <2> QED
    BY <1>1, <2>1, <2>2
<1>3. WeekLength * k <= q /\ q + 1 <= WeekLength * (k + 1)
  BY <1>1
<1> HIDE DEF q
<1>4. (DayLength * q + trigger.time) % DayLength = trigger.time
      /\ (DayLength * q + trigger.time) \div DayLength = q
  BY <1>1, <1>2, DivUnique
<1>5. FiresAt(trigger, DayLength * q + trigger.time)
  BY <1>2, <1>4 DEF FiresAt
<1>6. DayLength * q + trigger.time \in Nat /\ DayLength * q <= DayLength * q + trigger.time
      /\ DayLength * q + trigger.time < DayLength * (q + 1)
  BY <1>1, <1>2
<1>7. \A a, b \in Nat : a <= b => DayLength * a <= DayLength * b
  <2> SUFFICES ASSUME NEW a \in Nat, NEW b \in Nat, a <= b PROVE DayLength * a <= DayLength * b
    OBVIOUS
  <2>1. PICK c \in Nat : b = a + c
    <3>1. b - a \in Nat /\ b = a + (b - a)
      OBVIOUS
    <3> QED
      BY <3>1
  <2>2. DayLength * b = DayLength * a + DayLength * c /\ DayLength * c >= 0
    BY <1>1, <2>1
  <2> QED
    BY <1>1, <2>2
<1>8. DayLength * (WeekLength * k) <= DayLength * q /\ DayLength * (q + 1) <= DayLength * (WeekLength * (k + 1))
  BY <1>1, <1>2, <1>3, <1>7
<1>9. Period * k = DayLength * (WeekLength * k) /\ Period * (k + 1) = DayLength * (WeekLength * (k + 1))
  BY <1>1 DEF Period
<1>10. Period * k <= DayLength * q + trigger.time /\ DayLength * q + trigger.time < Period * (k + 1)
  BY <1>1, <1>2, <1>6, <1>8, <1>9
<1> QED
  BY <1>5, <1>6, <1>10 DEF q

LEMMA FiresWithin ==
  ASSUME NEW trigger \in Triggers, NEW from \in Nat
  PROVE  \E t \in from .. from + Period : t \in Nat /\ FiresAt(trigger, t)
<1> DEFINE k == from \div Period
           at(n, w) == DayLength * (WeekLength * n + w) + trigger.time
<1>1. k \in Nat /\ Period * k <= from /\ from < Period * (k + 1)
  BY Lengths, DivMod
<1>2. Period * (k + 1) = Period * k + Period /\ Period * (k + 2) = Period * (k + 1) + Period
      /\ Period \in Nat /\ Period * k \in Nat
  BY <1>1, Lengths
<1> HIDE DEF k
<1>3. PICK w \in 0 .. WeekLength - 1 : trigger.weekdays = {} \/ w \in trigger.weekdays
  BY Lengths DEF Triggers
<1>4. FiresAt(trigger, at(k, w)) /\ at(k, w) \in Nat /\ Period * k <= at(k, w) /\ at(k, w) < Period * (k + 1)
  BY <1>1, <1>3, Instant
<1>5. k + 1 \in Nat /\ (k + 1) + 1 = k + 2
  BY <1>1
<1>6. FiresAt(trigger, at(k + 1, w)) /\ at(k + 1, w) \in Nat
      /\ Period * (k + 1) <= at(k + 1, w) /\ at(k + 1, w) < Period * (k + 2)
  BY <1>3, <1>5, Instant
<1>7. at(k + 1, w) = at(k, w) + Period
  BY <1>1, <1>3, Lengths DEF Period, Triggers
<1> HIDE DEF at
<1>8. CASE from <= at(k, w)
  BY <1>1, <1>2, <1>4, <1>8
<1>9. CASE at(k, w) < from
  BY <1>1, <1>2, <1>4, <1>6, <1>7, <1>9
<1> QED
  BY <1>4, <1>8, <1>9

\* get_next_fire_time: the trigger fires there, and not before.
LEMMA NextFireIs ==
  ASSUME NEW trigger \in Triggers, NEW from \in Nat
  PROVE  /\ NextFire(trigger, from) \in Nat /\ from <= NextFire(trigger, from)
         /\ FiresAt(trigger, NextFire(trigger, from))
         /\ \A t \in Nat : from <= t /\ t < NextFire(trigger, from) => ~ FiresAt(trigger, t)
<1> DEFINE Coming == {t \in from .. from + Period : FiresAt(trigger, t)}
<1>1. Coming \in SUBSET Nat /\ Coming # {}
  BY FiresWithin, Lengths
<1>2. \E t \in Coming : \A u \in Coming : t <= u
  BY <1>1, LeastExists
<1>3. NextFire(trigger, from) \in Coming /\ \A u \in Coming : NextFire(trigger, from) <= u
  BY <1>2 DEF NextFire, Period
<1>4. \A t \in Nat : from <= t /\ t < NextFire(trigger, from) /\ FiresAt(trigger, t) => t \in Coming
  <2>1. NextFire(trigger, from) \in from .. from + Period
    BY <1>3
  <2> HIDE DEF Coming
  <2>2. \A t \in from .. from + Period : FiresAt(trigger, t) => t \in Coming
    BY DEF Coming
  <2> QED
    BY Lengths, <2>1, <2>2
<1> HIDE DEF Coming
<1>5. NextFire(trigger, from) \in Nat
  BY <1>1, <1>3
<1>6. ASSUME NEW t \in Nat, from <= t, t < NextFire(trigger, from), FiresAt(trigger, t) PROVE FALSE
  BY <1>3, <1>4, <1>5, <1>6
<1> QED
  BY <1>3, <1>5, <1>6, Lengths DEF Coming

(***************************************************************************)
(* The agenda                                                              *)
(***************************************************************************)

\* The firings from a given instant to the end.
Firings(trigger, from, end) == {t \in from .. end : FiresAt(trigger, t)}

LEMMA OccurrencesAre ==
  ASSUME NEW s, table[s].trigger \in Triggers, NEW start \in Nat, NEW days \in Nat
  PROVE  OccurrencesOf(s, start, days) =
           {[at |-> t, id |-> s] : t \in Firings(table[s].trigger, start, start + Horizon(days))}
<1> DEFINE trigger == table[s].trigger
           end == start + Horizon(days)
           then(t) == NextFire(trigger, t + 1)
           Obeys(f) == f = [t \in Nat |-> IF t > end THEN {} ELSE {[at |-> t, id |-> s]} \cup f[then(t)]]
           Walk == CHOOSE f : Obeys(f)
           upTo(t) == {[at |-> u, id |-> s] : u \in {v \in t .. end : v = t \/ FiresAt(trigger, v)}}
           f == [t \in Nat |-> IF t > end THEN {} ELSE upTo(t)]
<1>1. OccurrencesOf(s, start, days) = Walk[NextFire(trigger, start)]
  BY DEF OccurrencesOf
<1>2. Horizon(days) \in Nat /\ end \in Nat /\ start <= end /\ trigger \in Triggers
  BY Lengths DEF Horizon
<1> HIDE DEF trigger
<1>3. \A t \in Nat : then(t) \in Nat /\ t < then(t) /\ FiresAt(trigger, then(t))
                    /\ \A u \in Nat : t < u /\ u < then(t) => ~ FiresAt(trigger, u)
  <2> SUFFICES ASSUME NEW t \in Nat
               PROVE  then(t) \in Nat /\ t < then(t) /\ FiresAt(trigger, then(t))
                      /\ \A u \in Nat : t < u /\ u < then(t) => ~ FiresAt(trigger, u)
    OBVIOUS
  <2>1. t + 1 \in Nat
    OBVIOUS
  <2> QED
    BY <1>2, <2>1, NextFireIs
<1> HIDE DEF end, then
<1>4. \A t \in Nat : ~ (t > end) => upTo(t) = {[at |-> t, id |-> s]} \cup f[then(t)]
  <2> SUFFICES ASSUME NEW t \in Nat, ~ (t > end) PROVE upTo(t) = {[at |-> t, id |-> s]} \cup f[then(t)]
    OBVIOUS
  <2>1. then(t) \in Nat /\ t < then(t) /\ FiresAt(trigger, then(t))
        /\ \A u \in Nat : t < u /\ u < then(t) => ~ FiresAt(trigger, u)
    BY <1>3
  <2>2. \A u \in t .. end : u = t \/ FiresAt(trigger, u) <=>
             u = t \/ (then(t) <= u /\ (u = then(t) \/ FiresAt(trigger, u)))
    BY <1>2, <2>1
  <2>3. f[then(t)] = IF then(t) > end THEN {} ELSE upTo(then(t))
    BY <2>1
  <2>4. CASE then(t) > end
    BY <1>2, <2>1, <2>2, <2>3, <2>4
  <2>5. CASE ~ (then(t) > end)
    BY <1>2, <2>1, <2>2, <2>3, <2>5
  <2> QED
    BY <2>4, <2>5
<1>5. Obeys(f)
  BY <1>4
<1> HIDE DEF f
<1>6. Obeys(Walk)
  BY <1>5
<1> HIDE DEF Walk
<1>7. \A t \in Nat : Walk[t] = IF t > end THEN {} ELSE {[at |-> t, id |-> s]} \cup Walk[then(t)]
  BY <1>6
<1>8. \A t \in Nat : f[t] = IF t > end THEN {} ELSE {[at |-> t, id |-> s]} \cup f[then(t)]
  BY <1>5
<1>9. \A t \in Nat : Walk[t] = f[t]
  <2> DEFINE Wrong == {t \in 0 .. end : Walk[t] # f[t]}
  <2>1. SUFFICES ASSUME Wrong # {} PROVE FALSE
    <3>1. ASSUME Wrong = {}, NEW t \in Nat PROVE Walk[t] = f[t]
      <4>1. CASE t > end
        BY <1>7, <1>8, <4>1
      <4>2. CASE ~ (t > end)
        BY <1>2, <3>1, <4>2
      <4> QED
        BY <4>1, <4>2
    <3> QED
      BY <3>1
  <2>2. PICK t \in Wrong : \A u \in Wrong : u <= t
    BY <1>2, <2>1, GreatestExists
  <2>3. t \in Nat /\ ~ (t > end)
    BY <1>2, <2>2
  <2>4. then(t) \in Nat /\ t < then(t)
    BY <1>3, <2>3
  <2>5. Walk[then(t)] = f[then(t)]
    <3>1. CASE then(t) > end
      BY <1>7, <1>8, <2>4, <3>1
    <3>2. CASE ~ (then(t) > end)
      BY <1>2, <2>2, <2>3, <2>4, <3>2
    <3> QED
      BY <3>1, <3>2
  <2> QED
    BY <1>7, <1>8, <2>2, <2>3, <2>5
<1>10. LET n == NextFire(trigger, start) IN
         /\ n \in Nat /\ start <= n /\ FiresAt(trigger, n)
         /\ \A t \in Nat : start <= t /\ t < n => ~ FiresAt(trigger, t)
  BY <1>2, NextFireIs
<1>11. f[NextFire(trigger, start)] = {[at |-> t, id |-> s] : t \in Firings(trigger, start, end)}
  <2> DEFINE n == NextFire(trigger, start)
  <2>1. f[n] = IF n > end THEN {} ELSE upTo(n)
    BY <1>10 DEF f
  <2>2. \A t \in start .. end : FiresAt(trigger, t) <=> n <= t /\ (t = n \/ FiresAt(trigger, t))
    BY <1>2, <1>10
  <2>3. \A t : t \in Firings(trigger, start, end) <=> t \in start .. end /\ FiresAt(trigger, t)
    BY DEF Firings
  <2>4. CASE n > end
    BY <1>2, <1>10, <2>1, <2>2, <2>3, <2>4
  <2>5. CASE ~ (n > end)
    BY <1>2, <1>10, <2>1, <2>2, <2>3, <2>5
  <2> QED
    BY <2>4, <2>5
<1> QED
  BY <1>1, <1>9, <1>10, <1>11 DEF trigger, end

\* The agenda of a window is what the triggers say of it.
LEMMA AgendaIs ==
  ASSUME table \in [Schedules -> Rows \cup {None}], NEW start \in Nat, NEW days \in Nat
  PROVE  Agenda(start, days) = {o \in [at : start .. start + Horizon(days), id : Enabled] :
                                  FiresAt(table[o.id].trigger, o.at)}
<1>1. \A s \in Enabled : table[s].trigger \in Triggers
  BY RowAssumption DEF Enabled
<1>2. \A s \in Enabled : OccurrencesOf(s, start, days) =
        {[at |-> t, id |-> s] : t \in {u \in start .. start + Horizon(days) : FiresAt(table[s].trigger, u)}}
  BY <1>1, OccurrencesAre DEF Firings
<1> QED
  BY <1>2 DEF Agenda

(***************************************************************************)
(* The types                                                               *)
(***************************************************************************)

Jobs == [trigger : Triggers, next : Nat]
Stages == {"submitted", "running", "ended"}

Types ==
  /\ table \in [Schedules -> Rows \cup {None}]
  /\ marked \in [Schedules -> Nat]
  /\ jobs \in [Schedules -> Jobs \cup {None}]
  /\ now \in Nat /\ (now = 1 \/ now <= MaxTime)
  /\ pool \subseteq [id : Schedules, at : Nat, stage : Stages]
  /\ ran \in [Schedules -> SUBSET Nat]
  /\ viewed \in Nat \cup {None}
  /\ reloading \in BOOLEAN

\* A job is next run at a firing; there is none between now and then.
WellSet(s) ==
  /\ FiresAt(jobs[s].trigger, jobs[s].next)
  /\ \A t \in Nat : now <= t /\ t < jobs[s].next => ~ FiresAt(jobs[s].trigger, t)

WellSetJobs == \A s \in Schedules : jobs[s] # None => WellSet(s)

\* What reload_schedules makes of the table.
LEMMA RebuiltIs ==
  ASSUME table \in [Schedules -> Rows \cup {None}], now \in Nat
  PROVE  /\ Rebuilt \in [Schedules -> Jobs \cup {None}]
         /\ \A s \in Schedules : Rebuilt[s] # None <=> s \in Enabled
         /\ \A s \in Enabled :
              /\ Rebuilt[s].trigger = table[s].trigger /\ Rebuilt[s].next >= now
              /\ FiresAt(Rebuilt[s].trigger, Rebuilt[s].next)
              /\ \A t \in Nat : now <= t /\ t < Rebuilt[s].next => ~ FiresAt(Rebuilt[s].trigger, t)
<1>1. \A s \in Enabled : s \in Schedules /\ table[s].trigger \in Triggers
  BY RowAssumption DEF Enabled
<1>2. now \in Nat
  OBVIOUS
<1>3. ASSUME NEW s \in Enabled
      PROVE  /\ Rebuilt[s] \in Jobs /\ Rebuilt[s].trigger = table[s].trigger /\ Rebuilt[s].next >= now
             /\ FiresAt(Rebuilt[s].trigger, Rebuilt[s].next)
             /\ \A t \in Nat : now <= t /\ t < Rebuilt[s].next => ~ FiresAt(Rebuilt[s].trigger, t)
  <2>1. Rebuilt[s] = [trigger |-> table[s].trigger, next |-> NextFire(table[s].trigger, now)]
    BY <1>1 DEF Rebuilt, JobOf
  <2>2. Rebuilt[s].trigger = table[s].trigger /\ Rebuilt[s].next = NextFire(table[s].trigger, now)
    BY <2>1
  <2>3. NextFire(table[s].trigger, now) \in Nat
    BY <1>1, <1>2, NextFireIs
  <2>4. Rebuilt[s] \in Jobs
    BY <1>1, <2>1, <2>3 DEF Jobs
  <2> QED
    BY <1>1, <1>2, <2>2, <2>3, <2>4, NextFireIs
<1>4. \A s \in Schedules : s \notin Enabled => Rebuilt[s] = None
  BY DEF Rebuilt
<1>5. Rebuilt = [s \in Schedules |-> Rebuilt[s]]
  BY DEF Rebuilt
<1>6. None \notin Jobs
  BY NoneAssumption DEF Jobs
<1> QED
  BY <1>3, <1>4, <1>5, <1>6

\* coalesce picks the last firing that has passed, and the job goes on behind it.
LEMMA LastDueIs ==
  ASSUME Types, NEW s \in Schedules, IsDue(s), WellSet(s)
  PROVE  /\ LastDue(s) \in Nat /\ jobs[s].next <= LastDue(s) /\ LastDue(s) < now
         /\ FiresAt(jobs[s].trigger, LastDue(s))
         /\ \A t \in Nat : LastDue(s) < t /\ t < now => ~ FiresAt(jobs[s].trigger, t)
<1> DEFINE Passed == {t \in jobs[s].next .. now - 1 : FiresAt(jobs[s].trigger, t)}
<1>1. jobs[s] \in Jobs /\ now \in Nat /\ jobs[s].next \in Nat /\ jobs[s].next < now
  BY DEF Types, IsDue, Jobs
<1>2. now - 1 \in Nat /\ Passed \in SUBSET (0 .. now - 1) /\ jobs[s].next \in Passed
  BY <1>1 DEF WellSet
<1>3. \E t \in Passed : \A u \in Passed : u <= t
  BY <1>2, GreatestExists
<1>4. LastDue(s) \in Passed /\ \A u \in Passed : u <= LastDue(s)
  BY <1>3 DEF LastDue
<1>5. LastDue(s) \in Nat /\ jobs[s].next <= LastDue(s) /\ LastDue(s) < now
  BY <1>1, <1>4
<1>6. ASSUME NEW t \in Nat, LastDue(s) < t, t < now, FiresAt(jobs[s].trigger, t) PROVE FALSE
  <2>1. t \in Passed
    BY <1>1, <1>5, <1>6
  <2> QED
    BY <1>4, <1>5, <1>6, <2>1
<1> QED
  BY <1>4, <1>5, <1>6

\* Where Submit leaves the job.
LEMMA GoOnIs ==
  ASSUME Types, NEW s \in Schedules, IsDue(s), WellSet(s), GoOn(s)
  PROVE  /\ jobs' \in [Schedules -> Jobs \cup {None}]
         /\ \A r \in Schedules : r # s => jobs'[r] = jobs[r]
         /\ jobs'[s] # None /\ jobs'[s].trigger = jobs[s].trigger
         /\ LastDue(s) < jobs'[s].next /\ jobs'[s].next \in Nat
         /\ FiresAt(jobs[s].trigger, jobs'[s].next)
         /\ \A t \in Nat : LastDue(s) < t /\ t < jobs'[s].next => ~ FiresAt(jobs[s].trigger, t)
<1>1. jobs[s] \in Jobs /\ jobs[s].trigger \in Triggers /\ jobs[s] # None
  BY DEF Types, IsDue, Jobs
<1>2. LastDue(s) \in Nat /\ LastDue(s) + 1 \in Nat
  BY LastDueIs
<1> DEFINE next == NextFire(jobs[s].trigger, LastDue(s) + 1)
<1>3. /\ next \in Nat /\ LastDue(s) + 1 <= next /\ FiresAt(jobs[s].trigger, next)
      /\ \A t \in Nat : LastDue(s) + 1 <= t /\ t < next => ~ FiresAt(jobs[s].trigger, t)
  BY <1>1, <1>2, NextFireIs
<1>4. jobs' = [jobs EXCEPT ![s].next = next]
  BY DEF GoOn
<1> HIDE DEF next
<1>5. jobs'[s] = [jobs[s] EXCEPT !.next = next] /\ \A r \in Schedules : r # s => jobs'[r] = jobs[r]
  BY <1>4 DEF Types
<1>6. jobs'[s] \in Jobs /\ jobs'[s].trigger = jobs[s].trigger /\ jobs'[s].next = next
  BY <1>1, <1>3, <1>5 DEF Jobs
<1>7. jobs' \in [Schedules -> Jobs \cup {None}]
  BY <1>4, <1>5, <1>6 DEF Types
<1>8. jobs'[s] # None
  BY <1>6, NoneAssumption DEF Jobs
<1> QED
  BY <1>2, <1>3, <1>5, <1>6, <1>7, <1>8

(***************************************************************************)
(* The jobs                                                                *)
(***************************************************************************)

\* What ran or is in hand has passed, and the jobs are past it.
Behind(s, t) == t < now /\ (jobs[s] # None => t < jobs[s].next)

AllBehind ==
  /\ \A s \in Schedules : \A t \in ran[s] : Behind(s, t)
  /\ \A j \in pool : Behind(j.id, j.at)

JobsInv == Types /\ WellSetJobs /\ AllBehind

\* What the pool does: a job goes on by one stage or leaves.
LEMMA InPoolIs ==
  ASSUME Types, NEW j \in pool, InPool(j)
  PROVE  /\ UNCHANGED <<table, jobs, now, reloading, viewed>>
         /\ pool' \subseteq [id : Schedules, at : Nat, stage : Stages]
         /\ \A k \in pool' :
              \/ k \in pool /\ k # j
              \/ /\ k.id = j.id /\ k.at = j.at
                 /\ \/ j.stage = "submitted" /\ k.stage = "running" /\ k.at \in ran'[k.id]
                    \/ j.stage = "running" /\ k.stage = "ended"
         /\ \A k \in pool : k # j => k \in pool'
         /\ ran' \in [Schedules -> SUBSET Nat]
         /\ \A s \in Schedules : ran[s] \subseteq ran'[s] /\ \A t \in ran'[s] : t \in ran[s] \/ (s = j.id /\ t = j.at)
         /\ (j.id \in Enabled /\ j.stage = "submitted" => j.at \in ran'[j.id] \/ [at |-> j.at, id |-> j.id] \in excused')
         /\ excused \subseteq excused'
         /\ (ran' # ran => j.stage = "submitted" /\ j.id \in Enabled)
<1>1. j \in [id : Schedules, at : Nat, stage : Stages]
  BY DEF Types
<1>2. CASE Misfire(j) \/ StartNothing(j)
  BY <1>1, <1>2 DEF Misfire, StartNothing, Leave, Types
<1>3. CASE StartRun(j)
  BY <1>1, <1>3 DEF StartRun, GoTo, Types, Stages
<1>4. CASE EndRun(j)
  BY <1>1, <1>4 DEF EndRun, GoTo, Types, Stages
<1>5. CASE MarkRun(j)
  BY <1>1, <1>5 DEF MarkRun, Leave, Types
<1> QED
  BY <1>2, <1>3, <1>4, <1>5 DEF InPool

\* What Submit does to the pool.
LEMMA SubmitIs ==
  ASSUME Types, NEW s \in Schedules, Submit(s)
  PROVE  /\ UNCHANGED <<table, marked, now, reloading, ran, viewed>> /\ IsDue(s) /\ GoOn(s)
         /\ excused \subseteq excused' /\ pool \subseteq pool'
         /\ \A k \in pool' :
              \/ k \in pool
              \/ k = [id |-> s, at |-> LastDue(s), stage |-> "submitted"] /\ \A j \in pool : j.id # s
         /\ \/ [id |-> s, at |-> LastDue(s), stage |-> "submitted"] \in pool'
            \/ [at |-> LastDue(s), id |-> s] \in excused'
BY DEF Submit, InHand

LEMMA InitJobsInv == Init => JobsInv
<1> SUFFICES ASSUME Init PROVE JobsInv
  OBVIOUS
<1>1. table \in [Schedules -> Rows \cup {None}] /\ now \in Nat
  BY DEF Init
<1>2. Types
  BY <1>1, RebuiltIs DEF Init, Types
<1>3. WellSetJobs
  BY <1>1, RebuiltIs DEF Init, WellSetJobs, WellSet
<1>4. AllBehind
  BY DEF Init, AllBehind
<1> QED
  BY <1>2, <1>3, <1>4 DEF JobsInv

\* Nothing done to the table or the agenda concerns the jobs.
LEMMA JobsUntouched ==
  ASSUME JobsInv, Types', UNCHANGED <<jobs, now, ran, pool>>
  PROVE  JobsInv'
BY DEF JobsInv, WellSetJobs, WellSet, AllBehind, Behind

LEMMA ChangeTypes ==
  ASSUME Types, NEW s \in Schedules, NEW row \in Rows \cup {None}, Write(s, row),
         marked' = marked \/ marked' = [marked EXCEPT ![s] = 0]
  PROVE  Types'
<1>1. table' \in [Schedules -> Rows \cup {None}]
  BY DEF Types, Write
<1>2. UNCHANGED <<jobs, now, pool, ran>> /\ reloading' = TRUE /\ viewed' = None
  BY DEF Write, Change
<1>3. marked' \in [Schedules -> Nat]
  BY DEF Types
<1> QED
  BY <1>1, <1>2, <1>3 DEF Types

LEMMA JobsInvStep == JobsInv /\ [Next]_vars => JobsInv'
<1> SUFFICES ASSUME JobsInv, [Next]_vars PROVE JobsInv'
  OBVIOUS
<1>t. Types /\ WellSetJobs /\ AllBehind
  BY DEF JobsInv
<1>n. now \in Nat /\ MaxTime \in Nat
  BY Lengths, <1>t DEF Types
<1>j. \A s \in Schedules : jobs[s] # None => jobs[s] \in Jobs /\ jobs[s].next \in Nat /\ jobs[s].trigger \in Triggers
  BY <1>t DEF Types, Jobs
<1>p. /\ \A j \in pool : j.id \in Schedules /\ j.at \in Nat
      /\ \A s \in Schedules : ran[s] \subseteq Nat
  BY <1>t DEF Types
<1>b. /\ \A s \in Schedules : \A t \in ran[s] : t < now
      /\ \A j \in pool : j.at < now
      /\ \A s \in Schedules : \A t \in ran[s] : jobs[s] # None => t < jobs[s].next
      /\ \A j \in pool : jobs[j.id] # None => j.at < jobs[j.id].next
  BY <1>t DEF AllBehind, Behind
<1>1. CASE Advance \/ Sleep
  <2>1. /\ now' \in Nat /\ now < now' /\ now' <= MaxTime
        /\ UNCHANGED <<table, marked, jobs, reloading, pool, ran>>
    BY <1>1, <1>n DEF Advance, Sleep
  <2>2. viewed' \in Nat \cup {None}
    BY <1>1, <1>t DEF Advance, Sleep, Change, Types
  <2>3. Types'
    BY <1>t, <2>1, <2>2 DEF Types
  <2>4. \A t \in Nat : now' <= t => now <= t
    BY <1>n, <2>1
  <2>5. WellSetJobs'
    BY <1>t, <2>1, <2>4 DEF WellSetJobs, WellSet
  <2>6. \A t \in Nat : t < now => t < now'
    BY <1>n, <2>1
  <2>7. AllBehind'
    BY <1>t, <1>p, <2>1, <2>6 DEF AllBehind, Behind
  <2> QED
    BY <2>3, <2>5, <2>7 DEF JobsInv
<1>2. CASE Reload \/ Restart
  <2>1. UNCHANGED <<table, marked, now, ran>> /\ jobs' = Rebuilt /\ reloading' = FALSE /\ pool' \subseteq pool
        /\ (viewed' = viewed \/ viewed' = None)
    BY <1>2 DEF Reload, Restart, Change
  <2>2. table \in [Schedules -> Rows \cup {None}]
    BY <1>t DEF Types
  <2>3. Types'
    BY <1>t, <1>n, <2>1, <2>2, RebuiltIs DEF Types
  <2>4. WellSetJobs'
    BY <1>n, <2>1, <2>2, RebuiltIs DEF WellSetJobs, WellSet
  <2>5. \A s \in Schedules : jobs'[s] # None => jobs'[s].next \in Nat /\ now <= jobs'[s].next
    <3>1. \A s \in Schedules : jobs'[s] # None => jobs'[s].next \in Nat
      BY <2>3 DEF Types, Jobs
    <3> QED
      BY <1>n, <2>1, <2>2, <3>1, RebuiltIs
  <2>6. AllBehind'
    BY <1>n, <1>b, <1>p, <2>1, <2>5 DEF AllBehind, Behind
  <2> QED
    BY <2>3, <2>4, <2>6 DEF JobsInv
<1>3. CASE View
  <2>1. Types' /\ UNCHANGED <<jobs, now, ran, pool>>
    BY <1>3, <1>t DEF View, Types
  <2> QED
    BY <2>1, JobsUntouched
<1>4. ASSUME NEW s \in Schedules, Submit(s) PROVE JobsInv'
  <2>1. /\ UNCHANGED <<table, marked, now, reloading, ran, viewed>> /\ IsDue(s) /\ GoOn(s)
        /\ \A k \in pool' : k \in pool \/ k = [id |-> s, at |-> LastDue(s), stage |-> "submitted"]
    BY <1>4, <1>t, SubmitIs
  <2>2. WellSet(s) /\ jobs[s] # None
    BY <1>t, <2>1 DEF WellSetJobs, IsDue
  <2>3. /\ LastDue(s) \in Nat /\ jobs[s].next <= LastDue(s) /\ LastDue(s) < now
        /\ \A t \in Nat : LastDue(s) < t /\ t < now => ~ FiresAt(jobs[s].trigger, t)
    BY <1>t, <2>1, <2>2, LastDueIs
  <2>4. /\ jobs' \in [Schedules -> Jobs \cup {None}]
        /\ \A r \in Schedules : r # s => jobs'[r] = jobs[r]
        /\ jobs'[s] # None /\ jobs'[s].trigger = jobs[s].trigger
        /\ LastDue(s) < jobs'[s].next /\ jobs'[s].next \in Nat
        /\ FiresAt(jobs[s].trigger, jobs'[s].next)
        /\ \A t \in Nat : LastDue(s) < t /\ t < jobs'[s].next => ~ FiresAt(jobs[s].trigger, t)
    BY <1>t, <2>1, <2>2, GoOnIs
  <2>5. \A k \in pool' : k \in pool \/ (k.id = s /\ k.at = LastDue(s) /\ k \in [id : Schedules, at : Nat, stage : Stages])
    BY <2>1, <2>3 DEF Stages
  <2>6. Types'
    BY <1>t, <2>1, <2>4, <2>5 DEF Types
  <2>7. WellSetJobs'
    <3>1. \A t \in Nat : now <= t => LastDue(s) < t
      BY <1>n, <2>3
    <3>2. WellSet(s)'
      BY <2>1, <2>4, <3>1 DEF WellSet
    <3> QED
      BY <1>t, <2>1, <2>4, <3>2 DEF WellSetJobs, WellSet
  <2>8. \A t \in Nat : t < jobs[s].next => t < jobs'[s].next
    BY <1>j, <2>2, <2>3, <2>4
  <2>9. AllBehind'
    <3>1. \A r \in Schedules : \A t \in ran[r] : t < now /\ (jobs'[r] # None => t < jobs'[r].next)
      BY <1>b, <1>p, <2>2, <2>4, <2>8
    <3>2. \A k \in pool' : k.at < now /\ (jobs'[k.id] # None => k.at < jobs'[k.id].next)
      BY <1>b, <1>p, <2>2, <2>3, <2>4, <2>5, <2>8
    <3> QED
      BY <2>1, <3>1, <3>2 DEF AllBehind, Behind
  <2> QED
    BY <2>6, <2>7, <2>9 DEF JobsInv
<1>5. ASSUME NEW j \in pool, InPool(j) PROVE JobsInv'
  <2>1. /\ UNCHANGED <<table, jobs, now, reloading, viewed>>
        /\ pool' \subseteq [id : Schedules, at : Nat, stage : Stages]
        /\ \A k \in pool' : k \in pool \/ (k.id = j.id /\ k.at = j.at)
        /\ ran' \in [Schedules -> SUBSET Nat]
        /\ \A s \in Schedules : \A t \in ran'[s] : t \in ran[s] \/ (s = j.id /\ t = j.at)
    BY <1>5, <1>t, InPoolIs
  <2>2. marked' \in [Schedules -> Nat]
    BY <1>5, <1>t, <1>p DEF InPool, Misfire, StartNothing, StartRun, EndRun, MarkRun, Types
  <2>3. Types'
    BY <1>t, <2>1, <2>2 DEF Types
  <2>4. WellSetJobs' /\ AllBehind'
    BY <1>t, <1>p, <2>1 DEF WellSetJobs, WellSet, AllBehind, Behind
  <2> QED
    BY <2>3, <2>4 DEF JobsInv
<1>6. ASSUME NEW s \in Schedules, NEW row \in Rows, SaveSchedule(s, row) \/ Import(s, row) PROVE JobsInv'
  <2>1. Write(s, row) /\ (marked' = marked \/ marked' = [marked EXCEPT ![s] = 0])
    BY <1>6 DEF SaveSchedule, Import
  <2>2. Types' /\ UNCHANGED <<jobs, now, ran, pool>>
    BY <1>t, <2>1, ChangeTypes DEF Write
  <2> QED
    BY <2>2, JobsUntouched
<1>7. ASSUME NEW s \in Schedules, DeleteSchedule(s) PROVE JobsInv'
  <2>1. Types' /\ UNCHANGED <<jobs, now, ran, pool>>
    BY <1>7, <1>t, ChangeTypes DEF DeleteSchedule, Write
  <2> QED
    BY <2>1, JobsUntouched
<1>8. CASE UNCHANGED vars
  <2>1. Types' /\ UNCHANGED <<jobs, now, ran, pool>>
    BY <1>8, <1>t DEF vars, Types
  <2> QED
    BY <2>1, JobsUntouched
<1> QED
  BY <1>1, <1>2, <1>3, <1>4, <1>5, <1>6, <1>7, <1>8 DEF Next, TheEnd

LEMMA AlwaysJobsInv == Spec => []JobsInv
BY InitJobsInv, JobsInvStep, PTL DEF Spec

\* get_upcoming_occurrences shows what the triggers say of the window, its ends
\* included, for any number of days and however many firings there are in it.
THEOREM AgendaAlwaysExact == Spec => []AgendaIsExact
<1>1. JobsInv => AgendaIsExact
  <2> SUFFICES ASSUME JobsInv PROVE AgendaIsExact
    OBVIOUS
  <2>1. table \in [Schedules -> Rows \cup {None}] /\ now \in Nat /\ 0 .. 2 \subseteq Nat
    BY DEF JobsInv, Types
  <2> QED
    BY <2>1, AgendaIs DEF AgendaIsExact
<1> QED
  BY <1>1, AlwaysJobsInv, PTL

(***************************************************************************)
(* The runs                                                                *)
(***************************************************************************)

\* A schedule has one job in hand at most; nothing later of it ran, and it has run
\* itself once it is past its start.
InHandInv ==
  /\ \A j, k \in pool : j.id = k.id => j = k
  /\ \A j \in pool : \A t \in ran[j.id] : t <= j.at /\ (j.stage = "submitted" => t < j.at)
  /\ \A j \in pool : j.stage # "submitted" => j.at \in ran[j.id]
  /\ \A s \in Schedules : marked[s] = 0 \/ marked[s] \in ran[s]

LEMMA InHandStep == JobsInv /\ InHandInv /\ [Next]_vars => InHandInv'
<1> SUFFICES ASSUME JobsInv, InHandInv, [Next]_vars PROVE InHandInv'
  OBVIOUS
<1>t. Types /\ WellSetJobs /\ AllBehind
  BY DEF JobsInv
<1>p. /\ \A j \in pool : j.id \in Schedules /\ j.at \in Nat /\ j.stage \in Stages
      /\ \A s \in Schedules : ran[s] \subseteq Nat
  BY <1>t DEF Types
<1>1. CASE Advance \/ Sleep \/ View \/ Reload \/ UNCHANGED vars
  <2>1. UNCHANGED <<marked, pool, ran>>
    BY <1>1 DEF Advance, Sleep, View, Reload, vars
  <2> QED
    BY <2>1 DEF InHandInv
<1>2. CASE Restart
  BY <1>2 DEF Restart, InHandInv
<1>3. ASSUME NEW s \in Schedules, Submit(s) PROVE InHandInv'
  <2>1. /\ UNCHANGED <<marked, now, ran>> /\ IsDue(s)
        /\ \A k \in pool' :
             \/ k \in pool
             \/ k = [id |-> s, at |-> LastDue(s), stage |-> "submitted"] /\ \A j \in pool : j.id # s
    BY <1>3, <1>t, SubmitIs
  <2>2. WellSet(s) /\ jobs[s] # None
    BY <1>t, <2>1 DEF WellSetJobs, IsDue
  <2>3. LastDue(s) \in Nat /\ jobs[s].next <= LastDue(s) /\ jobs[s].next \in Nat
    BY <1>t, <2>1, <2>2, LastDueIs DEF Types, Jobs
  <2>4. \A t \in ran[s] : t < LastDue(s) /\ t <= LastDue(s)
    BY <1>t, <1>p, <2>2, <2>3 DEF AllBehind, Behind
  <2>5. \A k \in pool' : k \in pool \/ (k.id = s /\ k.at = LastDue(s) /\ k.stage = "submitted")
    BY <2>1
  <2>6. \A j, k \in pool' : j.id = k.id => j = k
    BY <2>1 DEF InHandInv
  <2> QED
    BY <2>1, <2>4, <2>5, <2>6 DEF InHandInv
<1>4. ASSUME NEW j \in pool, InPool(j) PROVE InHandInv'
  <2>1. CASE Misfire(j) \/ StartNothing(j)
    BY <2>1 DEF Misfire, StartNothing, Leave, InHandInv
  <2>2. CASE StartRun(j)
    <3>1. /\ j.stage = "submitted" /\ UNCHANGED marked
          /\ pool' = (pool \ {j}) \cup {[j EXCEPT !.stage = "running"]}
          /\ ran' = [ran EXCEPT ![j.id] = @ \cup {j.at}]
      BY <2>2 DEF StartRun, GoTo
    <3>2. \A k \in pool' : (k \in pool /\ k # j) \/ (k = [j EXCEPT !.stage = "running"] /\ k.id = j.id /\ k.at = j.at /\ k.stage = "running")
      BY <1>t, <3>1 DEF Types
    <3>3. \A k \in pool : k # j => k.id # j.id
      BY DEF InHandInv
    <3>4. ran'[j.id] = ran[j.id] \cup {j.at} /\ \A s \in Schedules : s # j.id => ran'[s] = ran[s]
      BY <1>t, <3>1 DEF Types
    <3>5. \A t \in ran'[j.id] : t <= j.at
      BY <1>p, <3>1, <3>4 DEF InHandInv
    <3>6. \A i, k \in pool' : i.id = k.id => i = k
      BY <3>2, <3>3 DEF InHandInv
    <3>7. \A k \in pool' : \A t \in ran'[k.id] : t <= k.at /\ (k.stage = "submitted" => t < k.at)
      BY <1>p, <3>2, <3>3, <3>4, <3>5 DEF InHandInv
    <3>8. \A k \in pool' : k.stage # "submitted" => k.at \in ran'[k.id]
      BY <1>p, <3>2, <3>3, <3>4 DEF InHandInv
    <3>9. \A s \in Schedules : marked'[s] = 0 \/ marked'[s] \in ran'[s]
      BY <3>1, <3>4 DEF InHandInv
    <3> QED
      BY <3>6, <3>7, <3>8, <3>9 DEF InHandInv
  <2>3. CASE EndRun(j)
    <3>1. j.stage = "running" /\ UNCHANGED <<marked, ran>>
          /\ pool' = (pool \ {j}) \cup {[j EXCEPT !.stage = "ended"]}
      BY <2>3 DEF EndRun, GoTo
    <3>2. \A k \in pool' : (k \in pool /\ k # j) \/ (k = [j EXCEPT !.stage = "ended"] /\ k.id = j.id /\ k.at = j.at /\ k.stage = "ended")
      BY <1>t, <3>1 DEF Types
    <3> QED
      BY <3>1, <3>2 DEF InHandInv
  <2>4. CASE MarkRun(j)
    <3>1. j.stage = "ended" /\ pool' = pool \ {j} /\ UNCHANGED ran
          /\ (marked' = marked \/ marked' = [marked EXCEPT ![j.id] = j.at])
      BY <2>4 DEF MarkRun, Leave
    <3>2. j.at \in ran[j.id]
      BY <3>1 DEF InHandInv
    <3>3. \A s \in Schedules : marked'[s] = marked[s] \/ (s = j.id /\ marked'[s] = j.at)
      BY <1>t, <3>1 DEF Types
    <3> QED
      BY <3>1, <3>2, <3>3 DEF InHandInv
  <2> QED
    BY <1>4, <2>1, <2>2, <2>3, <2>4 DEF InPool
<1>5. ASSUME NEW s \in Schedules, NEW row \in Rows \cup {None}, Write(s, row),
             marked' = marked \/ marked' = [marked EXCEPT ![s] = 0]
      PROVE  InHandInv'
  <2>1. UNCHANGED <<pool, ran>> /\ \A r \in Schedules : marked'[r] = marked[r] \/ marked'[r] = 0
    BY <1>5, <1>t DEF Write, Types
  <2> QED
    BY <2>1 DEF InHandInv
<1>6. ASSUME NEW s \in Schedules, NEW row \in Rows, SaveSchedule(s, row) \/ Import(s, row) PROVE InHandInv'
  BY <1>5, <1>6 DEF SaveSchedule, Import
<1>7. ASSUME NEW s \in Schedules, DeleteSchedule(s) PROVE InHandInv'
  BY <1>5, <1>7 DEF DeleteSchedule
<1> QED
  BY <1>1, <1>2, <1>3, <1>4, <1>6, <1>7 DEF Next, TheEnd

LEMMA InitInHand == Init => InHandInv
BY DEF Init, InHandInv

LEMMA AlwaysInHand == Spec => [](JobsInv /\ InHandInv)
BY InitJobsInv, JobsInvStep, InitInHand, InHandStep, PTL DEF Spec

\* run_schedule starts no occurrence again: what is submitted is later than all
\* that ran, be its job rebuilt while it was in hand, moved on, or made from now.
THEOREM NoOccurrenceTwice == Spec => OncePerOccurrence
<1>1. JobsInv /\ InHandInv /\ [Next]_vars => [\A j \in pool : StartRun(j) => j.at \notin ran[j.id]]_vars
  <2> SUFFICES ASSUME JobsInv, InHandInv, NEW j \in pool, StartRun(j), j.at \in ran[j.id] PROVE FALSE
    OBVIOUS
  <2>1. j.at < j.at /\ j.at \in Nat
    BY DEF StartRun, InHandInv, JobsInv, Types
  <2> QED
    BY <2>1
<1> QED
  BY <1>1, AlwaysInHand, PTL DEF Spec, OncePerOccurrence

\* mark_schedule_run comes late, after others were marked or the row replaced: it
\* never takes last_run_at back.
THEOREM MarksAlwaysGoForward == Spec => MarksGoForward
<1>1. JobsInv /\ InHandInv /\ [Next]_vars => [\A s \in Schedules : marked'[s] >= marked[s] \/ marked'[s] = 0]_vars
  <2> SUFFICES ASSUME JobsInv, InHandInv, [Next]_vars, NEW s \in Schedules
               PROVE  marked'[s] >= marked[s] \/ marked'[s] = 0
    OBVIOUS
  <2>t. Types
    BY DEF JobsInv
  <2>1. \A r \in Schedules : marked[r] \in Nat
    BY <2>t DEF Types
  <2>2. CASE UNCHANGED marked
    BY <2>1, <2>2
  <2>3. ASSUME NEW j \in pool, MarkRun(j) PROVE marked'[s] >= marked[s] \/ marked'[s] = 0
    <3>1. j.id \in Schedules /\ j.at \in Nat
      BY <2>t DEF Types
    <3>2. marked[j.id] <= j.at
      BY <2>1, <3>1 DEF InHandInv
    <3>3. marked' = marked \/ marked' = [marked EXCEPT ![j.id] = j.at]
      BY <2>3 DEF MarkRun
    <3>4. marked'[s] = marked[s] \/ (s = j.id /\ marked'[s] = j.at)
      BY <2>t, <3>3 DEF Types
    <3> QED
      BY <2>1, <3>1, <3>2, <3>4
  <2>4. ASSUME NEW r \in Schedules, marked' = [marked EXCEPT ![r] = 0] PROVE marked'[s] >= marked[s] \/ marked'[s] = 0
    <3>1. marked'[s] = marked[s] \/ marked'[s] = 0
      BY <2>t, <2>4 DEF Types
    <3> QED
      BY <2>1, <3>1
  <2> QED
    BY <2>2, <2>3, <2>4 DEF Next, vars, Advance, Sleep, Reload, View, Restart, Submit, DeleteSchedule, InPool,
       Misfire, StartNothing, StartRun, EndRun, SaveSchedule, Import, TheEnd
<1> QED
  BY <1>1, AlwaysInHand, PTL DEF Spec, MarksGoForward

(***************************************************************************)
(* What the agenda announced                                               *)
(***************************************************************************)

\* A firing since the agenda was looked at is accounted for.
Told(s, t) ==
  \/ t \in ran[s] \/ [at |-> t, id |-> s] \in excused
  \/ \E j \in pool : j.id = s /\ j.at = t /\ j.stage = "submitted"

\* The table has the schedule on, and it fires then.
Listed(s, t) == s \in Enabled /\ FiresAt(table[s].trigger, t)

Follow == ~ reloading => \A s \in Schedules :
  /\ jobs[s] # None <=> s \in Enabled
  /\ s \in Enabled => jobs[s].trigger = table[s].trigger

\* While the agenda stands, time has not jumped over a job, what has fired since is
\* told, and only what is listed is in hand or ran.
ViewInv ==
  viewed # None =>
    /\ ~ reloading /\ viewed <= now
    /\ \A s \in Enabled : now <= jobs[s].next + 1
    /\ \A s \in Enabled : \A t \in Nat :
         viewed <= t /\ t < jobs[s].next /\ FiresAt(table[s].trigger, t) => Told(s, t)
    /\ \A j \in pool : viewed <= j.at => Listed(j.id, j.at)
    /\ \A s \in Schedules : \A t \in ran[s] : viewed <= t => Listed(s, t)

AgendaInv == Follow /\ ViewInv

LEMMA InitAgendaInv == Init => AgendaInv
<1> SUFFICES ASSUME Init PROVE AgendaInv
  OBVIOUS
<1>1. table \in [Schedules -> Rows \cup {None}] /\ now \in Nat
  BY DEF Init
<1>2. Follow
  BY <1>1, RebuiltIs DEF Init, Follow
<1> QED
  BY <1>2 DEF Init, AgendaInv, ViewInv

LEMMA SubmitKeepsAgenda ==
  ASSUME JobsInv, AgendaInv, NEW s \in Schedules, Submit(s)
  PROVE  AgendaInv'
<1>t. Types /\ WellSetJobs /\ AllBehind /\ Follow
  BY DEF JobsInv, AgendaInv
<1>a. IsDue(s) /\ GoOn(s)
  BY <1>t, SubmitIs
<1>b. WellSet(s) /\ jobs[s] # None
  BY <1>t, <1>a DEF WellSetJobs, IsDue
<1>c. LastDue(s) \in Nat
  BY <1>t, <1>a, <1>b, LastDueIs
<1>d. PICK d \in Nat : d = LastDue(s)
  BY <1>c
<1>1. /\ UNCHANGED <<table, now, reloading, ran, viewed>>
      /\ excused \subseteq excused' /\ pool \subseteq pool'
      /\ \A k \in pool' : k \in pool \/ (k.id = s /\ k.at = d)
      /\ \/ [id |-> s, at |-> d, stage |-> "submitted"] \in pool'
         \/ [at |-> d, id |-> s] \in excused'
  BY <1>t, <1>d, SubmitIs
<1>2. jobs[s].next <= d /\ d < now /\ FiresAt(jobs[s].trigger, d)
  BY <1>t, <1>a, <1>b, <1>d, LastDueIs
<1>3. /\ \A r \in Schedules : r # s => jobs'[r] = jobs[r]
      /\ jobs'[s] # None /\ jobs'[s].trigger = jobs[s].trigger
      /\ d < jobs'[s].next /\ jobs'[s].next \in Nat
      /\ \A t \in Nat : d < t /\ t < jobs'[s].next => ~ FiresAt(jobs[s].trigger, t)
  BY <1>t, <1>a, <1>b, <1>d, GoOnIs
<1>n. now \in Nat /\ jobs[s].next \in Nat /\ viewed \in Nat \cup {None}
      /\ (\A j \in pool : j.id \in Schedules /\ j.at \in Nat) /\ (\A r \in Schedules : ran[r] \subseteq Nat)
  BY <1>t, <1>b DEF Types, Jobs
<1>4. Enabled' = Enabled /\ Enabled \subseteq Schedules
  BY <1>1 DEF Enabled
<1>5. Follow'
  BY <1>t, <1>1, <1>b, <1>3, <1>4 DEF Follow
<1>6. ASSUME viewed' # None PROVE ViewInv'
  <2>1. viewed # None /\ viewed' = viewed /\ viewed \in Nat /\ ~ reloading /\ viewed <= now
    BY <1>1, <1>n, <1>6 DEF AgendaInv, ViewInv
  <2>2. s \in Enabled /\ jobs[s].trigger = table[s].trigger /\ now <= jobs[s].next + 1
    BY <1>t, <1>b, <2>1 DEF Follow, AgendaInv, ViewInv
  <2>3. d = jobs[s].next
    BY <1>2, <1>n, <2>2
  <2>4. \A r \in Enabled : now <= jobs'[r].next + 1
    <3>1. now <= jobs'[s].next + 1
      BY <1>3, <1>n, <2>2, <2>3
    <3> QED
      BY <1>3, <1>4, <2>1, <3>1 DEF AgendaInv, ViewInv
  <2>5. \A r \in Schedules : \A t \in Nat : Told(r, t) => Told(r, t)'
    BY <1>1 DEF Told
  <2>6. Told(s, d)'
    BY <1>1 DEF Told
  <2>7. ASSUME NEW r \in Enabled, NEW t \in Nat, viewed <= t, t < jobs'[r].next, FiresAt(table[r].trigger, t)
        PROVE  Told(r, t)'
    <3>1. CASE r # s
      <4>1. Told(r, t)
        BY <1>3, <1>4, <2>1, <2>7, <3>1 DEF AgendaInv, ViewInv
      <4> QED
        BY <1>4, <2>5, <4>1
    <3>2. CASE r = s
      <4>1. ~ (d < t)
        BY <1>3, <2>2, <2>7, <3>2
      <4>2. t = d \/ t < jobs[s].next
        BY <1>n, <2>3, <4>1
      <4>3. CASE t = d
        BY <2>6, <3>2, <4>3
      <4>4. CASE t < jobs[s].next
        <5>1. Told(r, t)
          BY <2>1, <2>2, <2>7, <3>2, <4>4 DEF AgendaInv, ViewInv
        <5> QED
          BY <1>4, <2>5, <5>1
      <4> QED
        BY <4>2, <4>3, <4>4
    <3> QED
      BY <3>1, <3>2
  <2>8. \A k \in pool' : viewed <= k.at => Listed(k.id, k.at)'
    <3>1. Listed(s, d)'
      BY <1>1, <1>2, <1>4, <2>2 DEF Listed
    <3>2. \A k \in pool : viewed <= k.at => Listed(k.id, k.at)'
      BY <1>1, <1>4, <2>1 DEF AgendaInv, ViewInv, Listed
    <3> QED
      BY <1>1, <3>1, <3>2
  <2>9. \A r \in Schedules : \A t \in ran'[r] : viewed <= t => Listed(r, t)'
    BY <1>1, <1>4, <2>1 DEF AgendaInv, ViewInv, Listed
  <2> QED
    BY <1>1, <1>4, <2>1, <2>4, <2>7, <2>8, <2>9 DEF ViewInv
<1> QED
  BY <1>5, <1>6 DEF AgendaInv, ViewInv

LEMMA PoolKeepsAgenda ==
  ASSUME JobsInv, AgendaInv, NEW j \in pool, InPool(j)
  PROVE  AgendaInv'
<1>t. Types
  BY DEF JobsInv
<1>1. /\ UNCHANGED <<table, jobs, now, reloading, viewed>>
      /\ \A k \in pool' :
           \/ k \in pool /\ k # j
           \/ /\ k.id = j.id /\ k.at = j.at
              /\ \/ j.stage = "submitted" /\ k.stage = "running" /\ k.at \in ran'[k.id]
                 \/ j.stage = "running" /\ k.stage = "ended"
      /\ \A k \in pool : k # j => k \in pool'
      /\ \A s \in Schedules : ran[s] \subseteq ran'[s] /\ \A t \in ran'[s] : t \in ran[s] \/ (s = j.id /\ t = j.at)
      /\ (j.id \in Enabled /\ j.stage = "submitted" => j.at \in ran'[j.id] \/ [at |-> j.at, id |-> j.id] \in excused')
      /\ excused \subseteq excused'
  BY <1>t, InPoolIs
<1>2. Enabled' = Enabled /\ Enabled \subseteq Schedules
  BY <1>1 DEF Enabled
<1>3. Follow'
  BY <1>1, <1>2 DEF AgendaInv, Follow
<1>4. \A s \in Enabled : \A t \in Nat : Told(s, t) => Told(s, t)'
  BY <1>1, <1>2 DEF Told
<1>5. \A s, t : Listed(s, t) => Listed(s, t)'
  BY <1>1, <1>2 DEF Listed
<1>6. ViewInv'
  BY <1>1, <1>2, <1>4, <1>5 DEF AgendaInv, ViewInv
<1> QED
  BY <1>3, <1>6 DEF AgendaInv

LEMMA AgendaInvStep == JobsInv /\ AgendaInv /\ [Next]_vars => AgendaInv'
<1> SUFFICES ASSUME JobsInv, AgendaInv, [Next]_vars PROVE AgendaInv'
  OBVIOUS
<1>t. Types /\ WellSetJobs /\ AllBehind /\ Follow /\ ViewInv
  BY DEF JobsInv, AgendaInv
<1>n. now \in Nat /\ (\A s \in Schedules : jobs[s] # None => jobs[s].next \in Nat)
      /\ (viewed # None => viewed \in Nat) /\ table \in [Schedules -> Rows \cup {None}]
  BY <1>t DEF Types, Jobs
<1>1. CASE Advance
  <2>1. /\ now' = now + 1 /\ \A s \in Schedules : ~ IsDue(s)
        /\ UNCHANGED <<table, jobs, reloading, pool, ran, viewed, excused>>
    BY <1>1 DEF Advance
  <2>2. Enabled' = Enabled /\ Enabled \subseteq Schedules
    BY <2>1 DEF Enabled
  <2>3. Follow'
    BY <1>t, <2>1, <2>2 DEF Follow
  <2>4. \A s \in Schedules : jobs[s] # None => now' <= jobs[s].next + 1
    BY <1>n, <2>1 DEF IsDue
  <2>5. viewed # None => \A s \in Enabled : now' <= jobs[s].next + 1
    BY <1>t, <2>2, <2>4 DEF ViewInv, Follow
  <2>6. viewed # None => viewed <= now'
    BY <1>t, <1>n, <2>1 DEF ViewInv
  <2>7. \A s \in Schedules, t \in Nat : Told(s, t)' = Told(s, t)
    BY <2>1 DEF Told
  <2>8. \A s, t : Listed(s, t)' = Listed(s, t)
    BY <2>1, <2>2 DEF Listed
  <2>9. ViewInv'
    BY <1>t, <2>1, <2>2, <2>5, <2>6, <2>7, <2>8 DEF ViewInv, Told, Listed
  <2> QED
    BY <2>3, <2>9 DEF AgendaInv
<1>2. CASE Sleep
  <2>1. viewed' = None /\ UNCHANGED <<table, jobs, reloading>>
    BY <1>2 DEF Sleep, Change
  <2> QED
    BY <1>t, <2>1 DEF AgendaInv, Follow, ViewInv, Enabled
<1>3. CASE Reload \/ Restart
  <2>1. UNCHANGED table /\ jobs' = Rebuilt /\ reloading' = FALSE
    BY <1>3 DEF Reload, Restart
  <2>2. Follow'
    BY <1>n, <2>1, RebuiltIs DEF Follow, Enabled
  <2>3. viewed' = None
    BY <1>3, <1>t DEF Reload, Restart, Change, ViewInv
  <2> QED
    BY <2>2, <2>3 DEF AgendaInv, ViewInv
<1>4. CASE View
  <2>1. /\ ~ reloading /\ (\A s \in Schedules : ~ IsDue(s)) /\ viewed' = now
        /\ UNCHANGED <<table, jobs, now, reloading, pool, ran>>
    BY <1>4 DEF View
  <2>2. Enabled' = Enabled /\ Enabled \subseteq Schedules
    BY <2>1 DEF Enabled
  <2>3. Follow'
    BY <1>t, <2>1, <2>2 DEF Follow
  <2>4. \A s \in Enabled : now <= jobs[s].next /\ jobs[s].next \in Nat /\ jobs[s] # None
                        /\ jobs[s].trigger = table[s].trigger
    BY <1>n, <1>t, <2>1, <2>2 DEF Follow, IsDue
  <2>5. \A s \in Enabled : \A t \in Nat :
          now <= t /\ t < jobs[s].next => ~ FiresAt(table[s].trigger, t)
    BY <1>t, <2>2, <2>4 DEF WellSetJobs, WellSet
  <2>6. (\A j \in pool : ~ (now <= j.at)) /\ (\A s \in Schedules : \A t \in ran[s] : ~ (now <= t))
    BY <1>n, <1>t DEF AllBehind, Behind, Types
  <2>7. \A s \in Enabled : now <= jobs[s].next + 1
    BY <1>n, <2>4
  <2>8. ViewInv'
    BY <1>n, <2>1, <2>2, <2>5, <2>6, <2>7 DEF ViewInv
  <2> QED
    BY <2>3, <2>8 DEF AgendaInv
<1>5. ASSUME NEW s \in Schedules, NEW row \in Rows \cup {None}, Write(s, row) PROVE AgendaInv'
  <2>1. reloading' = TRUE /\ viewed' = None
    BY <1>5 DEF Write, Change
  <2> QED
    BY <2>1 DEF AgendaInv, Follow, ViewInv
<1>6. CASE UNCHANGED vars
  BY <1>6, <1>t DEF vars, AgendaInv, Follow, ViewInv, Enabled, Told, Listed
<1> QED
  BY <1>1, <1>2, <1>3, <1>4, <1>5, <1>6, SubmitKeepsAgenda, PoolKeepsAgenda
     DEF Next, TheEnd, SaveSchedule, DeleteSchedule, Import

LEMMA LateEnough == now \in Nat /\ (now = 1 \/ now <= MaxTime) => now <= Horizon(MaxTime)
<1> SUFFICES ASSUME now \in Nat, now = 1 \/ now <= MaxTime PROVE now <= Horizon(MaxTime)
  OBVIOUS
<1>1. DayLength \in Nat /\ DayLength >= 1 /\ MaxTime \in Nat
  BY Lengths
<1>2. \A m \in Nat : m <= DayLength * m
  <2> SUFFICES ASSUME NEW m \in Nat PROVE m <= DayLength * m
    OBVIOUS
  <2>1. DayLength * m = m + (DayLength - 1) * m /\ (DayLength - 1) * m >= 0
    BY <1>1
  <2> QED
    BY <1>1, <2>1
<1> QED
  BY <1>1, <1>2 DEF Horizon

LEMMA AgendaTrue == JobsInv /\ AgendaInv => AgendaComesTrue
<1> SUFFICES ASSUME JobsInv, AgendaInv, viewed # None PROVE AgendaComesTrue
  BY DEF AgendaComesTrue
<1> DEFINE A == Agenda(viewed, MaxTime)
           Announced == {o \in A : o.at < jobs[o.id].next}
           Started == {o \in A : o.at \in ran[o.id]}
           InTheQueue == {o \in A : \E j \in InHand(o.id) : j.at = o.at /\ j.stage = "submitted"}
<1>t. Types /\ AllBehind /\ Follow /\ ViewInv
  BY DEF JobsInv, AgendaInv
<1>1. viewed \in Nat /\ ~ reloading /\ viewed <= now /\ now \in Nat /\ MaxTime \in Nat
  BY <1>t, Lengths DEF Types, ViewInv
<1>2. A = {o \in [at : viewed .. viewed + Horizon(MaxTime), id : Enabled] : FiresAt(table[o.id].trigger, o.at)}
  BY <1>t, <1>1, AgendaIs DEF Types
<1>3. Horizon(MaxTime) \in Nat /\ now <= Horizon(MaxTime)
  BY <1>t, <1>1, Lengths, LateEnough DEF Types, Horizon
<1>4. Enabled \subseteq Schedules /\ \A s \in Enabled : jobs[s] # None
  BY <1>t, <1>1 DEF Enabled, Follow
<1> HIDE DEF A
<1>5. \A o \in A : o.id \in Enabled /\ o.at \in Nat /\ viewed <= o.at /\ FiresAt(table[o.id].trigger, o.at)
                  /\ o = [at |-> o.at, id |-> o.id]
  BY <1>1, <1>2
<1>6. ASSUME NEW o \in Announced PROVE o \in Started \cup (excused \cap Announced) \cup InTheQueue
  <2>1. Told(o.id, o.at)
    BY <1>t, <1>5, <1>6 DEF ViewInv
  <2> QED
    BY <1>5, <1>6, <2>1 DEF Told, InHand
<1>7. Started \subseteq Announced
  BY <1>t, <1>4, <1>5 DEF AllBehind, Behind
<1>8. InTheQueue \subseteq Announced
  BY <1>t, <1>4, <1>5 DEF AllBehind, Behind, InHand
<1>9. ASSUME NEW s \in Schedules, NEW t \in ran[s], t > viewed PROVE [at |-> t, id |-> s] \in Started
  <2>1. t \in Nat /\ t < now /\ viewed <= t
    BY <1>t, <1>1, <1>9 DEF Types, AllBehind, Behind
  <2>2. s \in Enabled /\ FiresAt(table[s].trigger, t)
    BY <1>t, <2>1, <1>9 DEF ViewInv, Listed
  <2>3. t \in viewed .. viewed + Horizon(MaxTime)
    BY <1>1, <1>3, <2>1
  <2>4. [at |-> t, id |-> s] \in A
    BY <1>2, <2>2, <2>3
  <2> QED
    BY <1>9, <2>4
<1>10. Announced = Started \cup (excused \cap Announced) \cup InTheQueue
  BY <1>6, <1>7, <1>8
<1> QED
  BY <1>9, <1>10 DEF AgendaComesTrue, A

\* What the agenda announced is what runs: as long as nothing is changed, the host
\* stays awake and the process runs on, each occurrence has started, waits in the
\* pool or was given up by APScheduler once its job moved on, and nothing else ran.
THEOREM AgendaAlwaysComesTrue == Spec => []AgendaComesTrue
BY InitJobsInv, JobsInvStep, InitAgendaInv, AgendaInvStep, AgendaTrue, PTL DEF Spec
=============================================================================
