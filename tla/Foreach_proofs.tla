--------------------------- MODULE Foreach_proofs ---------------------------
(***************************************************************************)
(* What holds of foreach steps for every number of them, of items and of    *)
(* crashes: the types, that an item runs once and within its budget, and    *)
(* what a step leaves in collect: and as its outcome.                       *)
(***************************************************************************)
EXTENDS Foreach, Engine_proofs

Outcome3 == {"", "success", "failure"}

\* What Replay keeps of a foreach step, and the properties of its visit.
Items == [frozen : BOOLEAN, n : Nat, pending : SUBSET Index, outcome : [Index -> Outcome3],
          attempt : [Index -> Nat], key : [Index -> ItemKeys],
          tries : [Index -> [ItemKeys -> Nat]]]
Visits == [list : Int, res : [Index -> Outcome3], retries : [Index -> Nat], asked : Asks,
           late : BOOLEAN]

EachTypes ==
  /\ each \in [Loops -> Items] /\ past \in [Loops -> Visits] /\ told \in [Loops -> Asks]
  /\ collect \in [Loops -> [n : Nat, good : SUBSET Index]] /\ lap \in Laps

\* A lap is on exactly while a command is at work in a foreach step; a command
\* that rejoins one has not entered it.
LapShape ==
  /\ (lap.at \notin {"off", "rejoin"}) <=> (cmd.pc = "fan" /\ cmd.at.step \in Loops)
  /\ lap.at = "rejoin" => cmd.pc = "enter" /\ cmd.at.step \in Loops

\* A frozen list is that of the latest entry, with the results of the visit; an
\* item that is out has none, and an attempt.
Settled(s, e, p) ==
  /\ e.n <= MaxItems[s]
  /\ e.frozen => /\ e.n = p.list /\ p.list >= 1
                 /\ \A i \in Index : e.outcome[i] = p.res[i]
  /\ \A i \in e.pending : p.res[i] = "" /\ e.attempt[i] >= 1

\* Once the session was asked for items in this visit, every item is out or has
\* its result, unless an answer to an earlier visit came in between.
Asked(s, e, p, d) ==
  /\ d # {} => Agentic(s)
  /\ ~p.late /\ p.asked # {} =>
       e.frozen /\ \A i \in 0..(e.n - 1) : i \in e.pending \/ p.res[i] # ""

\* Every retry has moved the attempt on, within the budget.
Budget(s, e, p) == \A i \in Index :
  \/ p.retries[i] = 0
  \/ Agentic(s) /\ p.retries[i] < e.attempt[i] /\ e.attempt[i] <= ItemBudget(s)

Fine(s, e, p, d) == Settled(s, e, p) /\ Asked(s, e, p, d) /\ Budget(s, e, p)

\* A command going through the items: what is left has no result, and everything
\* is left, collected for the dispatch, or has its result.
Round(s, l, e, p) ==
  l.at \in {"next", "run", "judge", "offer"} =>
    /\ e.frozen /\ l.n = e.n
    /\ l.todo \subseteq 0..(l.n - 1) /\ \A i \in l.todo : i \notin l.print /\ p.res[i] = ""
    /\ \A i \in 0..(l.n - 1) : i \in l.todo \/ i \in l.print \/ p.res[i] # ""
    /\ l.print \subseteq e.pending /\ (l.print # {} => Agentic(s))
    /\ l.at # "next" => /\ l.todo # {} /\ Min(l.todo) \in e.pending
                        /\ (l.at = "offer") <=> Agentic(s)

\* A command that records a report is about one item, which is out.
Report(s, l, e, p) ==
  l.at \in {"report", "redo"} =>
    /\ Agentic(s) /\ l.n = e.n /\ \E i \in e.pending : l.todo = {i}
    /\ ~p.late => p.asked # {}

\* A command about to join has all results; one about to reject has no list.
Ending(s, l, e, p) ==
  /\ l.at = "join" => l.n \in 0..MaxItems[s]
  /\ l.at = "join" /\ ~p.late =>
       /\ l.n = p.list
       /\ \A i \in 0..(l.n - 1) : p.res[i] # "" /\ e.outcome[i] = p.res[i]
  /\ l.at \in {"reject", "clear"} => l.n = p.list /\ p.list \notin 0..MaxItems[s]

Lapping(s, l, e, p) == Round(s, l, e, p) /\ Report(s, l, e, p) /\ Ending(s, l, e, p)

EachInv ==
  /\ EachTypes /\ LapShape /\ CollectsThisVisit
  /\ \A s \in Loops : Fine(s, each[s], past[s], told[s])
  /\ lap.at \notin {"off", "rejoin"} =>
       Lapping(cmd.at.step, lap, each[cmd.at.step], past[cmd.at.step])

LInv == RunInv /\ EachInv

-----------------------------------------------------------------------------
(* Items and laps *)

\* What the foreach steps are.
LEMMA LoopFacts ==
  /\ Loops \in SUBSET Steps /\ \A s \in Loops : Kind[s] = "parallel"
  /\ \A s \in Loops : MaxItems[s] \in Nat /\ MaxItems[s] >= 1
  /\ \A s \in Loops : ItemBudget(s) \in Nat /\ ItemBudget(s) >= 1
  /\ \A s \in Loops : \A n \in Int : n <= MaxItems[s] => 0..(n - 1) \subseteq Index
  /\ Index \subseteq Nat /\ Outcome3 = {"", "success", "failure"}
<1>1. /\ Loops \in SUBSET Steps /\ \A s \in Loops : Kind[s] = "parallel"
      /\ \A s \in Loops : MaxItems[s] \in Nat /\ MaxItems[s] >= 1
      /\ \A s \in Loops : BodyAttempts[s] \in Nat /\ BodyAttempts[s] >= 1
      /\ \A s \in Loops : MaxVisits[s] \in Nat /\ MaxVisits[s] >= 1
  BY ForeachAssumption, WorkflowAssumption
<1>2. \A s \in Loops : ItemBudget(s) \in Nat /\ ItemBudget(s) >= 1
  BY <1>1 DEF ItemBudget
<1>3. ASSUME NEW s \in Loops, NEW n \in Int, n <= MaxItems[s], NEW i \in 0..(n - 1)
      PROVE  i \in Index
  <2>1. i \in 0..(MaxItems[s] - 1)
    BY <1>1, <1>3
  <2> QED
    BY <2>1 DEF Index
<1>4. ASSUME NEW i \in Index
      PROVE  i \in Nat
  BY <1>1 DEF Index
<1> QED
  BY <1>1, <1>2, <1>3, <1>4 DEF Outcome3

\* The item that comes next is one of those left to do.
LEMMA ItemLeft ==
  ASSUME lap \in Laps, lap.todo # {}
  PROVE  Item \in lap.todo /\ Item \in Index
<1>1. lap.todo \in SUBSET Nat /\ lap.todo \subseteq Index
  BY LoopFacts DEF Laps
<1>2. \E x \in lap.todo : \A y \in lap.todo : x <= y
  BY <1>1, Least
<1> QED
  BY <1>1, <1>2 DEF Item, Min

\* Only item i has changed.
Aside(g, f, i) == \A j \in Index : j # i => g[j] = f[j]

\* The step's items after a grouped STEP_ENTER of item i, a retry or not.
EnteredItem(q, e, i, attempt, key) ==
  /\ e \in Items /\ i \in Index /\ attempt \in Nat /\ key \in ItemKeys
  /\ \/ q = AfterItemEnter(e, i, attempt, key, TRUE)
     \/ q = AfterItemEnter(e, i, attempt, key, FALSE)

\* Item i is out, at that attempt, and nothing else of the step has changed.
Outstanding(q, e, i, attempt) ==
  /\ q.frozen = e.frozen /\ q.n = e.n /\ q.pending = e.pending \cup {i}
  /\ q.attempt[i] = attempt /\ q.outcome[i] \in {"", e.outcome[i]}
  /\ Aside(q.attempt, e.attempt, i) /\ Aside(q.outcome, e.outcome, i)

\* A grouped STEP_ENTER puts the item out, at its attempt.
LEMMA ItemEnterFacts ==
  ASSUME NEW e, NEW i, NEW attempt, NEW key, NEW q, EnteredItem(q, e, i, attempt, key)
  PROVE  q \in Items /\ Outstanding(q, e, i, attempt)
<1>0. e \in Items /\ i \in Index /\ attempt \in Nat /\ key \in ItemKeys
  BY DEF EnteredItem
<1>1. PICK first \in {"", e.outcome[i]}, base \in {NoTries, e.tries[i]} :
        q = [e EXCEPT !.pending = @ \cup {i}, !.attempt[i] = attempt, !.key[i] = key,
                      !.outcome[i] = first, !.tries[i] = With(base, key, attempt)]
  BY DEF EnteredItem, AfterItemEnter
<1>2. first \in Outcome3 /\ e.pending \cup {i} \in SUBSET Index
  BY <1>0 DEF Items, Outcome3
<1>3. PICK now \in [ItemKeys -> Nat] : now = With(base, key, attempt)
  <2>1. NoTries \in [ItemKeys -> Nat] /\ e.tries[i] \in [ItemKeys -> Nat]
    BY <1>0 DEF Items, NoTries
  <2>2. base \in [ItemKeys -> Nat]
    BY <2>1
  <2> QED
    BY <1>0, <2>2 DEF With
<1>4. q = [e EXCEPT !.pending = @ \cup {i}, !.attempt[i] = attempt, !.key[i] = key,
                    !.outcome[i] = first, !.tries[i] = now]
  BY <1>1, <1>3
<1>5. q \in Items
  BY ONLY <1>0, <1>2, <1>4, now \in [ItemKeys -> Nat]
     DEF Items
<1>6. /\ q.frozen = e.frozen /\ q.n = e.n /\ q.pending = e.pending \cup {i}
      /\ q.attempt[i] = attempt /\ q.outcome[i] = first
      /\ Aside(q.attempt, e.attempt, i) /\ Aside(q.outcome, e.outcome, i)
  BY ONLY <1>0, <1>4 DEF Items, Aside
<1> QED
  BY ONLY <1>5, <1>6, first \in {"", e.outcome[i]} DEF Outstanding

\* A grouped TRANSITION takes it in.
LEMMA ItemTransitionFacts ==
  ASSUME NEW e \in Items, NEW i \in Index, NEW outcome \in {"success", "failure"},
         NEW q, q = AfterItemTransition(e, i, outcome)
  PROVE  /\ q \in Items /\ q.frozen = e.frozen /\ q.n = e.n /\ q.attempt = e.attempt
         /\ q.pending = e.pending \ {i} /\ q.outcome[i] = outcome
         /\ Aside(q.outcome, e.outcome, i)
<1> DEFINE x == [e EXCEPT !.pending = @ \ {i}, !.outcome[i] = outcome]
<1>1. q = x /\ x = AfterItemTransition(e, i, outcome)
  BY DEF AfterItemTransition
<1>2. x \in Items
  BY DEF Items, Outcome3
<1>3. /\ x.frozen = e.frozen /\ x.n = e.n /\ x.attempt = e.attempt
      /\ x.pending = e.pending \ {i} /\ x.outcome[i] = outcome
      /\ Aside(x.outcome, e.outcome, i)
  BY DEF Items, Aside
<1> HIDE DEF x
<1> QED
  BY <1>1, <1>2, <1>3

\* Only the foreach step s has changed.
Others(g, f, s) == \A t \in Loops : t # s => g[t] = f[t]

\* Writing the items of one foreach step leaves every other one alone.
LEMMA PutItems ==
  ASSUME EachTypes, NEW s \in Loops, NEW e \in Items, each' = [each EXCEPT ![s] = e]
  PROVE  each' \in [Loops -> Items] /\ each'[s] = e /\ Others(each', each, s)
<1>1. each \in [Loops -> Items]
  BY DEF EachTypes
<1> QED
  BY <1>1 DEF Others

\* So does recording the visit of one.
LEMMA PutVisit ==
  ASSUME EachTypes, NEW s \in Loops, NEW p \in Visits, past' = [past EXCEPT ![s] = p]
  PROVE  past' \in [Loops -> Visits] /\ past'[s] = p /\ Others(past', past, s)
<1>1. past \in [Loops -> Visits]
  BY DEF EachTypes
<1> QED
  BY <1>1 DEF Others

\* A result is recorded for one item of one step.
LEMMA RecordFacts ==
  ASSUME EachTypes, NEW s \in Loops, s = cmd.at.step, NEW i \in Index,
         NEW outcome \in {"success", "failure"}, Record(i, outcome)
  PROVE  LET e == each[s]
             q == each'[s]
             p == past[s]
             v == past'[s]
         IN  /\ each' \in [Loops -> Items] /\ Others(each', each, s)
             /\ past' \in [Loops -> Visits] /\ Others(past', past, s)
             /\ e \in Items /\ q \in Items /\ p \in Visits /\ v \in Visits
             /\ q.frozen = e.frozen /\ q.n = e.n /\ q.attempt = e.attempt
             /\ q.pending = e.pending \ {i} /\ q.outcome[i] = outcome
             /\ Aside(q.outcome, e.outcome, i)
             /\ v.list = p.list /\ v.retries = p.retries /\ v.asked = p.asked /\ v.late = p.late
             /\ v.res[i] = outcome /\ Aside(v.res, p.res, i)
<1>1. each[s] \in Items /\ past[s] \in Visits
  BY DEF EachTypes
<1>2. PICK q \in Items : q = AfterItemTransition(each[s], i, outcome)
  BY <1>1, ItemTransitionFacts
<1>3. PICK v : v = [past[s] EXCEPT !.res[i] = outcome]
  OBVIOUS
<1>4. /\ v \in Visits /\ v.list = past[s].list /\ v.retries = past[s].retries
      /\ v.asked = past[s].asked /\ v.late = past[s].late
      /\ v.res[i] = outcome /\ Aside(v.res, past[s].res, i)
  BY ONLY <1>1, <1>3, i \in Index, outcome \in {"success", "failure"} DEF Visits, Outcome3, Aside
<1>5. each' = [each EXCEPT ![s] = q] /\ past' = [past EXCEPT ![s] = v]
  BY <1>2, <1>3 DEF Record, Note, Here, EachTypes
<1>6. each' \in [Loops -> Items] /\ each'[s] = q /\ Others(each', each, s)
  BY <1>2, <1>5, PutItems
<1>7. past' \in [Loops -> Visits] /\ past'[s] = v /\ Others(past', past, s)
  BY <1>4, <1>5, PutVisit
<1>8. /\ q.frozen = each[s].frozen /\ q.n = each[s].n /\ q.attempt = each[s].attempt
      /\ q.pending = each[s].pending \ {i} /\ q.outcome[i] = outcome
      /\ Aside(q.outcome, each[s].outcome, i)
  <2>1. PICK e \in Items : e = each[s]
    BY <1>1
  <2>2. q = AfterItemTransition(e, i, outcome)
    BY <1>2, <2>1
  <2>3. /\ q.frozen = e.frozen /\ q.n = e.n /\ q.attempt = e.attempt
        /\ q.pending = e.pending \ {i} /\ q.outcome[i] = outcome
        /\ Aside(q.outcome, e.outcome, i)
    BY ONLY <2>2, i \in Index, outcome \in {"success", "failure"}, ItemTransitionFacts
  <2> QED
    BY ONLY <2>1, <2>3
<1> QED
  BY ONLY <1>1, <1>2, <1>4, <1>6, <1>7, <1>8

\* The session is asked for items of one step.
LEMMA TellFacts ==
  ASSUME EachTypes, NEW s \in Loops, s = cmd.at.step, NEW items \in SUBSET Index, items # {},
         Tell(items)
  PROVE  LET p == past[s]
             v == past'[s]
         IN  /\ told' \in [Loops -> Asks] /\ Others(told', told, s)
             /\ past' \in [Loops -> Visits] /\ Others(past', past, s)
             /\ v.list = p.list /\ v.res = p.res /\ v.retries = p.retries /\ v.late = p.late
             /\ v.asked # {}
<1>1. each[s] \in Items /\ past[s] \in Visits /\ told \in [Loops -> Asks]
  BY DEF EachTypes
<1>2. PICK new : new = Dispatched(items)
  OBVIOUS
<1>3. new \in Asks /\ new # {}
  <2>1. PICK attempt : attempt = each[s].attempt
    OBVIOUS
  <2>2. attempt \in [Index -> Nat]
    BY <1>1, <2>1 DEF Items
  <2>3. new = {<<i, attempt[i]>> : i \in items}
    BY <1>2, <2>1 DEF Dispatched, Here
  <2>4. \A i \in items : attempt[i] \in Nat
    BY <2>2
  <2>5. new \subseteq Index \X Nat
    BY ONLY <2>3, <2>4, items \in SUBSET Index
  <2>6. new # {}
    BY ONLY <2>3, items # {}
  <2> QED
    BY <2>5, <2>6 DEF Asks
<1>4. told' = [told EXCEPT ![s] = @ \cup new] /\ past' = [past EXCEPT ![s].asked = @ \cup new]
  BY <1>2 DEF Tell
<1>5. told' \in [Loops -> Asks] /\ Others(told', told, s)
  BY ONLY <1>1, <1>3, <1>4 DEF Asks, Others
<1>6. PICK v : v = [past[s] EXCEPT !.asked = @ \cup new]
  OBVIOUS
<1>7. /\ v \in Visits /\ v.list = past[s].list /\ v.res = past[s].res
      /\ v.retries = past[s].retries /\ v.late = past[s].late /\ v.asked # {}
  BY ONLY <1>1, <1>3, <1>6 DEF Visits, Asks
<1>8. past' = [past EXCEPT ![s] = v]
  BY <1>4, <1>6 DEF EachTypes
<1> QED
  BY <1>5, <1>7, <1>8, PutVisit

\* A grouped STEP_ENTER for an item without a result keeps a step's items right.
LEMMA ItemEntered ==
  ASSUME NEW s \in Loops, NEW e \in Items, NEW p \in Visits, NEW d, Fine(s, e, p, d),
         NEW i \in Index, NEW q \in Items, p.res[i] = "",
         q.frozen = e.frozen, q.n = e.n, q.pending = e.pending \cup {i}, q.attempt[i] >= 1,
         q.outcome[i] \in {"", e.outcome[i]},
         Aside(q.attempt, e.attempt, i), Aside(q.outcome, e.outcome, i)
  PROVE  /\ Settled(s, q, p) /\ Asked(s, q, p, d)
         /\ p.retries[i] = 0 \/ q.attempt[i] = e.attempt[i] => Budget(s, q, p)
<1>1. Settled(s, e, p) /\ Asked(s, e, p, d) /\ Budget(s, e, p) /\ e.pending \subseteq Index
  BY DEF Fine, Items
<1>2. Settled(s, q, p)
  <2>1. e.frozen => \A j \in Index : q.outcome[j] = p.res[j]
    BY <1>1 DEF Settled, Aside
  <2>2. \A j \in q.pending : p.res[j] = "" /\ q.attempt[j] >= 1
    BY <1>1 DEF Settled, Aside
  <2> QED
    BY <1>1, <2>1, <2>2 DEF Settled
<1>3. Asked(s, q, p, d)
  BY <1>1 DEF Asked
<1>4. p.retries[i] = 0 \/ q.attempt[i] = e.attempt[i] => Budget(s, q, p)
  BY <1>1 DEF Budget, Aside
<1> QED
  BY <1>2, <1>3, <1>4

\* So does the result of an item.
LEMMA ItemRecorded ==
  ASSUME NEW s \in Loops, NEW e \in Items, NEW p \in Visits, NEW d, Fine(s, e, p, d),
         NEW i \in Index, NEW q \in Items, NEW v \in Visits, NEW outcome \in {"success", "failure"},
         q.frozen = e.frozen, q.n = e.n, q.attempt = e.attempt, q.pending = e.pending \ {i},
         q.outcome[i] = outcome, Aside(q.outcome, e.outcome, i),
         v.list = p.list, v.retries = p.retries, v.asked = p.asked, v.late = p.late,
         v.res[i] = outcome, Aside(v.res, p.res, i)
  PROVE  Fine(s, q, v, d)
<1>1. Settled(s, e, p) /\ Asked(s, e, p, d) /\ Budget(s, e, p) /\ e.pending \subseteq Index
  BY DEF Fine, Items
<1>2. Settled(s, q, v)
  <2>1. e.frozen => \A j \in Index : q.outcome[j] = v.res[j]
    BY <1>1 DEF Settled, Aside
  <2>2. \A j \in q.pending : v.res[j] = "" /\ q.attempt[j] >= 1
    BY <1>1 DEF Settled, Aside
  <2> QED
    BY <1>1, <2>1, <2>2 DEF Settled
<1>3. Asked(s, q, v, d)
  <2>1. e.n \in Int /\ e.n <= MaxItems[s]
    <3>1. e.n \in Nat
      BY DEF Items
    <3>2. e.n <= MaxItems[s]
      BY <1>1 DEF Settled
    <3> QED
      BY <3>1, <3>2
  <2>2. \A j \in 0..(e.n - 1) : j \in Index
    BY <2>1, LoopFacts
  <2> QED
    BY <1>1, <2>2 DEF Asked, Aside
<1>4. Budget(s, q, v)
  BY <1>1 DEF Budget
<1> QED
  BY <1>2, <1>3, <1>4 DEF Fine

-----------------------------------------------------------------------------
(* What a step has to keep *)

\* A step about one foreach step keeps the invariant if it does of that one.
LEMMA Moves ==
  ASSUME EachInv, NEW s \in Loops,
         each' \in [Loops -> Items], Others(each', each, s),
         past' \in [Loops -> Visits], Others(past', past, s),
         told' \in [Loops -> Asks], Others(told', told, s),
         collect' \in [Loops -> [n : Nat, good : SUBSET Index]], lap' \in Laps, LapShape',
         Fine(s, each'[s], past'[s], told'[s]),
         lap'.at \notin {"off", "rejoin"} =>
           cmd'.at.step = s /\ Lapping(s, lap', each'[s], past'[s]),
         CollectsThisVisit'
  PROVE  EachInv'
<1>1. EachTypes'
  BY DEF EachTypes
<1>2. ASSUME NEW t \in Loops
      PROVE  Fine(t, each'[t], past'[t], told'[t])
  <2>1. CASE t = s
    BY <2>1
  <2>2. CASE t # s
    <3>1. each'[t] = each[t] /\ past'[t] = past[t] /\ told'[t] = told[t]
      BY <2>2 DEF Others
    <3> QED
      BY <3>1 DEF EachInv
  <2> QED
    BY <2>1, <2>2
<1>3. lap'.at \notin {"off", "rejoin"} =>
        Lapping(cmd'.at.step, lap', each'[cmd'.at.step], past'[cmd'.at.step])
  OBVIOUS
<1> QED
  BY <1>1, <1>2, <1>3 DEF EachInv

\* A step that is about no items keeps it if the lap is right.
LEMMA Rests ==
  ASSUME EachInv, each' = each, past' = past, told' = told,
         collect' \in [Loops -> [n : Nat, good : SUBSET Index]], lap' \in Laps, LapShape',
         lap'.at \notin {"off", "rejoin"} =>
           Lapping(cmd'.at.step, lap', each[cmd'.at.step], past[cmd'.at.step]),
         CollectsThisVisit'
  PROVE  EachInv'
<1>1. EachTypes'
  BY DEF EachInv, EachTypes
<1>2. \A t \in Loops : Fine(t, each'[t], past'[t], told'[t])
  BY DEF EachInv
<1>3. lap'.at \notin {"off", "rejoin"} =>
        Lapping(cmd'.at.step, lap', each'[cmd'.at.step], past'[cmd'.at.step])
  OBVIOUS
<1> QED
  BY <1>1, <1>2, <1>3 DEF EachInv

\* What a command at work in a foreach step is known to be.
LEMMA AtLap ==
  ASSUME RunInv, EachInv
  PROVE  /\ rs \in Runs /\ cmd \in Commands /\ cmd.at \in Cursors /\ IInv /\ Rest
         /\ cmd.pc # "idle" => rs.started /\ ~RunTerminal(rs) /\ cmd # Idle
         /\ EachTypes /\ LapShape /\ lap \in Laps
         /\ lap.at \notin {"off", "rejoin"} =>
              /\ cmd.pc = "fan" /\ cmd.at.step \in Loops
              /\ each[cmd.at.step] \in Items /\ past[cmd.at.step] \in Visits
              /\ Fine(cmd.at.step, each[cmd.at.step], past[cmd.at.step], told[cmd.at.step])
              /\ Lapping(cmd.at.step, lap, each[cmd.at.step], past[cmd.at.step])
         /\ lap.at \in {"off", "rejoin"} => ~(cmd.pc = "fan" /\ cmd.at.step \in Loops)
<1>1. /\ rs \in Runs /\ cmd \in Commands /\ cmd.at \in Cursors /\ IInv /\ Rest
      /\ cmd.pc # "idle" => rs.started /\ ~RunTerminal(rs) /\ cmd # Idle
  BY Known DEF RunInv, IInv, TInv, TypeOK, Rest
<1>2. EachTypes /\ LapShape /\ lap \in Laps
  BY DEF EachInv, EachTypes
<1>3. lap.at \notin {"off", "rejoin"} => cmd.pc = "fan" /\ cmd.at.step \in Loops
  BY <1>2 DEF LapShape
<1> QED
  BY <1>1, <1>2, <1>3 DEF EachInv, EachTypes, LapShape

\* A command that goes on in its lap, or ends there, keeps the run as it is.
LEMMA LapRun ==
  ASSUME RunInv, EachInv, lap.at \notin {"off", "rejoin"}, rs' = rs, hist' = hist,
         leaving' = leaving, Rest', cmd' = Idle \/ cmd' = cmd
  PROVE  RunInv'
<1>1. CASE cmd' = Idle
  <2>1. cmd' \in Commands /\ rs.started /\ rs \in Runs /\ Kept(rs', rs)
    BY <1>1, CommandType, AtLap DEF Kept
  <2> QED
    BY <1>1, <2>1, AloneKeeps
<1>2. CASE cmd' = cmd
  BY <1>2, RunKeeps
<1> QED
  BY <1>1, <1>2

\* Its place in the journal is what the lap says.
LEMMA LapPlace ==
  ASSUME EachInv, lap.at \notin {"off", "rejoin"},
         \/ cmd' = Idle /\ lap'.at = "off"
         \/ cmd' = cmd /\ lap'.at \notin {"off", "rejoin"}
  PROVE  LapShape' /\ CollectsThisVisit'
<1>1. cmd.pc = "fan" /\ cmd.at.step \in Loops
  BY DEF EachInv, LapShape
<1>2. CASE cmd' = Idle /\ lap'.at = "off"
  BY <1>2, PCs DEF LapShape, CollectsThisVisit, LeavingEach
<1>3. CASE cmd' = cmd /\ lap'.at \notin {"off", "rejoin"}
  BY <1>1, <1>3 DEF LapShape, CollectsThisVisit, LeavingEach
<1> QED
  BY <1>2, <1>3

-----------------------------------------------------------------------------
(* Into the step *)

\* A new visit starts with its list, of which nothing is out; what earlier visits
\* left out is still there when nothing is frozen.
LEMMA EnterEachKeeps == RunInv /\ EachInv /\ EnterEach => RunInv' /\ EachInv'
<1> SUFFICES ASSUME RunInv, EachInv, EnterEach
             PROVE  RunInv' /\ EachInv'
  OBVIOUS
<1>s. PICK s \in Loops : s = cmd.at.step
  BY DEF EnterEach
<1>0. /\ s \in Steps /\ Kind[s] = "parallel" /\ MaxItems[s] \in Nat /\ MaxItems[s] >= 1
      /\ EachTypes /\ IInv /\ lap.at \in {"off", "rejoin"} /\ Fine(s, each[s], past[s], told[s])
      /\ cmd.pc = "enter"
  BY <1>s, LoopFacts, AtLap DEF EnterEach, EnterStep, EachInv, LapShape
<1>1. RunInv'
  BY RunKeeps DEF EnterEach, Next, RunStep, LoopStep
<1>2. cmd'.pc = "fan" /\ cmd'.at.step = s
  <2>1. PICK c \in Cursors : c.step = s /\ Begun(cmd', c)
    BY <1>s, <1>0, EnterStepFacts DEF EnterEach
  <2> QED
    BY <1>0, <2>1 DEF Begun
<1>3. PICK list \in {NotArray} \cup 0..(MaxItems[s] + 1) :
        /\ each' = [each EXCEPT ![s] = IF list \in 1..MaxItems[s] THEN Snapshot(each[s], list)
                                       ELSE [each[s] EXCEPT !.frozen = FALSE]]
        /\ lap' = [NoLap EXCEPT !.n = list,
                     !.at = IF list \in 1..MaxItems[s] THEN "next"
                            ELSE IF list = 0 THEN "join" ELSE "reject",
                     !.todo = IF list \in 1..MaxItems[s] THEN 0..(list - 1) ELSE {}]
        /\ past' = [past EXCEPT ![s] = [NewVisit EXCEPT !.list = list]]
  BY <1>s DEF EnterEach, Note, Here
<1>4. list \in Int
  BY <1>0 DEF NotArray
<1>5. PICK e \in Items : e = each[s]
  BY <1>0 DEF EachTypes
<1>6. PICK q : q = IF list \in 1..MaxItems[s] THEN Snapshot(e, list) ELSE [e EXCEPT !.frozen = FALSE]
  OBVIOUS
<1>7. /\ q \in Items
      /\ list \in 1..MaxItems[s] => /\ q.frozen /\ q.n = list /\ q.pending = {}
                                    /\ \A i \in Index : q.outcome[i] = ""
      /\ list \notin 1..MaxItems[s] => /\ ~q.frozen /\ q.n = e.n /\ q.pending = e.pending
                                       /\ q.attempt = e.attempt
  <2>1. CASE list \in 1..MaxItems[s]
    <3>1. q = [NoItems EXCEPT !.frozen = TRUE, !.n = list] /\ list \in Nat
      BY <1>6, <2>1 DEF Snapshot
    <3>2. "" \in ItemKeys
      BY DEF ItemKeys, Keys
    <3>3. q \in Items
      BY <3>1, <3>2 DEF Items, NoItems, NoTries, Outcome3
    <3>4. q.frozen /\ q.n = list /\ q.pending = {} /\ \A i \in Index : q.outcome[i] = ""
      BY <3>1 DEF NoItems
    <3> QED
      BY <2>1, <3>3, <3>4
  <2>2. CASE list \notin 1..MaxItems[s]
    <3>1. q = [e EXCEPT !.frozen = FALSE]
      BY <1>6, <2>2
    <3>2. q \in Items /\ ~q.frozen /\ q.n = e.n /\ q.pending = e.pending /\ q.attempt = e.attempt
      BY ONLY <3>1, e \in Items DEF Items
    <3> QED
      BY <2>2, <3>2
  <2> QED
    BY <2>1, <2>2
<1>8. PICK v : v = [NewVisit EXCEPT !.list = list]
  OBVIOUS
<1>9. /\ v \in Visits /\ v.list = list /\ v.asked = {} /\ ~v.late
      /\ \A i \in Index : v.res[i] = "" /\ v.retries[i] = 0
  BY <1>4, <1>8 DEF Visits, NewVisit, Asks, Outcome3
<1>10. /\ each' \in [Loops -> Items] /\ each'[s] = q /\ Others(each', each, s)
       /\ past' \in [Loops -> Visits] /\ past'[s] = v /\ Others(past', past, s)
       /\ told' = told /\ Others(told', told, s) /\ told' \in [Loops -> Asks]
       /\ collect' \in [Loops -> [n : Nat, good : SUBSET Index]]
  <2>1. each' = [each EXCEPT ![s] = q] /\ past' = [past EXCEPT ![s] = v]
    BY <1>3, <1>5, <1>6, <1>8
  <2>2. each' \in [Loops -> Items] /\ each'[s] = q /\ Others(each', each, s)
    BY <1>0, <1>7, <2>1, PutItems
  <2>3. past' \in [Loops -> Visits] /\ past'[s] = v /\ Others(past', past, s)
    BY <1>0, <1>9, <2>1, PutVisit
  <2>4. told' = told /\ collect' = collect
    BY DEF EnterEach
  <2> QED
    BY <1>0, <2>2, <2>3, <2>4 DEF EachTypes, Others
<1>11. Fine(s, q, v, told[s])
  <2>1. Settled(s, q, v)
    <3>1. e.n <= MaxItems[s] /\ \A i \in e.pending : i \in Index /\ e.attempt[i] >= 1
      BY <1>0, <1>5 DEF Fine, Settled, Items
    <3>2. list \in 1..MaxItems[s] => list >= 1 /\ list <= MaxItems[s]
      BY ONLY <1>0, <1>4
    <3>3. q.n <= MaxItems[s]
      BY ONLY <1>7, <3>1, <3>2
    <3>4. q.frozen => /\ list >= 1 /\ q.n = list
                      /\ \A i \in Index : q.outcome[i] = v.res[i]
      BY ONLY <1>7, <1>9, <3>2
    <3>5. \A i \in q.pending : v.res[i] = "" /\ q.attempt[i] >= 1
      BY <1>7, <1>9, <3>1
    <3> QED
      BY ONLY <1>9, <3>3, <3>4, <3>5 DEF Settled
  <2>2. Asked(s, q, v, told[s])
    BY <1>0, <1>9 DEF Fine, Asked
  <2>3. Budget(s, q, v)
    BY <1>9 DEF Budget
  <2> QED
    BY <2>1, <2>2, <2>3 DEF Fine
<1>12. /\ lap' \in Laps /\ lap'.n = list /\ lap'.print = {}
       /\ lap'.at = IF list \in 1..MaxItems[s] THEN "next" ELSE IF list = 0 THEN "join" ELSE "reject"
       /\ lap'.todo = IF list \in 1..MaxItems[s] THEN 0..(list - 1) ELSE {}
  <2> DEFINE todo == IF list \in 1..MaxItems[s] THEN 0..(list - 1) ELSE {}
             at == IF list \in 1..MaxItems[s] THEN "next" ELSE IF list = 0 THEN "join" ELSE "reject"
  <2>1. todo \in SUBSET Index
    <3>1. list <= MaxItems[s] => 0..(list - 1) \subseteq Index
      BY <1>4, LoopFacts
    <3> QED
      BY <1>0, <1>4, <3>1
  <2>2. at \in {"next", "join", "reject"}
    OBVIOUS
  <2>3. lap' = [NoLap EXCEPT !.n = list, !.at = at, !.todo = todo]
    BY <1>3
  <2> HIDE DEF todo, at
  <2>4. lap' \in Laps /\ lap'.n = list /\ lap'.print = {} /\ lap'.at = at /\ lap'.todo = todo
    BY <1>4, <2>1, <2>2, <2>3 DEF NoLap, Laps
  <2> QED
    BY <2>4 DEF todo, at
<1>13. Lapping(s, lap', q, v)
  <2>1. Round(s, lap', q, v)
    <3> SUFFICES ASSUME list \in 1..MaxItems[s]
                 PROVE  /\ q.frozen /\ q.n = list
                        /\ \A i \in 0..(list - 1) : v.res[i] = ""
      BY <1>12 DEF Round
    <3>1. 0..(list - 1) \subseteq Index
      <4>1. list <= MaxItems[s]
        BY <1>0, <1>4
      <4> QED
        BY ONLY <1>4, <4>1, LoopFacts
    <3> QED
      BY <1>7, <1>9, <3>1
  <2>2. Report(s, lap', q, v)
    BY <1>12 DEF Report
  <2>3. Ending(s, lap', q, v)
    <3>1. lap'.at = "join" => list = 0 /\ lap'.n = 0 /\ 0 \in 0..MaxItems[s] /\ 0..(0 - 1) = {}
      BY <1>0, <1>12
    <3>2. lap'.at \in {"reject", "clear"} => lap'.n = v.list /\ v.list \notin 0..MaxItems[s]
      <4>1. list \in 0..MaxItems[s] => list = 0 \/ list \in 1..MaxItems[s]
        BY ONLY <1>0, <1>4
      <4>2. lap'.at \in {"reject", "clear"} => list \notin 0..MaxItems[s]
        BY ONLY <1>12, <4>1
      <4> QED
        BY ONLY <1>9, <1>12, <4>2
    <3> QED
      BY ONLY <1>9, <3>1, <3>2 DEF Ending
  <2> QED
    BY <2>1, <2>2, <2>3 DEF Lapping
<1>14. LapShape' /\ CollectsThisVisit'
  BY <1>2, <1>12 DEF LapShape, CollectsThisVisit, LeavingEach
<1> QED
  BY <1>1, <1>2, <1>10, <1>11, <1>12, <1>13, <1>14, Moves

\* A step at its visits is left without an entry.
LEMMA CappedEachKeeps == RunInv /\ EachInv /\ CappedEach => RunInv' /\ EachInv'
<1> SUFFICES ASSUME RunInv, EachInv, CappedEach
             PROVE  RunInv' /\ EachInv'
  OBVIOUS
<1>1. RunInv'
  BY RunKeeps DEF CappedEach, Next, RunStep, LoopStep
<1>2. cmd'.pc = "route" /\ cmd'.gate = FALSE
  BY DEF CappedEach, EnterCapped, Resolved, AtPC, Idle
<1>3. lap' = NoLap /\ lap'.at = "off" /\ lap' \in Laps
  BY DEF CappedEach, NoLap, Laps
<1>4. LapShape' /\ CollectsThisVisit'
  BY <1>2, <1>3 DEF LapShape, CollectsThisVisit, LeavingEach
<1> QED
  BY <1>1, <1>3, <1>4, Rests, AtLap DEF CappedEach, EachTypes

\* A crash resume comes back to the step.
LEMMA ResumeAtKeeps == RunInv /\ EachInv /\ ResumeAt => RunInv' /\ EachInv'
<1> SUFFICES ASSUME RunInv, EachInv, ResumeAt
             PROVE  RunInv' /\ EachInv'
  OBVIOUS
<1>1. RunInv'
  BY RunKeeps DEF ResumeAt, Next, RunStep
<1>2. cmd.pc = "idle" /\ lap.at = "off" /\ IInv /\ lap \in Laps /\ EachTypes
  BY AtLap, PCs DEF ResumeAt, Resume, EachInv, LapShape
<1>3. PICK c \in Cursors :
        /\ c.step = Cursor(rs).step
        /\ cmd' = Idle \/ (cmd'.pc = "enter" /\ cmd'.at = c)
  BY <1>2, ResumeFacts DEF ResumeAt
<1>4. CASE ~RunBlocked(rs) /\ Cursor(rs).step \in Loops
  <2>1. cmd'.pc = "enter" /\ cmd'.at.step \in Loops
    <3>1. c.step \in Steps /\ Kind[c.step] = "parallel"
      BY <1>3, <1>4, LoopFacts
    <3>2. Cursor(rs) \in Cursors
      BY <1>2, Known
    <3>3. PICK d : d = [Cursor(rs) EXCEPT !.attempt = IF RunBlocked(rs) THEN 1 ELSE @,
                                          !.hard = IF RunBlocked(rs) THEN 0 ELSE @]
      OBVIOUS
    <3>4. d = Cursor(rs)
      BY <1>4, <3>2, <3>3 DEF Cursors
    <3>5. \E r : cmd' = IF d.step \notin Steps \/ (~RunBlocked(rs) /\ StaysParked(r, d.step))
                 THEN Idle ELSE AtPC("enter", d)
      BY <3>3 DEF ResumeAt, Resume
    <3>6. \A r : ~StaysParked(r, d.step)
      BY <1>3, <3>1, <3>4 DEF StaysParked
    <3>7. cmd' = AtPC("enter", d)
      BY <1>3, <3>1, <3>4, <3>5, <3>6
    <3> QED
      BY <1>4, <3>2, <3>4, <3>7, PCs
  <2>2. lap'.at = "rejoin" /\ lap' \in Laps
    BY <1>4 DEF ResumeAt, NoLap, Laps
  <2>3. LapShape' /\ CollectsThisVisit'
    BY <2>1, <2>2 DEF LapShape, CollectsThisVisit, LeavingEach
  <2> QED
    BY <1>1, <1>2, <2>2, <2>3, Rests DEF ResumeAt, EachTypes
<1>5. CASE ~(~RunBlocked(rs) /\ Cursor(rs).step \in Loops)
  <2>1. lap' = lap
    BY <1>5 DEF ResumeAt
  <2>2. LapShape' /\ CollectsThisVisit'
    BY <1>2, <1>3, <2>1, PCs DEF LapShape, CollectsThisVisit, LeavingEach
  <2> QED
    BY <1>1, <1>2, <2>1, <2>2, Rests DEF ResumeAt, EachTypes
<1> QED
  BY <1>4, <1>5

\* A rejoined list goes on with the items that have no outcome.
LEMMA RejoinEachKeeps == RunInv /\ EachInv /\ RejoinEach => RunInv' /\ EachInv'
<1> SUFFICES ASSUME RunInv, EachInv, RejoinEach
             PROVE  RunInv' /\ EachInv'
  OBVIOUS
<1>s. PICK s \in Loops : s = cmd.at.step
  BY DEF RejoinEach
<1>0. /\ s \in Steps /\ Kind[s] = "parallel" /\ EachTypes /\ lap.at = "rejoin" /\ cmd.pc = "enter"
      /\ Fine(s, each[s], past[s], told[s]) /\ each[s].frozen /\ cmd.at \in Cursors
      /\ rs \in Runs /\ rs.started /\ ~RunTerminal(rs) /\ Rest
  BY <1>s, LoopFacts, AtLap DEF RejoinEach, Rejoins, Here, EachInv
<1>1. cmd' \in Commands /\ cmd'.pc = "fan" /\ cmd'.at = cmd.at
  BY <1>0, CommandType DEF RejoinEach
<1>2. /\ rs' = rs /\ hist' = hist /\ Rest' /\ each' = each /\ past' = past /\ told' = told
      /\ collect' = collect
  BY <1>0 DEF RejoinEach, untouched, Rest
<1>3. RunInv'
  BY <1>s, <1>0, <1>1, <1>2, AloneKeeps DEF Kept
<1>4. PICK e \in Items : e = each[s]
  BY <1>0 DEF EachTypes
<1>5. PICK todo : todo = {i \in 0..(e.n - 1) : e.outcome[i] = ""}
  OBVIOUS
<1>6. /\ e.n \in Nat /\ 0..(e.n - 1) \subseteq Index /\ e.n = past[s].list
      /\ \A i \in Index : e.outcome[i] = past[s].res[i]
  <2>1. e.n \in Nat
    BY DEF Items
  <2>2. Settled(s, e, past[s])
    BY <1>0, <1>4 DEF Fine
  <2>3. e.n <= MaxItems[s]
    BY <2>2 DEF Settled
  <2>4. 0..(e.n - 1) \subseteq Index
    <3>1. e.n \in Int
      BY <2>1
    <3> QED
      BY ONLY <2>3, <3>1, s \in Loops, LoopFacts
  <2> QED
    BY <1>0, <1>4, <2>1, <2>2, <2>4 DEF Settled
<1>7. /\ lap' \in Laps /\ lap'.at = "next" /\ lap'.n = e.n /\ lap'.todo = todo /\ lap'.print = {}
  <2>1. todo \in SUBSET Index
    BY <1>5, <1>6
  <2>2. lap' = [NoLap EXCEPT !.at = "next", !.n = e.n, !.todo = todo]
    BY <1>s, <1>4, <1>5 DEF RejoinEach, Here
  <2>3. e.n \in Int
    BY <1>6
  <2> QED
    BY ONLY <2>1, <2>2, <2>3 DEF NoLap, Laps
<1>8. Lapping(s, lap', e, past[s])
  <2>1. Round(s, lap', e, past[s])
    <3>1. todo \subseteq 0..(e.n - 1) /\ \A i \in todo : past[s].res[i] = ""
      BY <1>5, <1>6
    <3>2. \A i \in 0..(e.n - 1) : i \in todo \/ past[s].res[i] # ""
      BY <1>5, <1>6
    <3> QED
      BY <1>0, <1>4, <1>7, <3>1, <3>2 DEF Round
  <2> QED
    BY <1>7, <2>1 DEF Lapping, Report, Ending
<1>9. LapShape' /\ CollectsThisVisit'
  BY <1>s, <1>1, <1>7 DEF LapShape, CollectsThisVisit, LeavingEach
<1> QED
  BY <1>s, <1>0, <1>1, <1>2, <1>3, <1>4, <1>7, <1>8, <1>9, Rests DEF EachTypes

\* What is no list is a failure of the step...
LEMMA RejectListKeeps == RunInv /\ EachInv /\ RejectList => RunInv' /\ EachInv'
<1> SUFFICES ASSUME RunInv, EachInv, RejectList
             PROVE  RunInv' /\ EachInv'
  OBVIOUS
<1>0. /\ lap.at = "reject" /\ lap \in Laps /\ EachTypes /\ Rest /\ rs \in Runs /\ rs.started
      /\ cmd \in Commands /\ cmd.at \in Cursors /\ cmd.pc = "fan" /\ ~RunTerminal(rs)
      /\ cmd.at.step \in Loops /\ cmd.at.step \in Steps /\ Kind[cmd.at.step] = "parallel"
      /\ Lapping(cmd.at.step, lap, each[cmd.at.step], past[cmd.at.step])
  BY AtLap, LoopFacts DEF RejectList
<1>1. /\ rs' = AfterPostcondition(rs, cmd.at.step, FALSE, Diagnostic) /\ cmd' = cmd
      /\ hist' = hist /\ each' = each /\ past' = past /\ told' = told /\ collect' = collect /\ Rest'
  BY <1>0 DEF RejectList, untouched, Rest
<1>2. /\ rs' \in Runs /\ Kept(rs', rs) /\ rs'.lastEnter = rs.lastEnter
      /\ rs'.lastTarget = rs.lastTarget /\ rs'.left = rs.left /\ rs'.inFlight = rs.inFlight
  <2>1. Diagnostic \in Errors /\ FALSE \in BOOLEAN
    BY DEF Errors
  <2> QED
    BY <1>0, <1>1, <2>1, AfterPostconditionType, AfterPostconditionFields
<1>3. RunInv'
  BY <1>0, <1>1, <1>2, AloneKeeps
<1>4. lap' \in Laps /\ lap'.at = "clear" /\ lap'.n = lap.n
  BY <1>0 DEF RejectList, Laps
<1>5. Lapping(cmd.at.step, lap', each[cmd.at.step], past[cmd.at.step])
  BY <1>0, <1>4 DEF Lapping, Round, Report, Ending
<1>6. LapShape' /\ CollectsThisVisit'
  BY <1>0, <1>1, <1>4, LapPlace
<1> QED
  BY <1>0, <1>1, <1>3, <1>4, <1>5, <1>6, Rests DEF EachTypes

\* ...that leaves nothing in collect:.
LEMMA ClearCollectKeeps == RunInv /\ EachInv /\ ClearCollect => RunInv' /\ EachInv'
<1> SUFFICES ASSUME RunInv, EachInv, ClearCollect
             PROVE  RunInv' /\ EachInv'
  OBVIOUS
<1>s. PICK s \in Loops : s = cmd.at.step
  BY AtLap DEF ClearCollect
<1>0. /\ lap.at = "clear" /\ EachTypes /\ Rest /\ rs \in Runs /\ rs.started
      /\ cmd \in Commands /\ cmd.at \in Cursors /\ cmd.pc = "fan" /\ ~RunTerminal(rs)
      /\ s \in Steps /\ Kind[s] = "parallel" /\ Lapping(s, lap, each[s], past[s])
  BY <1>s, AtLap, LoopFacts DEF ClearCollect
<1>1. /\ rs' = rs /\ hist' = hist /\ each' = each /\ past' = past /\ told' = told /\ Rest'
      /\ collect' = [collect EXCEPT ![s] = [n |-> 0, good |-> {}]]
      /\ lap' = NoLap /\ lap'.at = "off" /\ lap' \in Laps
  BY <1>s, <1>0 DEF ClearCollect, untouched, Rest, NoLap, Laps
<1>2. /\ collect' \in [Loops -> [n : Nat, good : SUBSET Index]]
      /\ collect'[s] = [n |-> 0, good |-> {}]
  BY <1>0, <1>1 DEF EachTypes
<1>3. PICK outcome \in {"failure", "exhausted"} : cmd' = Resolved(cmd.at, outcome, TRUE)
  BY DEF ClearCollect
<1>4. /\ cmd' \in Commands /\ cmd'.at = cmd.at /\ cmd'.pc = "route" /\ cmd'.gate = TRUE
      /\ cmd'.outcome = outcome
  <2>1. "failure" \in Producible(s) /\ "exhausted" \in Producible(s)
    BY DEF Producible
  <2>2. \A x \in Producible(s) : x \in Words
    BY ONLY <1>0 DEF Words
  <2>3. outcome \in Words
    BY ONLY <2>1, <2>2
  <2>4. PICK c \in Cursors : c = cmd.at
    BY <1>0
  <2>5. Resolved(c, outcome, TRUE) \in Commands /\ Resolved(c, outcome, TRUE).at = c
    BY ONLY <2>3, CommandType
  <2>6. cmd'.pc = "route" /\ cmd'.gate = TRUE /\ cmd'.outcome = outcome
    BY <1>3 DEF Resolved, AtPC, Idle
  <2> QED
    BY <1>3, <2>4, <2>5, <2>6
<1>5. RunInv'
  BY <1>s, <1>0, <1>1, <1>4, AloneKeeps DEF Kept
<1>6. LapShape'
  BY <1>1, <1>4 DEF LapShape
<1>7. CollectsThisVisit'
  <2>1. past[s].list \notin 0..MaxItems[s]
    BY <1>0 DEF Lapping, Ending
  <2> QED
    BY <1>s, <1>1, <1>2, <1>4, <2>1 DEF CollectsThisVisit
<1> QED
  BY <1>1, <1>2, <1>5, <1>6, <1>7, Rests

\* A crash leaves the items to a resume.
LEMMA CrashInLapKeeps == RunInv /\ EachInv /\ CrashInLap => RunInv' /\ EachInv'
<1> SUFFICES ASSUME RunInv, EachInv, CrashInLap
             PROVE  RunInv' /\ EachInv'
  OBVIOUS
<1>1. RunInv'
  BY RunKeeps DEF CrashInLap, Next, RunStep
<1>2. cmd'.pc = "idle" /\ lap'.at = "off" /\ lap' \in Laps
  BY PCs DEF CrashInLap, Crash, NoLap, Laps
<1>3. LapShape' /\ CollectsThisVisit'
  BY <1>2 DEF LapShape, CollectsThisVisit, LeavingEach
<1> QED
  BY <1>1, <1>2, <1>3, Rests, AtLap DEF CrashInLap, EachTypes

\* Every other step of the engine is one beside the foreach steps.
LEMMA OtherwiseKeeps == RunInv /\ EachInv /\ Otherwise => RunInv' /\ EachInv'
<1> SUFFICES ASSUME RunInv, EachInv, Otherwise
             PROVE  RunInv' /\ EachInv'
  OBVIOUS
<1>1. RunInv'
  BY RunKeeps DEF Otherwise, Next, RunStep, LoopStep
<1>2. BesideStep(Loops)
  BY DEF Otherwise, BesideStep
<1>3. \/ rs' = rs /\ cmd' = cmd
      \/ /\ cmd.pc # "fan" /\ (cmd'.pc = "fan" => cmd'.at.step \notin Loops)
         /\ cmd'.pc = "route" /\ cmd'.gate => cmd'.at.step \notin Loops
  BY <1>2, Beside, LoopFacts
<1>4. /\ each' = each /\ past' = past /\ told' = told /\ collect' = collect /\ lap' = lap
      /\ EachTypes /\ LapShape /\ CollectsThisVisit
  BY DEF Otherwise, eachVars, EachInv
<1>5. CASE cmd' = cmd
  <2>1. LapShape' /\ CollectsThisVisit'
    BY <1>4, <1>5 DEF LapShape, CollectsThisVisit, LeavingEach
  <2> QED
    BY <1>1, <1>4, <1>5, <2>1, Rests DEF EachTypes, EachInv
<1>6. CASE /\ cmd.pc # "fan" /\ (cmd'.pc = "fan" => cmd'.at.step \notin Loops)
           /\ cmd'.pc = "route" /\ cmd'.gate => cmd'.at.step \notin Loops
           /\ cmd' # cmd
  <2>1. ~(cmd.pc = "enter" /\ cmd.at.step \in Loops)
    <3> SUFFICES ASSUME cmd.pc = "enter", cmd.at.step \in Loops
                 PROVE  FALSE
      OBVIOUS
    <3>1. cmd # Idle
      BY PCs
    <3>2. ~Start /\ ~AbandonEnds /\ ~AbandonLooks /\ ~Over /\ ~Submit
      <4>1. ~Start /\ ~AbandonEnds /\ ~Over /\ ~Submit
        BY <3>1, StartFacts DEF AbandonEnds, Over, Submit, RunInv
      <4> QED
        BY <1>6, <4>1 DEF AbandonLooks
    <3>3. ~InvariantBlocks /\ ~Transition /\ ~End
      BY DEF InvariantBlocks, Transition, End
    <3>4. ~BodyStep
      BY DEF BodyStep, RunBody, HardFails, PrintsFailure, HardRetry, Dispatch,
             ContextUnavailable, Passes, Fails, FailsCapped, FailsFinally, Reenter, Judging
    <3> QED
      BY <3>2, <3>3, <3>4 DEF Otherwise
  <2>2. lap'.at = "off"
    BY <1>4, <1>6, <2>1 DEF LapShape
  <2>3. LapShape' /\ CollectsThisVisit'
    BY <1>6, <2>2 DEF LapShape, CollectsThisVisit, LeavingEach
  <2> QED
    BY <1>1, <1>4, <2>2, <2>3, Rests DEF EachTypes
<1> QED
  BY <1>3, <1>5, <1>6

-----------------------------------------------------------------------------
(* Item by item *)

\* Such an entry of a step's item that has no result...
Reentered(q, s, e, p, d, i, attempt, key) ==
  /\ e \in Items /\ p \in Visits /\ Fine(s, e, p, d) /\ p.res[i] = ""
  /\ attempt >= 1 /\ EnteredItem(q, e, i, attempt, key)

\* ...keeps everything that is said of the step.
LEMMA NoteEntered ==
  ASSUME NEW s \in Loops, NEW i \in Index, NEW e, NEW p, NEW d, NEW attempt, NEW key, NEW q,
         Reentered(q, s, e, p, d, i, attempt, key)
  PROVE  /\ q \in Items /\ Outstanding(q, e, i, attempt)
         /\ Settled(s, q, p) /\ Asked(s, q, p, d)
         /\ p.retries[i] = 0 \/ attempt = e.attempt[i] => Budget(s, q, p)
<1>1. PICK f \in Items, v \in Visits :
        /\ f = e /\ v = p /\ Fine(s, f, v, d) /\ v.res[i] = ""
        /\ attempt >= 1 /\ EnteredItem(q, f, i, attempt, key)
  BY DEF Reentered
<1>2. q \in Items /\ Outstanding(q, f, i, attempt)
  BY <1>1, ItemEnterFacts
<1>3. q.attempt[i] >= 1
  BY <1>1, <1>2 DEF Outstanding
<1>4. /\ Settled(s, q, v) /\ Asked(s, q, v, d)
      /\ v.retries[i] = 0 \/ q.attempt[i] = f.attempt[i] => Budget(s, q, v)
  BY <1>1, <1>2, <1>3, ItemEntered DEF Outstanding
<1> QED
  BY ONLY <1>1, <1>2, <1>4 DEF Outstanding

\* Before the next item: fresh, or at the attempt that was interrupted.
LEMMA NextItemKeeps == RunInv /\ EachInv /\ NextItem => RunInv' /\ EachInv'
<1> SUFFICES ASSUME RunInv, EachInv, NextItem
             PROVE  RunInv' /\ EachInv'
  OBVIOUS
<1>s. PICK s \in Loops : s = cmd.at.step
  BY AtLap DEF NextItem
<1>0. /\ lap.at = "next" /\ lap.todo # {} /\ lap \in Laps /\ EachTypes
      /\ each[s] \in Items /\ past[s] \in Visits
      /\ Fine(s, each[s], past[s], told[s]) /\ Round(s, lap, each[s], past[s])
  BY <1>s, AtLap DEF NextItem, Lapping
<1>1. PICK i \in Index : i = Item /\ i \in lap.todo
  BY <1>0, ItemLeft
<1>2. /\ rs' = rs /\ cmd' = cmd /\ hist' = hist /\ past' = past /\ told' = told
      /\ collect' = collect /\ UNCHANGED runVars
  BY DEF NextItem, runVars
<1>3. past[s].res[i] = "" /\ i \notin lap.print
  BY <1>0, <1>1 DEF Round
<1>4. PICK attempt, key, q :
        /\ attempt \in Nat /\ key \in ItemKeys
        /\ each' = [each EXCEPT ![s] = q] /\ EnteredItem(q, each[s], i, attempt, key)
        /\ attempt >= 1
        /\ past[s].retries[i] = 0 \/ attempt = each[s].attempt[i]
  <2>1. each[s].attempt[i] \in Nat /\ each[s].key[i] \in ItemKeys /\ past[s].retries[i] \in Nat
    BY <1>0 DEF Items, Visits
  <2>2. CASE Agentic(s) /\ each[s].attempt[i] > 1
    <3>1. PICK q : /\ each' = [each EXCEPT ![s] = q]
                   /\ q = AfterItemEnter(each[s], i, each[s].attempt[i], each[s].key[i], TRUE)
      BY <1>s, <1>1, <2>2 DEF NextItem, Note, Here
    <3>2. PICK attempt \in Nat : attempt = each[s].attempt[i]
      BY <2>1
    <3>3. PICK key \in ItemKeys : key = each[s].key[i]
      BY <2>1
    <3>4. attempt >= 1 /\ EnteredItem(q, each[s], i, attempt, key)
      BY <1>0, <2>2, <3>1, <3>2, <3>3 DEF EnteredItem
    <3> QED
      BY ONLY <3>1, <3>2, <3>4, attempt \in Nat, key \in ItemKeys
  <2>3. CASE ~(Agentic(s) /\ each[s].attempt[i] > 1)
    <3>1. PICK key, q :
            /\ key \in ItemKeys /\ each' = [each EXCEPT ![s] = q]
            /\ q = AfterItemEnter(each[s], i, 1, key, FALSE)
      <4>1. (IF BodyKeys[s] = {} THEN {""} ELSE BodyKeys[s]) \subseteq ItemKeys
        BY DEF ItemKeys, Keys
      <4> QED
        BY <1>s, <1>1, <2>3, <4>1 DEF NextItem, Note, Here
    <3>2. past[s].retries[i] = 0
      <4>1. Budget(s, each[s], past[s])
        BY <1>0 DEF Fine
      <4>2. \/ past[s].retries[i] = 0
            \/ Agentic(s) /\ past[s].retries[i] < each[s].attempt[i]
        BY ONLY <4>1, i \in Index DEF Budget
      <4> QED
        <5>1. PICK r \in Nat, a \in Nat : r = past[s].retries[i] /\ a = each[s].attempt[i]
          BY <2>1
        <5>2. r = 0 \/ (r < a /\ ~(a > 1))
          BY ONLY <2>3, <4>2, <5>1
        <5>3. r = 0
          BY ONLY <5>2, r \in Nat, a \in Nat
        <5> QED
          BY ONLY <5>1, <5>3
    <3>3. 1 \in Nat /\ 1 >= 1 /\ EnteredItem(q, each[s], i, 1, key)
      BY <1>0, <3>1 DEF EnteredItem
    <3> QED
      BY ONLY <3>1, <3>2, <3>3
  <2> QED
    BY <2>2, <2>3
<1>5. /\ each' \in [Loops -> Items] /\ Others(each', each, s) /\ each'[s] \in Items
      /\ each'[s].frozen = each[s].frozen /\ each'[s].n = each[s].n
      /\ each'[s].pending = each[s].pending \cup {i}
      /\ Fine(s, each'[s], past[s], told[s])
  <2>1. /\ each' \in [Loops -> Items] /\ Others(each', each, s) /\ each'[s] \in Items
        /\ each'[s].frozen = each[s].frozen /\ each'[s].n = each[s].n
        /\ each'[s].pending = each[s].pending \cup {i}
        /\ Settled(s, each'[s], past[s]) /\ Asked(s, each'[s], past[s], told[s])
        /\ past[s].retries[i] = 0 \/ attempt = each[s].attempt[i]
             => Budget(s, each'[s], past[s])
    <3>1. /\ q \in Items /\ q.frozen = each[s].frozen /\ q.n = each[s].n
          /\ q.pending = each[s].pending \cup {i}
          /\ Settled(s, q, past[s]) /\ Asked(s, q, past[s], told[s])
          /\ past[s].retries[i] = 0 \/ attempt = each[s].attempt[i] => Budget(s, q, past[s])
      <4>1. Reentered(q, s, each[s], past[s], told[s], i, attempt, key)
        BY <1>0, <1>3, <1>4 DEF Reentered
      <4>2. /\ q \in Items /\ Outstanding(q, each[s], i, attempt)
            /\ Settled(s, q, past[s]) /\ Asked(s, q, past[s], told[s])
            /\ past[s].retries[i] = 0 \/ attempt = each[s].attempt[i] => Budget(s, q, past[s])
        BY ONLY <4>1, s \in Loops, i \in Index, NoteEntered
      <4> QED
        BY ONLY <4>2 DEF Outstanding
    <3>2. each' \in [Loops -> Items] /\ each'[s] = q /\ Others(each', each, s)
      BY <1>0, <1>4, <3>1, PutItems
    <3> QED
      BY ONLY <3>1, <3>2
  <2> QED
    BY ONLY <1>4, <2>1 DEF Fine
<1>6. /\ lap' \in Laps /\ lap'.at = (IF Agentic(s) THEN "offer" ELSE "run") /\ lap'.n = lap.n
      /\ lap'.todo = lap.todo /\ lap'.print = lap.print
  BY <1>s, <1>0 DEF NextItem, Laps
<1>7. Lapping(s, lap', each'[s], past[s])
  <2>1. Min(lap'.todo) = i
    BY <1>1, <1>6 DEF Item
  <2>2. Round(s, lap', each'[s], past[s])
    BY <1>0, <1>5, <1>6, <2>1 DEF Round
  <2> QED
    BY <1>6, <2>2 DEF Lapping, Report, Ending
<1>8. LapShape' /\ CollectsThisVisit'
  BY <1>0, <1>2, <1>6, LapPlace
<1>9. RunInv'
  BY <1>2, RunKeeps
<1> QED
  BY <1>s, <1>0, <1>2, <1>5, <1>6, <1>7, <1>8, <1>9, Moves DEF Others, EachTypes

\* The body of an item runs.
LEMMA RunItemKeeps == RunInv /\ EachInv /\ RunItem => RunInv' /\ EachInv'
<1> SUFFICES ASSUME RunInv, EachInv, RunItem
             PROVE  RunInv' /\ EachInv'
  OBVIOUS
<1>s. PICK s \in Loops : s = cmd.at.step
  BY AtLap DEF RunItem
<1>0. /\ lap.at = "run" /\ lap \in Laps /\ EachTypes /\ Rest
      /\ Round(s, lap, each[s], past[s])
  BY <1>s, AtLap DEF RunItem, Lapping
<1>1. /\ rs' = rs /\ cmd' = cmd /\ hist' = hist /\ leaving' = leaving /\ each' = each
      /\ past' = past /\ told' = told /\ collect' = collect /\ Rest'
  BY <1>0, WorldType DEF RunItem, Rest
<1>2. /\ lap' \in Laps /\ lap'.at = "judge" /\ lap'.n = lap.n /\ lap'.todo = lap.todo
      /\ lap'.print = lap.print
  BY <1>0 DEF RunItem, Laps
<1>3. Lapping(s, lap', each[s], past[s])
  <2>1. Min(lap'.todo) = Min(lap.todo)
    BY <1>2
  <2>2. Round(s, lap', each[s], past[s])
    BY <1>0, <1>2, <2>1 DEF Round
  <2> QED
    BY <1>2, <2>2 DEF Lapping, Report, Ending
<1>4. LapShape' /\ CollectsThisVisit'
  BY <1>0, <1>1, <1>2, LapPlace
<1>5. RunInv'
  BY <1>1, RunKeeps
<1> QED
  BY <1>s, <1>0, <1>1, <1>2, <1>3, <1>4, <1>5, Rests DEF EachTypes

\* An item done has its result, and is neither left nor out.
LEMMA ItemDone ==
  ASSUME RunInv, EachInv, lap.at \in {"judge", "offer"},
         NEW outcome \in {"success", "failure"}, Record(Item, outcome), Onwards,
         UNCHANGED <<runVars, collect, told>>
  PROVE  RunInv' /\ EachInv'
<1>s. PICK s \in Loops : s = cmd.at.step
  BY AtLap
<1>0. /\ lap \in Laps /\ EachTypes /\ Fine(s, each[s], past[s], told[s])
      /\ Round(s, lap, each[s], past[s])
  BY <1>s, AtLap DEF Lapping
<1>1. PICK i \in Index : i = Item /\ i \in lap.todo
  BY <1>0, ItemLeft DEF Round
<1>2. rs' = rs /\ cmd' = cmd /\ told' = told /\ collect' = collect /\ UNCHANGED runVars
  BY DEF runVars
<1>3. Record(i, outcome)
  BY <1>1
<1>4. /\ each' \in [Loops -> Items] /\ Others(each', each, s)
      /\ past' \in [Loops -> Visits] /\ Others(past', past, s)
      /\ each[s] \in Items /\ each'[s] \in Items /\ past[s] \in Visits /\ past'[s] \in Visits
      /\ each'[s].frozen = each[s].frozen /\ each'[s].n = each[s].n
      /\ each'[s].attempt = each[s].attempt
      /\ each'[s].pending = each[s].pending \ {i} /\ each'[s].outcome[i] = outcome
      /\ Aside(each'[s].outcome, each[s].outcome, i)
      /\ past'[s].list = past[s].list /\ past'[s].retries = past[s].retries
      /\ past'[s].asked = past[s].asked /\ past'[s].late = past[s].late
      /\ past'[s].res[i] = outcome /\ Aside(past'[s].res, past[s].res, i)
  BY ONLY <1>s, <1>0, <1>3, i \in Index, outcome \in {"success", "failure"}, RecordFacts
<1>5. Fine(s, each'[s], past'[s], told[s])
  BY ONLY <1>0, <1>4, s \in Loops, i \in Index, outcome \in {"success", "failure"}, ItemRecorded
<1>6. /\ lap' \in Laps /\ lap'.at = "next" /\ lap'.n = lap.n /\ lap'.todo = lap.todo \ {i}
      /\ lap'.print = lap.print
  BY <1>0, <1>1 DEF Onwards, Laps
<1>7. Lapping(s, lap', each'[s], past'[s])
  <2>1. i \notin lap.print /\ lap.todo \subseteq Index
    BY <1>0, <1>1 DEF Round, Laps
  <2>2. \A j \in 0..(lap.n - 1) : j \in Index
    <3>1. each[s].n \in Int
      BY <1>4 DEF Items
    <3>2. each[s].n <= MaxItems[s] /\ lap.n = each[s].n
      BY <1>0 DEF Fine, Settled, Round
    <3> QED
      BY ONLY <3>1, <3>2, s \in Loops, LoopFacts
  <2>3. /\ lap.at # "next" /\ each[s].frozen /\ lap.n = each[s].n
        /\ lap.todo \subseteq 0..(lap.n - 1)
        /\ \A j \in lap.todo : j \notin lap.print /\ past[s].res[j] = ""
        /\ \A j \in 0..(lap.n - 1) : j \in lap.todo \/ j \in lap.print \/ past[s].res[j] # ""
        /\ lap.print \subseteq each[s].pending /\ (lap.print # {} => Agentic(s))
    BY <1>0 DEF Round
  <2>4. \A j \in lap.todo \ {i} : j \notin lap.print /\ past'[s].res[j] = ""
    BY ONLY <1>4, <2>1, <2>3 DEF Aside
  <2>5. \A j \in 0..(lap.n - 1) : j \in lap.todo \ {i} \/ j \in lap.print \/ past'[s].res[j] # ""
    BY ONLY <1>4, <2>2, <2>3, outcome \in {"success", "failure"} DEF Aside
  <2>6. Round(s, lap', each'[s], past'[s])
    BY ONLY <1>4, <1>6, <2>1, <2>3, <2>4, <2>5 DEF Round
  <2> QED
    BY <1>6, <2>6 DEF Lapping, Report, Ending
<1>8. LapShape' /\ CollectsThisVisit'
  BY <1>2, <1>6, LapPlace
<1>9. RunInv'
  BY <1>2, RunKeeps
<1> QED
  BY <1>s, <1>0, <1>2, <1>4, <1>5, <1>6, <1>7, <1>8, <1>9, Moves DEF Others, EachTypes

\* Another try of a deterministic item is another STEP_ENTER of it.
LEMMA ItemTriesAgainKeeps == RunInv /\ EachInv /\ ItemTriesAgain => RunInv' /\ EachInv'
<1> SUFFICES ASSUME RunInv, EachInv, ItemTriesAgain
             PROVE  RunInv' /\ EachInv'
  OBVIOUS
<1>s. PICK s \in Loops : s = cmd.at.step
  BY AtLap DEF ItemTriesAgain
<1>0. /\ lap.at = "judge" /\ lap \in Laps /\ EachTypes
      /\ each[s] \in Items /\ past[s] \in Visits
      /\ Fine(s, each[s], past[s], told[s]) /\ Round(s, lap, each[s], past[s])
  BY <1>s, AtLap DEF ItemTriesAgain, Lapping
<1>1. PICK i \in Index : i = Item /\ i \in lap.todo
  BY <1>0, ItemLeft DEF Round
<1>2. /\ rs' = rs /\ cmd' = cmd /\ past' = past /\ told' = told /\ collect' = collect
      /\ UNCHANGED runVars
  BY DEF ItemTriesAgain, runVars
<1>3. past[s].res[i] = "" /\ ~Agentic(s)
  BY <1>0, <1>1 DEF Round
<1>4. PICK key, q :
        key \in ItemKeys /\ each' = [each EXCEPT ![s] = q] /\ EnteredItem(q, each[s], i, 1, key)
  <2>1. "" \in ItemKeys
    BY DEF ItemKeys, Keys
  <2> QED
    BY <1>s, <1>0, <1>1, <2>1 DEF ItemTriesAgain, Note, Here, EnteredItem
<1>5. past[s].retries[i] = 0
  <2>1. Budget(s, each[s], past[s])
    BY <1>0 DEF Fine
  <2> QED
    BY ONLY <1>3, <2>1, i \in Index DEF Budget
<1>6. /\ each' \in [Loops -> Items] /\ Others(each', each, s) /\ each'[s] \in Items
      /\ each'[s].frozen = each[s].frozen /\ each'[s].n = each[s].n
      /\ each'[s].pending = each[s].pending \cup {i}
      /\ Fine(s, each'[s], past[s], told[s])
  <2>1. 1 \in Nat /\ 1 >= 1
    OBVIOUS
  <2>2. /\ each' \in [Loops -> Items] /\ Others(each', each, s) /\ each'[s] \in Items
        /\ each'[s].frozen = each[s].frozen /\ each'[s].n = each[s].n
        /\ each'[s].pending = each[s].pending \cup {i}
        /\ Settled(s, each'[s], past[s]) /\ Asked(s, each'[s], past[s], told[s])
        /\ past[s].retries[i] = 0 => Budget(s, each'[s], past[s])
    <3>1. /\ q \in Items /\ q.frozen = each[s].frozen /\ q.n = each[s].n
          /\ q.pending = each[s].pending \cup {i}
          /\ Settled(s, q, past[s]) /\ Asked(s, q, past[s], told[s])
          /\ past[s].retries[i] = 0 => Budget(s, q, past[s])
      <4>1. Reentered(q, s, each[s], past[s], told[s], i, 1, key)
        BY <1>0, <1>3, <1>4, <2>1 DEF Reentered
      <4>2. /\ q \in Items /\ Outstanding(q, each[s], i, 1)
            /\ Settled(s, q, past[s]) /\ Asked(s, q, past[s], told[s])
            /\ past[s].retries[i] = 0 \/ 1 = each[s].attempt[i] => Budget(s, q, past[s])
        BY ONLY <4>1, s \in Loops, i \in Index, NoteEntered
      <4> QED
        BY ONLY <4>2 DEF Outstanding
    <3>2. each' \in [Loops -> Items] /\ each'[s] = q /\ Others(each', each, s)
      BY <1>0, <1>4, <3>1, PutItems
    <3> QED
      BY ONLY <3>1, <3>2
  <2> QED
    BY ONLY <1>5, <2>2 DEF Fine
<1>7. /\ lap' \in Laps /\ lap'.at = "run" /\ lap'.n = lap.n
      /\ lap'.todo = lap.todo /\ lap'.print = lap.print
  <2>1. lap.hard + 1 \in Nat
    BY <1>0 DEF Laps
  <2> QED
    BY <1>0, <2>1 DEF ItemTriesAgain, Laps
<1>8. Lapping(s, lap', each'[s], past[s])
  <2>1. Min(lap'.todo) = i
    BY <1>1, <1>7 DEF Item
  <2>2. Round(s, lap', each'[s], past[s])
    BY <1>0, <1>6, <1>7, <2>1 DEF Round
  <2> QED
    BY <1>7, <2>2 DEF Lapping, Report, Ending
<1>9. LapShape' /\ CollectsThisVisit'
  BY <1>0, <1>2, <1>7, LapPlace
<1>10. RunInv'
  BY <1>2, RunKeeps
<1> QED
  BY <1>s, <1>0, <1>2, <1>6, <1>7, <1>8, <1>9, <1>10, Moves DEF Others, EachTypes

\* An item with an agentic body is out, to be dispatched with the others.
LEMMA OfferItemKeeps == RunInv /\ EachInv /\ OfferItem => RunInv' /\ EachInv'
<1> SUFFICES ASSUME RunInv, EachInv, OfferItem
             PROVE  RunInv' /\ EachInv'
  OBVIOUS
<1>s. PICK s \in Loops : s = cmd.at.step
  BY AtLap DEF OfferItem
<1>0. /\ lap.at = "offer" /\ lap \in Laps /\ EachTypes /\ Round(s, lap, each[s], past[s])
  BY <1>s, AtLap DEF OfferItem, Lapping
<1>1. PICK i \in Index : i = Item /\ i \in lap.todo
  BY <1>0, ItemLeft DEF Round
<1>2. /\ rs' = rs /\ cmd' = cmd /\ each' = each /\ past' = past /\ told' = told
      /\ collect' = collect /\ UNCHANGED runVars
  BY DEF OfferItem, runVars
<1>3. /\ lap' \in Laps /\ lap'.at = "next" /\ lap'.n = lap.n /\ lap'.todo = lap.todo \ {i}
      /\ lap'.print = lap.print \cup {i}
  BY <1>0, <1>1 DEF OfferItem, Laps
<1>4. i \in each[s].pending /\ Agentic(s)
  BY <1>0, <1>1 DEF Round, Item
<1>5. Lapping(s, lap', each[s], past[s])
  <2>1. Round(s, lap', each[s], past[s])
    BY <1>0, <1>1, <1>3, <1>4 DEF Round
  <2> QED
    BY <1>3, <2>1 DEF Lapping, Report, Ending
<1>6. LapShape' /\ CollectsThisVisit'
  BY <1>0, <1>2, <1>3, LapPlace
<1>7. RunInv'
  BY <1>2, RunKeeps
<1> QED
  BY <1>s, <1>0, <1>2, <1>3, <1>5, <1>6, <1>7, Rests DEF EachTypes

\* All items are dispatched at once, or there is nothing to wait for.
LEMMA ItemsOutKeeps == RunInv /\ EachInv /\ ItemsOut => RunInv' /\ EachInv'
<1> SUFFICES ASSUME RunInv, EachInv, ItemsOut
             PROVE  RunInv' /\ EachInv'
  OBVIOUS
<1>s. PICK s \in Loops : s = cmd.at.step
  BY AtLap DEF ItemsOut
<1>0. /\ lap.at = "next" /\ lap.todo = {} /\ lap \in Laps /\ EachTypes /\ Rest
      /\ each[s] \in Items /\ past[s] \in Visits
      /\ Fine(s, each[s], past[s], told[s]) /\ Round(s, lap, each[s], past[s])
  BY <1>s, AtLap DEF ItemsOut, Lapping
<1>1. /\ rs' = rs /\ hist' = hist /\ leaving' = leaving /\ each' = each /\ collect' = collect
      /\ Rest'
  BY <1>0 DEF ItemsOut, untouched, Rest
<1>2. each[s].n \in Nat /\ each[s].n <= MaxItems[s] /\ lap.n = each[s].n
  BY <1>0 DEF Fine, Settled, Round, Items
<1>3. \A j \in 0..(lap.n - 1) : j \in lap.print \/ past[s].res[j] # ""
  BY <1>0 DEF Round
<1>4. CASE lap.print # {}
  <2>1. Tell(lap.print) /\ cmd' = Idle /\ lap' = NoLap /\ lap'.at = "off" /\ lap' \in Laps
    BY <1>4 DEF ItemsOut, NoLap, Laps
  <2>2. lap.print \in SUBSET Index
    BY <1>0 DEF Laps
  <2>3. /\ told' \in [Loops -> Asks] /\ Others(told', told, s)
        /\ past' \in [Loops -> Visits] /\ Others(past', past, s)
        /\ past'[s].list = past[s].list /\ past'[s].res = past[s].res
        /\ past'[s].retries = past[s].retries /\ past'[s].late = past[s].late
    BY ONLY <1>s, <1>0, <1>4, <2>1, <2>2, TellFacts
  <2>4. Fine(s, each[s], past'[s], told'[s])
    <3>1. Settled(s, each[s], past'[s]) /\ Budget(s, each[s], past'[s])
      BY ONLY <1>0, <2>3 DEF Fine, Settled, Budget
    <3>2. Asked(s, each[s], past'[s], told'[s])
      BY ONLY <1>0, <1>2, <1>3, <1>4, <2>3 DEF Round, Asked
    <3> QED
      BY <3>1, <3>2 DEF Fine
  <2>5. LapShape' /\ CollectsThisVisit'
    BY <1>0, <2>1, LapPlace
  <2>6. RunInv'
    BY <1>0, <1>1, <2>1, LapRun
  <2> QED
    BY <1>0, <1>1, <2>1, <2>3, <2>4, <2>5, <2>6, Moves DEF Others, EachTypes
<1>5. CASE lap.print = {}
  <2>1. /\ lap' = [lap EXCEPT !.at = "join"] /\ cmd' = cmd /\ told' = told /\ past' = past
    BY <1>5 DEF ItemsOut
  <2>2. lap' \in Laps /\ lap'.at = "join" /\ lap'.n = lap.n
    BY <1>0, <2>1 DEF Laps
  <2>3. Lapping(s, lap', each[s], past[s])
    <3>1. lap.n \in 0..MaxItems[s]
      <4>1. MaxItems[s] \in Nat
        BY LoopFacts
      <4> QED
        BY ONLY <1>2, <4>1
    <3>2. \A j \in 0..(lap.n - 1) : j \in Index
      <4>1. lap.n \in Int /\ lap.n <= MaxItems[s]
        BY <1>2
      <4> QED
        BY ONLY <4>1, s \in Loops, LoopFacts
    <3>3. /\ lap.n = past[s].list /\ \A j \in Index : each[s].outcome[j] = past[s].res[j]
      BY <1>0, <1>2 DEF Fine, Settled, Round
    <3>4. \A j \in 0..(lap.n - 1) : past[s].res[j] # "" /\ each[s].outcome[j] = past[s].res[j]
      BY ONLY <1>3, <1>5, <3>2, <3>3
    <3>5. Ending(s, lap', each[s], past[s])
      BY ONLY <2>2, <3>1, <3>3, <3>4 DEF Ending
    <3> QED
      BY <2>2, <3>5 DEF Lapping, Round, Report
  <2>4. LapShape' /\ CollectsThisVisit'
    BY <1>0, <2>1, <2>2, LapPlace
  <2>5. RunInv'
    BY <1>0, <1>1, <2>1, LapRun
  <2> QED
    BY <1>s, <1>0, <1>1, <2>1, <2>2, <2>3, <2>4, <2>5, Rests DEF EachTypes
<1> QED
  BY <1>4, <1>5

-----------------------------------------------------------------------------
(* pawl submit --item, and the join *)

\* A report is taken for an item that is out.
LEMMA SubmitItemKeeps ==
  ASSUME RunInv, EachInv, NEW i \in Index, SubmitItem(i)
  PROVE  RunInv' /\ EachInv'
<1>s. PICK s \in Loops : s = Cursor(rs).step
  BY DEF SubmitItem
<1>0. /\ s \in Steps /\ Kind[s] = "parallel" /\ EachTypes /\ Rest /\ cmd = Idle
      /\ each[s] \in Items /\ past[s] \in Visits /\ Fine(s, each[s], past[s], told[s])
      /\ Cursor(rs) \in Cursors /\ rs \in Runs /\ rs.started /\ ~RunTerminal(rs)
  BY <1>s, LoopFacts, AtLap, Known DEF SubmitItem, EachInv, EachTypes
<1>1. PICK c \in Cursors : c = Cursor(rs)
  BY <1>0
<1>2. /\ rs' = rs /\ hist' = hist /\ each' = each /\ told' = told /\ collect' = collect
      /\ Rest' /\ cmd' = AtPC("fan", c) /\ i \in each[s].pending
      /\ <<i, each[s].attempt[i]>> \in told[s]
      /\ lap' = [NoLap EXCEPT !.at = "report", !.n = each[s].n, !.todo = {i}]
  BY <1>s, <1>0, <1>1, WorldType DEF SubmitItem, Rest
<1>3. cmd' \in Commands /\ cmd'.pc = "fan" /\ cmd'.at = c /\ c.step = s
  BY <1>s, <1>1, <1>2, CommandType
<1>4. RunInv'
  BY <1>s, <1>0, <1>1, <1>2, <1>3, AloneKeeps DEF Kept
<1>5. PICK late \in BOOLEAN :
        /\ past' = [past EXCEPT ![s].late = late]
        /\ late <=> past[s].late \/ <<i, each[s].attempt[i]>> \notin past[s].asked
  <2>1. PICK late : late = (past[s].late \/ <<i, each[s].attempt[i]>> \notin past[s].asked)
    OBVIOUS
  <2>2. past' = [past EXCEPT ![s].late = late]
    BY <1>s, <2>1 DEF SubmitItem
  <2>3. late \in BOOLEAN
    BY <2>1
  <2>4. late <=> past[s].late \/ <<i, each[s].attempt[i]>> \notin past[s].asked
    BY <2>1
  <2> QED
    BY ONLY <2>2, <2>3, <2>4
<1>6. PICK v : v = [past[s] EXCEPT !.late = late]
  OBVIOUS
<1>7. /\ v \in Visits /\ v.list = past[s].list /\ v.res = past[s].res
      /\ v.retries = past[s].retries /\ v.asked = past[s].asked /\ v.late = late
      /\ ~v.late => ~past[s].late
  BY ONLY <1>0, <1>5, <1>6, late \in BOOLEAN DEF Visits
<1>8. past' \in [Loops -> Visits] /\ past'[s] = v /\ Others(past', past, s)
  <2>1. past' = [past EXCEPT ![s] = v]
    BY <1>0, <1>5, <1>6 DEF EachTypes
  <2> QED
    BY <1>0, <1>7, <2>1, PutVisit
<1>9. Fine(s, each[s], v, told[s]) /\ Agentic(s)
  <2>1. Settled(s, each[s], v) /\ Budget(s, each[s], v)
    BY ONLY <1>0, <1>7 DEF Fine, Settled, Budget
  <2>2. Asked(s, each[s], v, told[s]) /\ Agentic(s)
    BY ONLY <1>0, <1>2, <1>7 DEF Fine, Asked
  <2> QED
    BY <2>1, <2>2 DEF Fine
<1>10. lap' \in Laps /\ lap'.at = "report" /\ lap'.n = each[s].n /\ lap'.todo = {i}
  <2>1. each[s].n \in Int
    BY <1>0 DEF Items
  <2> QED
    BY ONLY <1>2, <2>1, i \in Index DEF NoLap, Laps
<1>11. ~v.late => v.asked # {}
  <2>1. ~late => <<i, each[s].attempt[i]>> \in past[s].asked
    BY <1>5
  <2> QED
    BY ONLY <1>7, <2>1
<1>12. Lapping(s, lap', each[s], v)
  <2>1. Report(s, lap', each[s], v)
    BY <1>2, <1>9, <1>10, <1>11 DEF Report
  <2> QED
    BY <1>10, <2>1 DEF Lapping, Round, Ending
<1>13. LapShape' /\ CollectsThisVisit'
  BY <1>3, <1>10 DEF LapShape, CollectsThisVisit, LeavingEach
<1> QED
  BY <1>0, <1>2, <1>3, <1>4, <1>8, <1>9, <1>10, <1>12, <1>13, Moves DEF EachTypes, Others

\* A report that settles its item leaves the step where the session left it, or
\* joins it when it was the last one out.
LEMMA LandedKeeps ==
  ASSUME RunInv, EachInv, lap.at \in {"report", "redo"},
         NEW outcome \in {"success", "failure"}, Landed(outcome),
         UNCHANGED <<rs, untouched, hist, collect, told>>
  PROVE  RunInv' /\ EachInv'
<1>s. PICK s \in Loops : s = cmd.at.step
  BY AtLap
<1>0. /\ lap \in Laps /\ EachTypes /\ Rest /\ Fine(s, each[s], past[s], told[s])
      /\ Report(s, lap, each[s], past[s])
  BY <1>s, AtLap DEF Lapping
<1>1. PICK i \in Index : i = Item /\ lap.todo = {i} /\ i \in each[s].pending
  <2>1. PICK i \in each[s].pending : lap.todo = {i}
    BY <1>0 DEF Report
  <2> QED
    BY <1>0, <2>1, ItemLeft
<1>2. /\ rs' = rs /\ hist' = hist /\ leaving' = leaving /\ told' = told /\ collect' = collect
      /\ Rest'
  BY <1>0 DEF untouched, Rest
<1>3. Record(i, outcome)
  BY <1>1 DEF Landed
<1>4. /\ each' \in [Loops -> Items] /\ Others(each', each, s)
      /\ past' \in [Loops -> Visits] /\ Others(past', past, s)
      /\ each[s] \in Items /\ each'[s] \in Items /\ past[s] \in Visits /\ past'[s] \in Visits
      /\ each'[s].frozen = each[s].frozen /\ each'[s].n = each[s].n
      /\ each'[s].attempt = each[s].attempt
      /\ each'[s].pending = each[s].pending \ {i} /\ each'[s].outcome[i] = outcome
      /\ Aside(each'[s].outcome, each[s].outcome, i)
      /\ past'[s].list = past[s].list /\ past'[s].retries = past[s].retries
      /\ past'[s].asked = past[s].asked /\ past'[s].late = past[s].late
      /\ past'[s].res[i] = outcome /\ Aside(past'[s].res, past[s].res, i)
  BY ONLY <1>s, <1>0, <1>3, i \in Index, outcome \in {"success", "failure"}, RecordFacts
<1>5. Fine(s, each'[s], past'[s], told[s])
  BY ONLY <1>0, <1>4, s \in Loops, i \in Index, outcome \in {"success", "failure"}, ItemRecorded
<1>6. CASE each[s].pending \subseteq {i}
  <2>1. lap' = [lap EXCEPT !.at = "join"] /\ cmd' = cmd
    BY <1>s, <1>1, <1>6 DEF Landed, Here
  <2>2. lap' \in Laps /\ lap'.at = "join" /\ lap'.n = lap.n
    BY <1>0, <2>1 DEF Laps
  <2>3. Ending(s, lap', each'[s], past'[s])
    <3>1. each[s].n \in Nat /\ each[s].n <= MaxItems[s] /\ lap.n = each[s].n
      <4>1. each[s].n \in Nat
        BY <1>4 DEF Items
      <4> QED
        BY <1>0, <4>1 DEF Fine, Settled, Report
    <3>2. lap.n \in 0..MaxItems[s]
      <4>1. MaxItems[s] \in Nat
        BY LoopFacts
      <4> QED
        BY ONLY <3>1, <4>1
    <3>3. \A j \in 0..(lap.n - 1) : j \in Index
      <4>1. lap.n \in Int /\ lap.n <= MaxItems[s]
        BY <3>1
      <4> QED
        BY ONLY <4>1, s \in Loops, LoopFacts
    <3>4. ~past[s].late => /\ each[s].frozen
                           /\ \A j \in 0..(lap.n - 1) : j = i \/ past[s].res[j] # ""
      <4>1. past[s].asked # {} \/ past[s].late
        BY ONLY <1>0, lap.at \in {"report", "redo"} DEF Report
      <4>2. Asked(s, each[s], past[s], told[s])
        BY <1>0 DEF Fine
      <4>3. ~past[s].late =>
              /\ each[s].frozen
              /\ \A j \in 0..(each[s].n - 1) : j \in each[s].pending \/ past[s].res[j] # ""
        BY ONLY <4>1, <4>2 DEF Asked
      <4> QED
        BY ONLY <1>6, <3>1, <4>3
    <3>5. ~past[s].late => /\ each'[s].frozen
                           /\ \A j \in 0..(lap.n - 1) : past'[s].res[j] # ""
      BY ONLY <1>4, <3>3, <3>4, outcome \in {"success", "failure"} DEF Aside
    <3>6. each'[s].frozen => /\ each'[s].n = past'[s].list
                             /\ \A j \in Index : each'[s].outcome[j] = past'[s].res[j]
      BY ONLY <1>5 DEF Fine, Settled
    <3> QED
      BY ONLY <1>4, <2>2, <3>1, <3>2, <3>3, <3>5, <3>6 DEF Ending
  <2>4. Lapping(s, lap', each'[s], past'[s])
    BY <2>2, <2>3 DEF Lapping, Round, Report
  <2>5. LapShape' /\ CollectsThisVisit'
    BY <2>1, <2>2, LapPlace
  <2>6. RunInv'
    BY <1>2, <2>1, LapRun
  <2> QED
    BY <1>s, <1>0, <1>2, <1>4, <1>5, <2>1, <2>2, <2>4, <2>5, <2>6, Moves DEF Others, EachTypes
<1>7. CASE ~(each[s].pending \subseteq {i})
  <2>1. cmd' = Idle /\ lap' = NoLap /\ lap'.at = "off" /\ lap' \in Laps
    BY <1>s, <1>1, <1>7 DEF Landed, Here, NoLap, Laps
  <2>2. LapShape' /\ CollectsThisVisit'
    BY <2>1, LapPlace
  <2>3. RunInv'
    BY <1>2, <2>1, LapRun
  <2> QED
    BY <1>0, <1>2, <1>4, <1>5, <2>1, <2>2, <2>3, Moves DEF Others, EachTypes
<1> QED
  BY <1>6, <1>7

\* A failed report within the budget moves the item to its next attempt.
LEMMA ReportFailsKeeps == RunInv /\ EachInv /\ ReportFails => RunInv' /\ EachInv'
<1> SUFFICES ASSUME RunInv, EachInv, ReportFails
             PROVE  RunInv' /\ EachInv'
  OBVIOUS
<1>s. PICK s \in Loops : s = cmd.at.step
  BY AtLap DEF ReportFails
<1>0. /\ lap.at = "report" /\ lap \in Laps /\ EachTypes /\ Rest
      /\ each[s] \in Items /\ past[s] \in Visits
      /\ Fine(s, each[s], past[s], told[s]) /\ Report(s, lap, each[s], past[s])
  BY <1>s, AtLap DEF ReportFails, Lapping
<1>1. PICK i \in Index : i = Item /\ lap.todo = {i} /\ i \in each[s].pending
  <2>1. PICK i \in each[s].pending : lap.todo = {i}
    BY <1>0 DEF Report
  <2> QED
    BY <1>0, <2>1, ItemLeft
<1>2. /\ rs' = rs /\ hist' = hist /\ leaving' = leaving /\ told' = told /\ collect' = collect
      /\ Rest' /\ UNCHANGED <<rs, untouched, hist, collect, told>>
  BY <1>0 DEF ReportFails, untouched, Rest
<1>3. PICK text \in Texts :
        LET key == IF BodyKeys[s] = {} THEN text ELSE each[s].key[i]
            next == ItemTry(each[s], i, key)
        IN IF next <= ItemBudget(s)
             THEN /\ Note(AfterItemEnter(each[s], i, next, key, TRUE))
                  /\ lap' = [lap EXCEPT !.at = "redo"]
                  /\ past' = [past EXCEPT ![s].retries[i] =
                                IF @ < BodyAttempts[s] THEN @ + 1 ELSE @]
                  /\ cmd' = cmd
             ELSE Landed("failure")
  BY <1>s, <1>1 DEF ReportFails, Here
<1>4. PICK key \in ItemKeys : key = IF BodyKeys[s] = {} THEN text ELSE each[s].key[i]
  BY <1>0 DEF Items, ItemKeys, Keys
<1>5. each[s].attempt[i] \in Nat /\ each[s].tries[i][key] \in Nat
  BY <1>0 DEF Items
<1>6. PICK next \in Nat : next = ItemTry(each[s], i, key) /\ next >= each[s].attempt[i] + 1
  BY ONLY <1>5 DEF ItemTry
<1>7. CASE next <= ItemBudget(s)
  <2>1. PICK q :
          /\ each' = [each EXCEPT ![s] = q] /\ EnteredItem(q, each[s], i, next, key)
          /\ lap' = [lap EXCEPT !.at = "redo"] /\ cmd' = cmd
          /\ past' = [past EXCEPT ![s].retries[i] = IF @ < BodyAttempts[s] THEN @ + 1 ELSE @]
    BY <1>s, <1>0, <1>3, <1>4, <1>6, <1>7 DEF Note, EnteredItem
  <2>2. past[s].res[i] = "" /\ each[s].attempt[i] >= 1
    BY <1>0, <1>1 DEF Fine, Settled
  <2>3. next >= 2
    <3>1. PICK a \in Nat : a = each[s].attempt[i]
      BY <1>5
    <3>2. next >= a + 1 /\ a >= 1
      BY ONLY <1>6, <2>2, <3>1
    <3> QED
      BY ONLY <3>2, a \in Nat, next \in Nat
  <2>4. /\ each' \in [Loops -> Items] /\ Others(each', each, s) /\ each'[s] \in Items
        /\ each'[s].frozen = each[s].frozen /\ each'[s].n = each[s].n
        /\ each'[s].pending = each[s].pending \cup {i}
        /\ each'[s].attempt[i] = next /\ Aside(each'[s].attempt, each[s].attempt, i)
        /\ Settled(s, each'[s], past[s]) /\ Asked(s, each'[s], past[s], told[s])
    <3>1. next >= 1
      BY <2>3
    <3>2. /\ q \in Items /\ q.frozen = each[s].frozen /\ q.n = each[s].n
          /\ q.pending = each[s].pending \cup {i}
          /\ q.attempt[i] = next /\ Aside(q.attempt, each[s].attempt, i)
          /\ Settled(s, q, past[s]) /\ Asked(s, q, past[s], told[s])
      <4>1. Reentered(q, s, each[s], past[s], told[s], i, next, key)
        BY <1>0, <2>1, <2>2, <3>1 DEF Reentered
      <4>2. /\ q \in Items /\ Outstanding(q, each[s], i, next)
            /\ Settled(s, q, past[s]) /\ Asked(s, q, past[s], told[s])
            /\ past[s].retries[i] = 0 \/ next = each[s].attempt[i] => Budget(s, q, past[s])
        BY ONLY <4>1, s \in Loops, i \in Index, NoteEntered
      <4> QED
        BY ONLY <4>2 DEF Outstanding
    <3>3. each' \in [Loops -> Items] /\ each'[s] = q /\ Others(each', each, s)
      BY <1>0, <2>1, <3>2, PutItems
    <3> QED
      BY ONLY <3>2, <3>3
  <2>5. PICK tries \in Nat : /\ tries = (IF past[s].retries[i] < BodyAttempts[s]
                                         THEN past[s].retries[i] + 1 ELSE past[s].retries[i])
                             /\ tries <= past[s].retries[i] + 1
    <3>1. past[s].retries[i] \in Nat
      BY <1>0 DEF Visits
    <3> QED
      BY ONLY <3>1
  <2>6. PICK v : v = [past[s] EXCEPT !.retries[i] = tries]
    OBVIOUS
  <2>7. /\ v \in Visits /\ v.list = past[s].list /\ v.res = past[s].res
        /\ v.asked = past[s].asked /\ v.late = past[s].late
        /\ v.retries[i] = tries /\ Aside(v.retries, past[s].retries, i)
    BY ONLY <1>0, <2>6, i \in Index, tries \in Nat DEF Visits, Aside
  <2>8. past' \in [Loops -> Visits] /\ past'[s] = v /\ Others(past', past, s)
    <3>1. past' = [past EXCEPT ![s] = v]
      BY <1>0, <2>1, <2>5, <2>6 DEF EachTypes
    <3> QED
      BY <1>0, <2>7, <3>1, PutVisit
  <2>9. Agentic(s) /\ lap.n = each[s].n /\ (~past[s].late => past[s].asked # {})
    BY <1>0 DEF Report
  <2>10. Fine(s, each'[s], v, told[s])
    <3>1. Settled(s, each'[s], v)
      BY ONLY <2>4, <2>7 DEF Settled
    <3>2. Asked(s, each'[s], v, told[s])
      BY ONLY <2>4, <2>7 DEF Asked
    <3>3. Budget(s, each'[s], v)
      <4>1. Budget(s, each[s], past[s])
        BY <1>0 DEF Fine
      <4>2. tries < next
        <5>1. past[s].retries[i] = 0 \/ past[s].retries[i] < each[s].attempt[i]
          BY ONLY <4>1, i \in Index DEF Budget
        <5>2. past[s].retries[i] \in Nat
          BY <1>0 DEF Visits
        <5>3. PICK r \in Nat, a \in Nat : r = past[s].retries[i] /\ a = each[s].attempt[i]
          BY <1>5, <5>2
        <5>4. next >= a + 1 /\ tries <= r + 1 /\ (r = 0 \/ r < a)
          BY ONLY <1>6, <2>5, <5>1, <5>3
        <5> QED
          BY ONLY <2>3, <5>4, r \in Nat, a \in Nat, tries \in Nat, next \in Nat
      <4>3. \A j \in Index : j # i => v.retries[j] = past[s].retries[j]
                                      /\ each'[s].attempt[j] = each[s].attempt[j]
        BY ONLY <2>4, <2>7 DEF Aside
      <4> QED
        BY ONLY <1>7, <2>4, <2>7, <2>9, <4>1, <4>2, <4>3 DEF Budget
    <3> QED
      BY <3>1, <3>2, <3>3 DEF Fine
  <2>11. lap' \in Laps /\ lap'.at = "redo" /\ lap'.n = lap.n /\ lap'.todo = {i}
    BY <1>0, <1>1, <2>1 DEF Laps
  <2>12. Lapping(s, lap', each'[s], v)
    <3>1. Report(s, lap', each'[s], v)
      BY ONLY <1>1, <2>4, <2>7, <2>9, <2>11 DEF Report
    <3> QED
      BY <2>11, <3>1 DEF Lapping, Round, Ending
  <2>13. LapShape' /\ CollectsThisVisit'
    BY <1>0, <2>1, <2>11, LapPlace
  <2>14. RunInv'
    BY <1>0, <1>2, <2>1, LapRun
  <2>15. told' = told /\ told' \in [Loops -> Asks] /\ Others(told', told, s)
    BY <1>0, <1>2 DEF EachTypes, Others
  <2>16. collect' \in [Loops -> [n : Nat, good : SUBSET Index]] /\ cmd'.at.step = s
    BY <1>s, <1>0, <1>2, <2>1 DEF EachTypes
  <2> QED
    BY <2>4, <2>8, <2>10, <2>11, <2>12, <2>13, <2>14, <2>15, <2>16, Moves
<1>8. CASE ~(next <= ItemBudget(s))
  <2>1. Landed("failure")
    BY <1>3, <1>4, <1>6, <1>8
  <2> QED
    BY <1>0, <1>2, <2>1, LandedKeeps
<1> QED
  BY <1>7, <1>8

\* The item that is retried is dispatched alone.
LEMMA RedispatchKeeps == RunInv /\ EachInv /\ Redispatch => RunInv' /\ EachInv'
<1> SUFFICES ASSUME RunInv, EachInv, Redispatch
             PROVE  RunInv' /\ EachInv'
  OBVIOUS
<1>s. PICK s \in Loops : s = cmd.at.step
  BY AtLap DEF Redispatch
<1>0. /\ lap.at = "redo" /\ lap \in Laps /\ EachTypes /\ Rest
      /\ each[s] \in Items /\ past[s] \in Visits
      /\ Fine(s, each[s], past[s], told[s]) /\ Report(s, lap, each[s], past[s])
  BY <1>s, AtLap DEF Redispatch, Lapping
<1>1. lap.todo # {} /\ {Item} \in SUBSET Index /\ {Item} # {}
  BY <1>0, ItemLeft DEF Report
<1>2. /\ rs' = rs /\ hist' = hist /\ leaving' = leaving /\ each' = each /\ collect' = collect
      /\ Rest' /\ cmd' = Idle /\ lap' = NoLap /\ lap'.at = "off" /\ lap' \in Laps /\ Tell({Item})
  BY <1>0 DEF Redispatch, untouched, Rest, NoLap, Laps
<1>3. /\ told' \in [Loops -> Asks] /\ Others(told', told, s)
      /\ past' \in [Loops -> Visits] /\ Others(past', past, s)
      /\ past'[s].list = past[s].list /\ past'[s].res = past[s].res
      /\ past'[s].retries = past[s].retries /\ past'[s].late = past[s].late
  <2>1. PICK items \in SUBSET Index : items = {Item} /\ items # {}
    BY <1>1
  <2>2. Tell(items)
    BY <1>2, <2>1
  <2> QED
    BY ONLY <1>s, <1>0, <2>1, <2>2, s \in Loops, items \in SUBSET Index, TellFacts
<1>4. Fine(s, each[s], past'[s], told'[s])
  <2>1. Settled(s, each[s], past'[s]) /\ Budget(s, each[s], past'[s])
    BY ONLY <1>0, <1>3 DEF Fine, Settled, Budget
  <2>2. Asked(s, each[s], past'[s], told'[s])
    BY ONLY <1>0, <1>3 DEF Fine, Report, Asked
  <2> QED
    BY <2>1, <2>2 DEF Fine
<1>5. LapShape' /\ CollectsThisVisit'
  BY <1>0, <1>2, LapPlace
<1>6. RunInv'
  BY <1>0, <1>2, LapRun
<1> QED
  BY <1>0, <1>2, <1>3, <1>4, <1>5, <1>6, Moves DEF Others, EachTypes

\* The join collects what the visit has left, and its outcome says so.
LEMMA JoinEachKeeps == RunInv /\ EachInv /\ JoinEach => RunInv' /\ EachInv'
<1> SUFFICES ASSUME RunInv, EachInv, JoinEach
             PROVE  RunInv' /\ EachInv'
  OBVIOUS
<1>s. PICK s \in Loops : s = cmd.at.step
  BY AtLap DEF JoinEach
<1>0. /\ lap.at = "join" /\ lap \in Laps /\ EachTypes /\ Rest /\ rs \in Runs /\ rs.started
      /\ cmd \in Commands /\ cmd.at \in Cursors /\ cmd.pc = "fan" /\ ~RunTerminal(rs)
      /\ s \in Steps /\ Kind[s] = "parallel" /\ Ending(s, lap, each[s], past[s])
      /\ each[s] \in Items /\ past[s] \in Visits
  BY <1>s, AtLap, LoopFacts DEF JoinEach, Lapping
<1>1. PICK all, good : /\ all = 0..(lap.n - 1)
                       /\ good = {i \in all : each[s].outcome[i] = "success"}
  OBVIOUS
<1>2. /\ rs' = rs /\ hist' = hist /\ each' = each /\ past' = past /\ told' = told /\ Rest'
      /\ collect' = [collect EXCEPT ![s] = [n |-> lap.n, good |-> good]]
      /\ lap' = NoLap /\ lap'.at = "off" /\ lap' \in Laps
  BY <1>s, <1>0, <1>1 DEF JoinEach, Here, untouched, Rest, NoLap, Laps
<1>3. lap.n \in Nat /\ lap.n <= MaxItems[s] /\ lap.n \in 0..MaxItems[s]
  <2>1. MaxItems[s] \in Nat
    BY LoopFacts
  <2>2. lap.n \in 0..MaxItems[s]
    BY <1>0 DEF Ending
  <2> QED
    BY ONLY <2>1, <2>2
<1>4. all \subseteq Index /\ good \subseteq Index
  <2>1. lap.n \in Int
    BY <1>3
  <2>2. all \subseteq Index
    BY ONLY <1>1, <1>3, <2>1, s \in Loops, LoopFacts
  <2> QED
    BY <1>1, <2>2
<1>5. collect' \in [Loops -> [n : Nat, good : SUBSET Index]]
  BY ONLY <1>0, <1>2, <1>3, <1>4, s \in Loops DEF EachTypes
<1>6. collect'[s].n = lap.n /\ collect'[s].good = good
  BY ONLY <1>0, <1>2, s \in Loops DEF EachTypes
<1>7. PICK outcome : outcome = IF good = all THEN "success" ELSE IF good = {} THEN "failure" ELSE "partial"
  OBVIOUS
<1>8. cmd' = Resolved(cmd.at, outcome, TRUE)
  BY <1>s, <1>1, <1>7 DEF JoinEach, Here
<1>9. /\ cmd' \in Commands /\ cmd'.at = cmd.at /\ cmd'.pc = "route" /\ cmd'.gate = TRUE
      /\ cmd'.outcome = outcome
  <2>1. {"success", "partial"} \subseteq Emits[s]
    BY ForeachAssumption
  <2>2. outcome \in Producible(s)
    BY <1>7, <2>1 DEF Producible
  <2>3. \A x \in Producible(s) : x \in Words
    BY ONLY <1>0 DEF Words
  <2>4. outcome \in Words
    BY ONLY <2>2, <2>3
  <2>5. PICK c \in Cursors : c = cmd.at
    BY <1>0
  <2>6. Resolved(c, outcome, TRUE) \in Commands /\ Resolved(c, outcome, TRUE).at = c
    BY ONLY <2>4, CommandType
  <2>7. cmd'.pc = "route" /\ cmd'.gate = TRUE /\ cmd'.outcome = outcome
    BY <1>8 DEF Resolved, AtPC, Idle
  <2> QED
    BY <1>8, <2>5, <2>6, <2>7
<1>10. RunInv'
  BY <1>s, <1>0, <1>2, <1>9, AloneKeeps DEF Kept
<1>11. LapShape'
  BY <1>2, <1>9 DEF LapShape
<1>12. CollectsThisVisit'
  <2> SUFFICES ASSUME ~past[s].late
               PROVE  CollectsThisVisit'
    BY <1>s, <1>2, <1>9 DEF CollectsThisVisit
  <2>1. /\ lap.n = past[s].list
        /\ \A i \in all : past[s].res[i] # "" /\ each[s].outcome[i] = past[s].res[i]
    BY <1>0, <1>1 DEF Ending
  <2>2. \A i \in all : past[s].res[i] \in {"", "success", "failure"}
    BY <1>0, <1>4 DEF Visits, Outcome3
  <2>3. \A i \in all : past[s].res[i] = IF i \in good THEN "success" ELSE "failure"
    BY ONLY <1>1, <2>1, <2>2
  <2>4. past'[s].list \in 0..MaxItems[s] /\ all = 0..(past'[s].list - 1)
    BY <1>1, <1>2, <1>3, <2>1
  <2>5. cmd'.at.step = s
    BY <1>s, <1>9
  <2>6. PICK c, visit : c = collect'[s] /\ visit = past'[s]
    OBVIOUS
  <2>7. /\ c.n = visit.list /\ c.good = good
        /\ \A i \in all : visit.res[i] = IF i \in c.good THEN "success" ELSE "failure"
        /\ cmd'.outcome = IF c.good = all THEN "success"
                          ELSE IF c.good = {} THEN "failure" ELSE "partial"
        /\ visit.list \in 0..MaxItems[s] /\ all = 0..(visit.list - 1)
    BY ONLY <1>2, <1>6, <1>7, <1>9, <2>1, <2>3, <2>4, <2>6
  <2> QED
    BY ONLY <2>5, <2>6, <2>7 DEF CollectsThisVisit
<1> QED
  BY <1>2, <1>5, <1>10, <1>11, <1>12, Rests

-----------------------------------------------------------------------------
(* The whole *)

\* Nothing a foreach step, the engine or a crash does breaks the invariant.
LEMMA EachStep == LInv /\ [ForeachNext]_foreachVars => LInv'
<1> SUFFICES ASSUME RunInv, EachInv, [ForeachNext]_foreachVars
             PROVE  RunInv' /\ EachInv'
  BY DEF LInv
<1>1. CASE Otherwise
  BY <1>1, OtherwiseKeeps
<1>2. CASE ResumeAt
  BY <1>2, ResumeAtKeeps
<1>3. CASE CappedEach \/ EnterEach \/ RejoinEach \/ RejectList \/ ClearCollect
  BY <1>3, CappedEachKeeps, EnterEachKeeps, RejoinEachKeeps, RejectListKeeps, ClearCollectKeeps
<1>4. CASE NextItem \/ RunItem \/ ItemTriesAgain \/ OfferItem \/ ItemsOut
  BY <1>4, NextItemKeeps, RunItemKeeps, ItemTriesAgainKeeps, OfferItemKeeps, ItemsOutKeeps
<1>5. CASE ItemResolves
  <2>1. PICK outcome \in {"success", "failure"} : Record(Item, outcome)
    BY <1>5 DEF ItemResolves
  <2> QED
    BY <1>5, <2>1, ItemDone DEF ItemResolves
<1>6. CASE ItemUnavailable
  BY <1>6, ItemDone DEF ItemUnavailable
<1>7. CASE ReportPasses
  BY <1>7, LandedKeeps DEF ReportPasses
<1>8. CASE RedispatchUnavailable
  BY <1>8, LandedKeeps DEF RedispatchUnavailable
<1>9. CASE ReportFails \/ Redispatch \/ JoinEach
  BY <1>9, ReportFailsKeeps, RedispatchKeeps, JoinEachKeeps
<1>10. CASE CrashInLap
  BY <1>10, CrashInLapKeeps
<1>11. CASE \E i \in Index : SubmitItem(i)
  BY <1>11, SubmitItemKeeps
<1>12. CASE UNCHANGED foreachVars
  <2>1. /\ UNCHANGED runVars /\ cmd' = cmd /\ rs' = rs /\ each' = each /\ past' = past
        /\ told' = told /\ collect' = collect /\ lap' = lap
    BY <1>12 DEF foreachVars, eachVars, runVars
  <2>2. EachTypes /\ LapShape /\ CollectsThisVisit
    BY DEF EachInv
  <2>3. LapShape' /\ CollectsThisVisit'
    BY <2>1, <2>2 DEF LapShape, CollectsThisVisit, LeavingEach
  <2>4. RunInv'
    BY <2>1, RunKeeps
  <2> QED
    BY <2>1, <2>2, <2>3, <2>4, Rests DEF EachTypes, EachInv
<1> QED
  BY <1>1, <1>2, <1>3, <1>4, <1>5, <1>6, <1>7, <1>8, <1>9, <1>10, <1>11, <1>12
     DEF ForeachNext, LapStep

\* Before anything has run there is no list.
LEMMA EachInitially == ForeachInit => LInv
<1> SUFFICES ASSUME ForeachInit
             PROVE  RunInv /\ EachInv
  BY DEF LInv
<1>1. RunInv
  BY RunInitially DEF ForeachInit
<1>2. /\ \A s \in Loops : each[s] = NoItems /\ past[s] = NewVisit /\ told[s] = {}
      /\ lap = NoLap /\ lap.at = "off" /\ cmd.pc = "idle"
  BY PCs DEF ForeachInit, NoLap, Init, RunInit
<1>3. NoItems \in Items /\ NewVisit \in Visits
  <2>1. "" \in ItemKeys
    BY DEF ItemKeys, Keys
  <2> QED
    <3>0. NoTries \in [ItemKeys -> Nat]
      BY DEF NoTries
    <3>1. PICK none : none = NoTries /\ none \in [ItemKeys -> Nat]
      BY <3>0
    <3>2. NoItems \in Items
      BY ONLY <2>1, <3>1 DEF NoItems, Items, Outcome3
    <3>3. NewVisit \in Visits
      BY DEF NewVisit, Visits, Outcome3, Asks
    <3> QED
      BY <3>2, <3>3
<1>4. EachTypes
  BY <1>3 DEF ForeachInit, EachTypes, NoLap, Laps, Asks
<1>5. LapShape /\ CollectsThisVisit
  BY <1>2 DEF LapShape, CollectsThisVisit, LeavingEach
<1>6. ASSUME NEW s \in Loops
      PROVE  Fine(s, NoItems, NewVisit, {})
  <2>1. MaxItems[s] \in Nat
    BY LoopFacts
  <2> QED
    BY <2>1 DEF Fine, Settled, Asked, Budget, NoItems, NewVisit
<1>7. \A s \in Loops : Fine(s, each[s], past[s], told[s])
  BY <1>2, <1>6
<1> QED
  BY <1>1, <1>2, <1>4, <1>5, <1>7 DEF EachInv

\* It holds of every run of a workflow with foreach steps.
LEMMA EachInvariance == ForeachSpec => []LInv
<1> QED
  BY EachInitially, EachStep, PTL DEF ForeachSpec

\* Every variable keeps its type: the items Replay rebuilds, what a step collects
\* and how far a command is with them.
THEOREM ForeachTypes == ForeachSpec => []ForeachTypeOK
<1>1. LInv => ForeachTypeOK
  <2> SUFFICES ASSUME LInv
               PROVE  ForeachTypeOK
    OBVIOUS
  <2>1. TypeOK /\ EachTypes
    BY DEF LInv, RunInv, IInv, TInv, EachInv
  <2> QED
    BY <2>1 DEF ForeachTypeOK, EachTypes, Items, Visits, Outcome3
<1> QED
  BY <1>1, EachInvariance, PTL

\* An item that has its outcome is not run, dispatched or asked for again in the
\* visit: not by a resume, a retry or a report (foreach.go, submit.go).
THEOREM ItemsOnce == ForeachSpec => []ItemsRunOnce
<1>1. LInv => ItemsRunOnce
  <2> SUFFICES ASSUME LInv
               PROVE  ItemsRunOnce
    OBVIOUS
  <2>0. RunInv /\ EachInv
    BY DEF LInv
  <2>1. \A s \in Loops : \A i \in each[s].pending : past[s].res[i] = ""
    BY <2>0 DEF EachInv, Fine, Settled
  <2>2. lap.at \in {"run", "judge", "offer", "report", "redo"} => past[cmd.at.step].res[Item] = ""
    <3> SUFFICES ASSUME lap.at \in {"run", "judge", "offer", "report", "redo"}
                 PROVE  past[cmd.at.step].res[Item] = ""
      OBVIOUS
    <3>1. PICK s \in Loops : s = cmd.at.step
      BY <2>0, AtLap
    <3>2. lap \in Laps /\ Lapping(s, lap, each[s], past[s])
      BY <2>0, <3>1, AtLap
    <3>3. CASE lap.at \in {"run", "judge", "offer"}
      <4>1. lap.todo # {} /\ \A i \in lap.todo : past[s].res[i] = ""
        BY <3>2, <3>3 DEF Lapping, Round
      <4>2. Item \in lap.todo
        BY <3>2, <4>1, ItemLeft
      <4> QED
        BY <3>1, <4>1, <4>2
    <3>4. CASE lap.at \in {"report", "redo"}
      <4>1. PICK i \in each[s].pending : lap.todo = {i}
        BY <3>2, <3>4 DEF Lapping, Report
      <4>2. Item = i
        BY <3>2, <4>1, ItemLeft
      <4> QED
        BY <2>1, <3>1, <4>1, <4>2
    <3> QED
      BY <3>3, <3>4
  <2> QED
    BY <2>1, <2>2 DEF ItemsRunOnce
<1> QED
  BY <1>1, EachInvariance, PTL

\* An item is retried fewer times than attempts: and max_visits: allow, whatever
\* texts it fails with and wherever commands die (retryItem, submit.go).
THEOREM ItemRetries == ForeachSpec => []ItemRetriesWithinBudget
<1>1. LInv => ItemRetriesWithinBudget
  <2> SUFFICES ASSUME LInv, NEW s \in Loops, NEW i \in Index
               PROVE  past[s].retries[i] < ItemBudget(s)
    BY DEF ItemRetriesWithinBudget
  <2>1. ItemBudget(s) \in Nat /\ ItemBudget(s) >= 1
    BY LoopFacts
  <2>2. each[s].attempt[i] \in Nat /\ past[s].retries[i] \in Nat
    BY DEF LInv, EachInv, EachTypes, Items, Visits
  <2>3. Budget(s, each[s], past[s])
    BY DEF LInv, EachInv, Fine
  <2>4. \/ past[s].retries[i] = 0
        \/ past[s].retries[i] < each[s].attempt[i] /\ each[s].attempt[i] <= ItemBudget(s)
    BY ONLY <2>3, i \in Index DEF Budget
  <2> QED
    BY ONLY <2>1, <2>2, <2>4
<1> QED
  BY <1>1, EachInvariance, PTL

\* What a step leaves in collect:, and its outcome, are about the list of its
\* latest entry: one result per item, each its own (joinForeach, foreach.go).
THEOREM Collects == ForeachSpec => []CollectsThisVisit
<1>1. LInv => CollectsThisVisit
  BY DEF LInv, EachInv
<1> QED
  BY <1>1, EachInvariance, PTL

\* No step is entered more often than its max_visits: beside foreach steps either.
THEOREM ForeachVisits == ForeachSpec => []VisitsWithinMax
<1>1. LInv => VisitsWithinMax
  BY DEF LInv, RunInv, IInv, VisitInv
<1> QED
  BY <1>1, EachInvariance, PTL
=============================================================================
