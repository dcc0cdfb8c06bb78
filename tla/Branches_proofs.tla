-------------------------- MODULE Branches_proofs --------------------------
(***************************************************************************)
(* What holds of parallel steps for every set of groups, every number of    *)
(* branches and every number of crashes: the types, a group's outcome and   *)
(* error, and that a branch that has reported is done.                      *)
(***************************************************************************)
EXTENDS Branches, Engine_proofs

Groups == {s \in Steps : Group(s)}

\* The branch at position i of the group that the command is at.
Named(i) == BranchesOf[cmd.at.step][i]

\* Position i of the entry under way has not had its STEP_ENTER.
Ahead(i) == fan.enters /\ (fan.at = "next" \/ i # Position)

\* The types of what Branches adds.
GroupTypes ==
  /\ br \in [pending : SUBSET Branch, outcome : [Branch -> {"", "success", "failure"}],
             summary : SUBSET Groups]
  /\ fan \in Fans /\ told \subseteq Branch
  /\ past \in [how : [Branch -> {"", "success", "failure"}], torn : SUBSET Steps,
               astray : BOOLEAN]

\* The fan is on exactly while a command is at work in a group; what is left to
\* do are positions of that group, and a report is about one of them.
Shape ==
  /\ (fan.at # "off") <=> (cmd.pc = "fan" /\ Group(cmd.at.step))
  /\ fan.at # "off" => fan.todo \subseteq DOMAIN BranchesOf[cmd.at.step]
  /\ fan.at \in {"run", "judge", "offer", "report"} => fan.todo # {}
  /\ fan.at = "report" => ~fan.enters /\ \E i \in fan.todo : fan.todo = {i}
  /\ fan.at = "join" => fan.todo = {} \/ ~fan.enters

\* A branch that is out has not resolved in this visit, and one that has did so
\* with the outcome Replay keeps.
ResolvedInv ==
  /\ \A b \in br.pending : past.how[b] = ""
  /\ \A b \in Branch : past.how[b] # "" => br.outcome[b] = past.how[b]

\* Of the group at hand, what is left to do is out or ahead...
LeftInv ==
  fan.at \notin {"off", "join"} => \A i \in fan.todo :
     IF Ahead(i) THEN past.how[Named(i)] = "" ELSE Named(i) \in br.pending

\* ...what is out is left to do or was collected for the dispatch...
HeldInv ==
  fan.at \in {"next", "run", "judge", "offer"} =>
    \A b \in Pending(cmd.at.step) : b \in fan.print \/ \E i \in fan.todo : Named(i) = b

\* ...and nothing is out at the join.
JoinInv == fan.at = "join" \/ Leaving => Pending(cmd.at.step) = {}

OutInv == ResolvedInv /\ LeftInv /\ HeldInv /\ JoinInv

\* The group s is in flight, is being worked on, or has a branch that is out.
Live(s) ==
  \/ (fan.at # "off" \/ Leaving) /\ cmd.at.step = s
  \/ Pending(s) # {}
  \/ rs.inFlight /\ rs.lastEnter.step = s

\* Every branch of such a group is out, has resolved in this visit, or is ahead;
\* unless a crash has torn the entry.
CoverInv ==
  \A s \in Groups : s \notin past.torn /\ Live(s) =>
    \A b \in Members(s) :
      \/ b \in br.pending
      \/ past.how[b] # ""
      \/ fan.at # "off" /\ cmd.at.step = s /\ fan.enters /\ \E i \in fan.todo : Named(i) = b

\* The journal has the group s in flight.
InFlight(s) == rs.inFlight /\ rs.lastEnter.step = s /\ ~rs.ended

\* A group with a summary has no branch out, and its error is still that of the
\* summary when a crash resume comes to join it again.
VerdictInv ==
  /\ Leaving => /\ (cmd.outcome = "success") <=> AllSucceeded(cmd.at.step)
                /\ (cmd.outcome = "success") <=> (rs.lastError = NoText)
  /\ \A s \in br.summary :
       /\ Pending(s) = {}
       /\ fan.at # "off" /\ cmd.at.step = s => fan.todo = {} /\ InFlight(s)
       /\ InFlight(s) => (AllSucceeded(s) <=> (rs.lastError = NoText))

\* Unless a result was once accepted for a blocked run: only a run that has not
\* ended is worked on, and the branches that are out are those of the group in
\* flight, in a run that is not blocked.
AstrayInv ==
  ~past.astray =>
    /\ cmd.pc # "idle" => ~rs.ended
    /\ fan.at # "off" => rs.inFlight /\ rs.lastEnter.step = cmd.at.step
    /\ br.pending # {} => /\ rs.inFlight /\ Group(rs.lastEnter.step) /\ ~RunBlocked(rs)
                          /\ br.pending \subseteq Members(rs.lastEnter.step)

FanInv == GroupTypes /\ Shape /\ OutInv /\ CoverInv /\ VerdictInv /\ AstrayInv
GInv == RunInv /\ FanInv

-----------------------------------------------------------------------------
(* Branches and positions *)

\* A branch belongs to one group, at one position.
LEMMA GroupFacts ==
  /\ Groups \in SUBSET Steps
  /\ \A s \in Groups : Group(s) /\ Kind[s] = "parallel" /\ "success" \in Emits[s]
BY BranchesAssumption DEF Groups, Group

\* The branch at a position...
LEMMA NamedFacts ==
  ASSUME NEW s \in Steps, NEW i \in DOMAIN BranchesOf[s]
  PROVE  /\ i \in Nat /\ BranchesOf[s][i] \in Members(s) /\ BranchesOf[s][i] \in Branch
         /\ \A j \in DOMAIN BranchesOf[s] : BranchesOf[s][i] = BranchesOf[s][j] => i = j
         /\ \A t \in Steps : BranchesOf[s][i] \in Members(t) => s = t
<1>1. DOMAIN BranchesOf[s] = 1..Len(BranchesOf[s]) /\ Len(BranchesOf[s]) \in Nat
  BY BranchesAssumption
<1>2. BranchesOf[s][i] \in Members(s)
  BY DEF Members, Range
<1> QED
  BY <1>1, <1>2, BranchesAssumption DEF Branch

\* ...and the position of a branch.
LEMMA MemberFacts ==
  ASSUME NEW s \in Steps, NEW b \in Members(s)
  PROVE  /\ b \in Branch /\ \E i \in DOMAIN BranchesOf[s] : BranchesOf[s][i] = b
         /\ \A t \in Steps : b \in Members(t) => s = t
<1>1. \E i \in DOMAIN BranchesOf[s] : BranchesOf[s][i] = b
  BY DEF Members, Range
<1> QED
  BY <1>1, BranchesAssumption DEF Branch

\* The position that comes next is one of those left to do.
LEMMA PositionLeft ==
  ASSUME NEW s \in Steps, fan.todo \subseteq DOMAIN BranchesOf[s], fan.todo # {}
  PROVE  Position \in fan.todo /\ Position \in Nat
<1>1. fan.todo \in SUBSET Nat
  BY NamedFacts
<1>2. \E x \in fan.todo : \A y \in fan.todo : x <= y
  BY <1>1, Least
<1> QED
  BY <1>1, <1>2 DEF Position, Min

\* So is the branch a command is at work on.
LEMMA CurrentOut ==
  ASSUME RunInv, FanInv, fan.at # "off", fan.todo # {}
  PROVE  /\ Position \in fan.todo /\ Position \in DOMAIN BranchesOf[cmd.at.step]
         /\ Current = Named(Position) /\ Current \in Members(cmd.at.step) /\ Current \in Branch
         /\ fan.at \in {"run", "judge", "offer", "report"} => Current \in br.pending
         /\ cmd.at.step \notin br.summary
<1>1. cmd.pc = "fan" /\ Group(cmd.at.step) /\ fan.todo \subseteq DOMAIN BranchesOf[cmd.at.step]
  BY DEF FanInv, Shape
<1>2. cmd.at.step \in Steps
  BY <1>1 DEF Group
<1>3. Position \in fan.todo
  BY <1>1, <1>2, PositionLeft
<1>4. Current = Named(Position) /\ Position \in DOMAIN BranchesOf[cmd.at.step]
  BY <1>1, <1>3 DEF Current, Named
<1>5. Current \in Members(cmd.at.step) /\ Current \in Branch
  BY <1>2, <1>4, NamedFacts DEF Named
<1>6. fan.at \in {"run", "judge", "offer", "report"} => Current \in br.pending
  BY <1>3, <1>4 DEF FanInv, OutInv, LeftInv, Ahead
<1>7. cmd.at.step \notin br.summary
  BY DEF FanInv, VerdictInv
<1> QED
  BY <1>3, <1>4, <1>5, <1>6, <1>7

-----------------------------------------------------------------------------
(* The steps of Engine beside the groups *)

\* The invariants are about a group that is not touched.
LEMMA BesideGroups ==
  ASSUME RunInv, FanInv, BesideStep(Groups),
         br' = br, fan' = fan, told' = told,
         past'.how = past.how, past'.torn = past.torn, past' \in [how : [Branch -> {"", "success", "failure"}], torn : SUBSET Steps, astray : BOOLEAN],
         ~past'.astray => ~past.astray /\ (Submit => ~rs.ended)
  PROVE  FanInv'
<1>0. Groups \in SUBSET Steps /\ \A s \in Groups : Kind[s] = "parallel" /\ Group(s)
  BY GroupFacts
<1>1. /\ \/ rs' = rs /\ cmd' = cmd
         \/ /\ cmd.pc # "fan" /\ (cmd'.pc = "fan" => cmd'.at.step \notin Groups)
            /\ cmd'.pc = "route" /\ cmd'.gate => cmd'.at.step \notin Groups
      /\ rs'.inFlight /\ rs'.lastEnter.step \in Groups =>
           /\ rs.inFlight /\ rs'.lastEnter.step = rs.lastEnter.step
           /\ ~rs'.ended => ~rs.ended /\ rs'.lastError = rs.lastError
      /\ cmd'.pc # "idle" =>
           \/ ~rs'.ended
           \/ cmd.pc # "idle" /\ rs'.ended = rs.ended
           \/ Submit
      /\ rs.inFlight /\ rs.lastEnter.step \in Groups /\ ~RunBlocked(rs) /\ ~Out(Groups) =>
           rs'.inFlight /\ rs'.lastEnter.step = rs.lastEnter.step /\ ~RunBlocked(rs')
  BY <1>0, Beside DEF RunInv
<1>2. CASE rs' = rs /\ cmd' = cmd
  <2>a. /\ OutInv /\ CoverInv /\ br' = br /\ fan' = fan
        /\ past'.how = past.how /\ past'.torn = past.torn
    BY DEF FanInv
  <2>0. Position' = Position /\ Leaving' = Leaving
    BY <1>2 DEF Position, Leaving, Group
  <2>1. GroupTypes' /\ Shape' /\ OutInv'
    <3>1. GroupTypes'
      BY DEF FanInv, GroupTypes
    <3>2. Shape'
      BY <1>2 DEF FanInv, Shape, Group
    <3>3. OutInv'
      BY ONLY <1>2, <2>a, <2>0 DEF OutInv, ResolvedInv, LeftInv, HeldInv, JoinInv, Named, Ahead, Pending
    <3> QED
      BY <3>1, <3>2, <3>3
  <2>2. CoverInv'
    BY ONLY <1>2, <2>a, <2>0 DEF CoverInv, Live, Named, Pending
  <2>3. VerdictInv'
    BY <1>2 DEF FanInv, VerdictInv, InFlight, AllSucceeded, Pending, Leaving, Group
  <2>4. AstrayInv'
    BY <1>2 DEF FanInv, AstrayInv, Group
  <2> QED
    BY <2>1, <2>2, <2>3, <2>4 DEF FanInv
<1>3. CASE /\ cmd.pc # "fan" /\ (cmd'.pc = "fan" => cmd'.at.step \notin Groups)
           /\ cmd'.pc = "route" /\ cmd'.gate => cmd'.at.step \notin Groups
  <2>0. fan.at = "off" /\ ~Leaving'
    BY <1>3 DEF FanInv, Shape, Leaving, Groups, Group
  <2>1. GroupTypes'
    BY DEF FanInv, GroupTypes
  <2>2. Shape'
    BY <1>3, <2>0 DEF Shape, Groups, Group
  <2>3. OutInv'
    BY <2>0 DEF FanInv, OutInv, ResolvedInv, LeftInv, HeldInv, JoinInv
  <2>4. CoverInv'
    <3> SUFFICES ASSUME NEW s \in Groups, s \notin past.torn, Live(s)', NEW b \in Members(s)
                 PROVE  b \in br.pending \/ past.how[b] # ""
      BY <2>0 DEF CoverInv
    <3>1. Live(s)
      BY <1>1, <2>0 DEF Live, Pending
    <3> QED
      BY <2>0, <3>1 DEF FanInv, CoverInv
  <2>5. VerdictInv'
    <3>1. ASSUME NEW s \in br.summary
          PROVE  /\ Pending(s) = {}
                 /\ InFlight(s)' => (AllSucceeded(s) <=> (rs'.lastError = NoText))
      <4>1. s \in Groups
        BY DEF FanInv, GroupTypes
      <4>2. InFlight(s)' => InFlight(s) /\ rs'.lastError = rs.lastError
        BY <1>1, <4>1 DEF InFlight
      <4> QED
        BY <4>2 DEF FanInv, VerdictInv
    <3> QED
      BY <2>0, <3>1 DEF VerdictInv, Pending, AllSucceeded
  <2>6. AstrayInv'
    <3> SUFFICES ASSUME ~past'.astray
                 PROVE  /\ cmd'.pc # "idle" => ~rs'.ended
                        /\ br.pending # {} => /\ rs'.inFlight /\ Group(rs'.lastEnter.step)
                                              /\ ~RunBlocked(rs')
                                              /\ br.pending \subseteq Members(rs'.lastEnter.step)
      BY <2>0 DEF AstrayInv, Group
    <3>1. /\ cmd.pc # "idle" => ~rs.ended
          /\ br.pending # {} => /\ rs.inFlight /\ Group(rs.lastEnter.step) /\ ~RunBlocked(rs)
                                /\ br.pending \subseteq Members(rs.lastEnter.step)
      BY DEF FanInv, AstrayInv
    <3>2. cmd'.pc # "idle" => ~rs'.ended
      <4>1. Submit => rs' = rs
        BY DEF Submit
      <4> QED
        BY <1>1, <3>1, <4>1
    <3>3. br.pending # {} => ~Out(Groups)
      <4> SUFFICES ASSUME br.pending # {}, Out(Groups)
                   PROVE  FALSE
        OBVIOUS
      <4>1. cmd.pc = "route" /\ cmd.at.step \in Groups /\ Leaving
        BY <1>0 DEF Out, Leaving
      <4>2. cmd.at.step = rs.lastEnter.step
        BY <3>1, <4>1 DEF RunInv, WhereInv
      <4>3. br.pending \subseteq Members(cmd.at.step) /\ Pending(cmd.at.step) = {}
        BY <3>1, <4>1, <4>2 DEF FanInv, OutInv, JoinInv
      <4> QED
        BY <4>3 DEF Pending
    <3> QED
      BY <1>1, <3>1, <3>2, <3>3 DEF Groups, Group
  <2> QED
    BY <2>1, <2>2, <2>3, <2>4, <2>5, <2>6 DEF FanInv
<1> QED
  BY <1>1, <1>2, <1>3

-----------------------------------------------------------------------------
(* Into the group *)

\* What a command at work in a group is known to be.
LEMMA AtGroup ==
  ASSUME RunInv, FanInv
  PROVE  /\ rs \in Runs /\ cmd \in Commands /\ cmd.at \in Cursors /\ IInv
         /\ cmd.pc # "idle" => rs.started /\ ~RunTerminal(rs) /\ cmd # Idle
         /\ fan.at # "off" => /\ cmd.pc = "fan" /\ cmd.at.step \in Groups
                              /\ cmd.at.step \in Steps /\ Kind[cmd.at.step] = "parallel"
                              /\ fan.todo \subseteq DOMAIN BranchesOf[cmd.at.step]
         /\ fan.at = "off" => ~(cmd.pc = "fan" /\ Group(cmd.at.step))
         /\ Rest
BY Known, GroupFacts DEF RunInv, FanInv, Shape, Groups, Group, IInv, TInv, TypeOK, Rest

\* The dispatch of the branches starts with the fan at the first of them.
LEMMA FanType ==
  ASSUME NEW s \in Steps, NEW todo \in SUBSET DOMAIN BranchesOf[s]
  PROVE  /\ NoFan \in Fans
         /\ \A at \in {"next", "report"}, enters \in BOOLEAN :
              [NoFan EXCEPT !.at = at, !.todo = todo, !.enters = enters] \in Fans
         /\ \A at \in {"next", "report"} : [NoFan EXCEPT !.at = at, !.todo = todo] \in Fans
BY DEF NoFan, Fans

\* A new entry puts all branches ahead.
LEMMA EnterGroupKeeps == RunInv /\ FanInv /\ EnterGroup => FanInv'
<1> SUFFICES ASSUME RunInv, FanInv, EnterGroup
             PROVE  FanInv'
  OBVIOUS
<1> DEFINE s == cmd.at.step
<1>0. /\ rs \in Runs /\ cmd.at \in Cursors /\ IInv /\ cmd.pc = "enter" /\ s \in Steps /\ s \in Groups
      /\ Kind[s] = "parallel" /\ rs.resumedInFlight # s /\ fan.at = "off"
      /\ br \in [pending : SUBSET Branch, outcome : [Branch -> {"", "success", "failure"}],
                 summary : SUBSET Groups]
      /\ past \in [how : [Branch -> {"", "success", "failure"}], torn : SUBSET Steps,
                   astray : BOOLEAN]
  BY AtGroup, GroupFacts DEF EnterGroup, EnterStep, Group, Groups, FanInv, GroupTypes, Shape
<1>1. PICK c \in Cursors : /\ c.step = s /\ EnteredAt(rs', rs, c) /\ Begun(cmd', c)
  BY <1>0, EnterStepFacts DEF EnterGroup
<1>2. /\ rs'.inFlight /\ rs'.lastEnter.step = s /\ rs'.ended = rs.ended
      /\ cmd'.pc = "fan" /\ cmd'.at.step = s
  BY <1>0, <1>1 DEF EnteredAt, Begun
<1>3. /\ br'.pending = br.pending /\ br'.outcome = br.outcome /\ br'.summary = br.summary \ {s}
      /\ br' \in [pending : SUBSET Branch, outcome : [Branch -> {"", "success", "failure"}],
                  summary : SUBSET Groups]
  BY <1>0 DEF EnterGroup
<1>4. /\ fan'.at = "next" /\ fan'.todo = DOMAIN BranchesOf[s] /\ fan'.enters = TRUE
      /\ fan'.print = {} /\ fan' \in Fans
  <2> DEFINE todo == DOMAIN BranchesOf[s]
  <2>1. fan' = [NoFan EXCEPT !.at = "next", !.todo = todo, !.enters = TRUE]
    BY DEF EnterGroup
  <2>2. todo \in SUBSET DOMAIN BranchesOf[s] /\ TRUE \in BOOLEAN
    OBVIOUS
  <2> QED
    BY ONLY <1>0, <2>1, <2>2, FanType DEF NoFan
<1>5. /\ \A b \in Branch : past'.how[b] = IF b \in Members(s) THEN "" ELSE past.how[b]
      /\ past'.torn = past.torn \ {s} /\ past'.astray = past.astray
      /\ past' \in [how : [Branch -> {"", "success", "failure"}], torn : SUBSET Steps,
                    astray : BOOLEAN]
  <2> DEFINE how == [b \in Branch |-> IF b \in Members(s) THEN "" ELSE past.how[b]]
             torn == past.torn \ {s}
  <2>1. past' = [past EXCEPT !.how = how, !.torn = torn]
    BY DEF EnterGroup
  <2>2. how \in [Branch -> {"", "success", "failure"}] /\ torn \in SUBSET Steps
    BY <1>0
  <2>3. \A b \in Branch : how[b] = IF b \in Members(s) THEN "" ELSE past.how[b]
    OBVIOUS
  <2> HIDE DEF how
  <2> QED
    BY <1>0, <2>1, <2>2, <2>3
<1>6. ~Leaving' /\ told' = told
  BY <1>2 DEF Leaving, EnterGroup
<1>7. GroupTypes'
  BY <1>3, <1>4, <1>5, <1>6 DEF FanInv, GroupTypes
<1>8. Shape'
  BY <1>0, <1>2, <1>4 DEF Shape, Groups, Group
<1>9. OutInv'
  <2>0. ResolvedInv /\ br.pending \subseteq Branch
    BY <1>0 DEF FanInv, OutInv
  <2>1. ResolvedInv'
    BY ONLY <1>3, <1>5, <2>0 DEF ResolvedInv
  <2>2. LeftInv'
    <3>1. ASSUME NEW i \in DOMAIN BranchesOf[s]
          PROVE  past'.how[BranchesOf[s][i]] = ""
      <4>1. BranchesOf[s][i] \in Members(s) /\ BranchesOf[s][i] \in Branch
        BY <1>0, NamedFacts
      <4> QED
        BY ONLY <1>5, <4>1
    <3> QED
      BY ONLY <1>2, <1>4, <3>1 DEF LeftInv, Ahead, Named
  <2>3. HeldInv'
    <3>1. \A b \in Members(s) : \E i \in DOMAIN BranchesOf[s] : BranchesOf[s][i] = b
      BY <1>0, MemberFacts
    <3> QED
      BY ONLY <1>2, <1>4, <3>1 DEF HeldInv, Named, Pending
  <2>4. JoinInv'
    BY ONLY <1>4, <1>6 DEF JoinInv
  <2> QED
    BY <2>1, <2>2, <2>3, <2>4 DEF OutInv
<1>10. CoverInv'
  <2> SUFFICES ASSUME NEW t \in Groups, t \notin past'.torn, Live(t)', NEW b \in Members(t)
               PROVE  \/ b \in br'.pending
                      \/ past'.how[b] # ""
                      \/ /\ fan'.at # "off" /\ cmd'.at.step = t /\ fan'.enters
                         /\ \E i \in fan'.todo : BranchesOf[cmd'.at.step][i] = b
    BY DEF CoverInv, Named
  <2>1. CASE t = s
    <3>1. \E i \in DOMAIN BranchesOf[s] : BranchesOf[s][i] = b
      BY <1>0, <2>1, MemberFacts
    <3> QED
      BY ONLY <1>2, <1>4, <2>1, <3>1
  <2>2. CASE t # s
    <3>1. Live(t)
      BY <1>2, <1>3, <1>6, <2>2 DEF Live, Pending
    <3>2. b \in Branch /\ b \notin Members(s) /\ t \notin past.torn
      BY <1>0, <1>5, <2>2, MemberFacts, GroupFacts
    <3>3. b \in br.pending \/ past.how[b] # ""
      BY <1>0, <3>1, <3>2 DEF FanInv, CoverInv
    <3> QED
      BY <1>3, <1>5, <3>2, <3>3
  <2> QED
    BY <2>1, <2>2
<1>11. VerdictInv'
  <2> SUFFICES ASSUME NEW t \in br'.summary
               PROVE  Pending(t) = {} /\ t # s
    BY <1>2, <1>3, <1>6 DEF VerdictInv, InFlight, Pending
  <2> QED
    BY <1>3 DEF FanInv, VerdictInv
<1>12. AstrayInv'
  <2>1. ~past.astray => ~rs.ended /\ br.pending = {}
    <3>1. rs.inFlight => rs.resumedInFlight = s
      BY <1>0 DEF IInv, EntryInv
    <3> QED
      BY <1>0, <3>1 DEF FanInv, AstrayInv
  <2> QED
    BY <1>2, <1>3, <1>5, <2>1 DEF AstrayInv
<1> QED
  BY <1>7, <1>8, <1>9, <1>10, <1>11, <1>12 DEF FanInv

\* A crash resume has ahead of it what is out, and enters nothing.
LEMMA ResumeGroupKeeps == RunInv /\ FanInv /\ ResumeGroup => RunInv' /\ FanInv'
<1> SUFFICES ASSUME RunInv, FanInv, ResumeGroup
             PROVE  RunInv' /\ FanInv'
  OBVIOUS
<1> DEFINE s == cmd.at.step
           todo == {i \in DOMAIN BranchesOf[s] : BranchesOf[s][i] \in br.pending}
<1>0. /\ rs \in Runs /\ cmd.at \in Cursors /\ IInv /\ cmd.pc = "enter" /\ s \in Steps /\ s \in Groups
      /\ Kind[s] = "parallel" /\ fan.at = "off" /\ rs.started /\ ~RunTerminal(rs)
      /\ rs.resumedInFlight = s
  BY AtGroup, GroupFacts DEF ResumeGroup, Group, Groups, FanInv, GroupTypes, Shape
<1>1. InFlight(s)
  BY <1>0 DEF RunInv, WhereInv, InFlight
<1>2. /\ cmd' \in Commands /\ cmd'.pc = "fan" /\ cmd'.at = cmd.at
  BY <1>0, CommandType DEF ResumeGroup
<1>3. /\ rs' = rs /\ hist' = hist /\ br' = br /\ told' = told /\ past' = past /\ Rest'
  BY AtGroup DEF ResumeGroup, Rest
<1>4. /\ fan'.at = "next" /\ fan'.todo = todo /\ fan'.enters = FALSE
      /\ fan'.print = {} /\ fan' \in Fans
  <2>1. fan' = [NoFan EXCEPT !.at = "next", !.todo = todo]
    BY DEF ResumeGroup
  <2> QED
    BY <1>0, <2>1, FanType DEF NoFan
<1>5. RunInv'
  BY <1>0, <1>2, <1>3, AloneKeeps DEF Kept
<1>6. ~Leaving'
  BY <1>2 DEF Leaving
<1>7. GroupTypes' /\ Shape'
  BY <1>0, <1>2, <1>3, <1>4 DEF FanInv, GroupTypes, Shape, Groups, Group
<1>8. OutInv'
  <2>1. ResolvedInv'
    BY <1>3 DEF FanInv, OutInv, ResolvedInv
  <2>2. LeftInv'
    BY ONLY <1>2, <1>3, <1>4 DEF LeftInv, Ahead, Named
  <2>3. HeldInv'
    <3>1. \A b \in Members(s) : \E i \in DOMAIN BranchesOf[s] : BranchesOf[s][i] = b
      BY <1>0, MemberFacts
    <3> QED
      BY ONLY <1>2, <1>3, <1>4, <3>1 DEF HeldInv, Named, Pending
  <2>4. JoinInv'
    BY ONLY <1>4, <1>6 DEF JoinInv
  <2> QED
    BY <2>1, <2>2, <2>3, <2>4 DEF OutInv
<1>9. CoverInv'
  <2> SUFFICES ASSUME NEW t \in Groups, t \notin past.torn, Live(t)', NEW b \in Members(t)
               PROVE  b \in br.pending \/ past.how[b] # ""
    BY <1>3 DEF CoverInv
  <2>1. Live(t)
    BY <1>1, <1>2, <1>3, <1>4, <1>6 DEF Live, Pending, InFlight
  <2> QED
    BY <1>0, <2>1 DEF FanInv, CoverInv
<1>10. VerdictInv'
  <2>1. \A t \in br.summary : Pending(t) = {} /\ (InFlight(t) => (AllSucceeded(t) <=> (rs.lastError = NoText)))
    BY DEF FanInv, VerdictInv
  <2>2. s \in br.summary => todo = {}
    BY <1>0, <2>1, NamedFacts DEF Pending
  <2> QED
    BY <1>1, <1>2, <1>3, <1>4, <1>6, <2>1, <2>2 DEF VerdictInv, InFlight, Pending, AllSucceeded
<1>11. AstrayInv'
  BY <1>0, <1>1, <1>2, <1>3 DEF FanInv, AstrayInv, InFlight, Group
<1> QED
  BY <1>5, <1>7, <1>8, <1>9, <1>10, <1>11 DEF FanInv

-----------------------------------------------------------------------------
(* Branch by branch *)

\* The next branch gets its STEP_ENTER, and is out.
LEMMA NextBranchKeeps == RunInv /\ FanInv /\ NextBranch => FanInv'
<1> SUFFICES ASSUME RunInv, FanInv, NextBranch
             PROVE  FanInv'
  OBVIOUS
<1> DEFINE s == cmd.at.step
<1>0. /\ fan.at = "next" /\ fan.todo # {} /\ s \in Steps /\ s \in Groups /\ cmd.pc = "fan"
      /\ fan.todo \subseteq DOMAIN BranchesOf[s]
      /\ br \in [pending : SUBSET Branch, outcome : [Branch -> {"", "success", "failure"}],
                 summary : SUBSET Groups]
      /\ fan \in Fans /\ fan.enters \in BOOLEAN
  BY AtGroup DEF NextBranch, FanInv, GroupTypes, Fans
<1>1. /\ Position \in fan.todo /\ Position \in DOMAIN BranchesOf[s]
      /\ Current = Named(Position) /\ Current \in Members(s) /\ Current \in Branch
      /\ s \notin br.summary
  BY <1>0, CurrentOut
<1>2. /\ br'.pending = (IF fan.enters THEN br.pending \cup {Current} ELSE br.pending)
      /\ br'.outcome = br.outcome /\ br'.summary = br.summary
      /\ br' \in [pending : SUBSET Branch, outcome : [Branch -> {"", "success", "failure"}],
                  summary : SUBSET Groups]
  BY <1>0, <1>1 DEF NextBranch
<1>3. /\ fan'.at \in {"run", "offer"} /\ fan'.todo = fan.todo /\ fan'.enters = fan.enters
      /\ fan'.print = fan.print /\ fan' \in Fans
  BY <1>0 DEF NextBranch, Fans
<1>4. /\ rs' = rs /\ cmd' = cmd /\ told' = told /\ past' = past
  BY DEF NextBranch, runVars
<1>5. Position' = Position /\ ~Leaving'
  BY <1>0, <1>3, <1>4 DEF Position, Leaving
<1>6. ResolvedInv /\ LeftInv /\ HeldInv
  BY DEF FanInv, OutInv
<1>7. fan.enters => past.how[Current] = ""
  BY ONLY <1>0, <1>1, <1>6 DEF LeftInv, Ahead
<1>8. GroupTypes'
  BY <1>2, <1>3, <1>4 DEF FanInv, GroupTypes
<1>9. Shape'
  BY <1>0, <1>3, <1>4 DEF FanInv, Shape, Group
<1>10. OutInv'
  <2>1. ResolvedInv'
    <3>1. ASSUME NEW b \in br'.pending PROVE past.how[b] = ""
      <4>1. CASE b \in br.pending
        BY ONLY <1>6, <4>1 DEF ResolvedInv
      <4>2. CASE fan.enters /\ b = Current
        BY ONLY <1>7, <4>2
      <4> QED
        BY ONLY <1>2, <3>1, <4>1, <4>2
    <3>2. \A b \in Branch : past.how[b] # "" => br'.outcome[b] = past.how[b]
      BY ONLY <1>2, <1>6 DEF ResolvedInv
    <3> QED
      BY ONLY <1>4, <3>1, <3>2 DEF ResolvedInv
  <2>2. LeftInv'
    <3> SUFFICES ASSUME NEW i \in fan.todo
                 PROVE  IF fan.enters /\ i # Position THEN past.how[BranchesOf[s][i]] = ""
                        ELSE BranchesOf[s][i] \in br'.pending
      BY <1>3, <1>4, <1>5 DEF LeftInv, Ahead, Named
    <3>1. IF fan.enters THEN past.how[BranchesOf[s][i]] = "" ELSE BranchesOf[s][i] \in br.pending
      BY <1>0, <1>6 DEF LeftInv, Ahead, Named
    <3> QED
      BY <1>1, <1>2, <3>1 DEF Named
  <2>3. HeldInv'
    <3> SUFFICES ASSUME NEW b \in br'.pending, b \in Members(s)
                 PROVE  b \in fan.print \/ \E i \in fan.todo : BranchesOf[s][i] = b
      BY <1>3, <1>4 DEF HeldInv, Named, Pending
    <3>1. b \in br.pending \/ b = Current
      BY <1>2
    <3>2. b \in br.pending => b \in fan.print \/ \E i \in fan.todo : BranchesOf[s][i] = b
      BY <1>0, <1>6 DEF HeldInv, Named, Pending
    <3> QED
      BY <1>1, <3>1, <3>2 DEF Named
  <2>4. JoinInv'
    BY ONLY <1>3, <1>5 DEF JoinInv
  <2> QED
    BY <2>1, <2>2, <2>3, <2>4 DEF OutInv
<1>11. CoverInv'
  <2> SUFFICES ASSUME NEW t \in Groups, t \notin past.torn, Live(t)', NEW b \in Members(t)
               PROVE  \/ b \in br'.pending
                      \/ past.how[b] # ""
                      \/ fan'.at # "off" /\ cmd.at.step = t /\ fan'.enters
                           /\ \E i \in fan'.todo : BranchesOf[cmd.at.step][i] = b
    BY <1>4 DEF CoverInv, Named
  <2>1. Live(t)
    <3>1. Current \in Members(t) => t = s
      <4>1. t \in Steps
        BY GroupFacts
      <4> QED
        BY ONLY <1>0, <1>1, <4>1, MemberFacts
    <3> QED
      BY ONLY <1>0, <1>2, <1>3, <1>4, <1>5, <3>1, Live(t)' DEF Live, Pending
  <2>2. \/ b \in br.pending
        \/ past.how[b] # ""
        \/ fan.at # "off" /\ cmd.at.step = t /\ fan.enters /\ \E i \in fan.todo : BranchesOf[cmd.at.step][i] = b
    BY <2>1 DEF FanInv, CoverInv, Named
  <2> QED
    BY ONLY <1>2, <1>3, <2>2
<1>12. VerdictInv'
  <2>1. ASSUME NEW t \in br.summary
        PROVE  /\ t # s /\ Pending(t) = {} /\ Current \notin Members(t)
               /\ InFlight(t) => (AllSucceeded(t) <=> (rs.lastError = NoText))
    <3>1. t \in Steps /\ t # s
      BY <1>0, <1>1, GroupFacts
    <3> QED
      BY <1>0, <1>1, <3>1, MemberFacts DEF FanInv, VerdictInv
  <2>2. ASSUME NEW t \in br.summary
        PROVE  /\ Pending(t)' = {}
               /\ AllSucceeded(t)' <=> AllSucceeded(t)
               /\ InFlight(t)' <=> InFlight(t)
    <3>1. Pending(t)' = {}
      BY <1>2, <2>1 DEF Pending
    <3>2. AllSucceeded(t)' <=> AllSucceeded(t)
      BY <1>2 DEF AllSucceeded
    <3>3. InFlight(t)' <=> InFlight(t)
      BY <1>4 DEF InFlight
    <3> QED
      BY <3>1, <3>2, <3>3
  <2> QED
    BY <1>2, <1>4, <1>5, <2>1, <2>2 DEF VerdictInv
<1>13. AstrayInv'
  <2>1. ~past.astray => ~rs.ended /\ rs.inFlight /\ rs.lastEnter.step = s
    BY <1>0 DEF FanInv, AstrayInv
  <2> QED
    <3> SUFFICES ASSUME ~past.astray
                 PROVE  /\ ~rs.ended /\ rs.inFlight /\ rs.lastEnter.step = s
                        /\ Group(s) /\ br'.pending \subseteq Members(s)
      BY <1>4 DEF AstrayInv, RunBlocked, Group
    <3>1. br.pending \subseteq Members(s)
      BY <2>1 DEF FanInv, AstrayInv
    <3> QED
      BY <1>0, <1>1, <1>2, <2>1, <3>1 DEF Groups
<1> QED
  BY <1>8, <1>9, <1>10, <1>11, <1>12, <1>13 DEF FanInv

\* Steps of the command that are about the branch at hand and leave it out.
LEMMA RunBranchKeeps == RunInv /\ FanInv /\ (RunBranch \/ OfferBranch) => RunInv' /\ FanInv'
<1> SUFFICES ASSUME RunInv, FanInv, RunBranch \/ OfferBranch
             PROVE  RunInv' /\ FanInv'
  OBVIOUS
<1> DEFINE s == cmd.at.step
<1>0. /\ fan.at \in {"run", "offer"} /\ fan.todo # {} /\ s \in Steps /\ cmd.pc = "fan"
      /\ fan.todo \subseteq DOMAIN BranchesOf[s] /\ fan \in Fans /\ fan.enters \in BOOLEAN
  BY AtGroup DEF RunBranch, OfferBranch, FanInv, GroupTypes, Fans, Shape
<1>1. /\ Position \in fan.todo /\ Current = Named(Position) /\ Current \in Branch
      /\ Current \in br.pending /\ s \notin br.summary
  BY <1>0, CurrentOut
<1>2. /\ rs' = rs /\ cmd' = cmd /\ br' = br /\ told' = told /\ past' = past
  BY DEF RunBranch, OfferBranch, runVars
<1>3. /\ fan'.enters = fan.enters /\ fan' \in Fans
      /\ \/ /\ fan.at = "run" /\ fan'.at = "judge" /\ fan'.todo = fan.todo
            /\ fan'.print = fan.print
         \/ /\ fan'.at = "next" /\ fan'.todo = fan.todo \ {Position}
            /\ fan'.print = fan.print \cup {Current}
  <2>1. CASE RunBranch
    BY <1>0, <2>1 DEF RunBranch, Fans
  <2>2. CASE OfferBranch
    BY <1>0, <1>1, <2>2 DEF OfferBranch, Fans
  <2> QED
    BY <2>1, <2>2
<1>4. RunInv'
  <2>1. CASE RunBranch
    <3>1. holds' \in BOOLEAN
      BY <2>1, AtGroup, WorldType DEF RunBranch, Rest
    <3> QED
      BY <2>1, <3>1, AtGroup, RunKeeps DEF RunBranch, Rest
  <2>2. CASE OfferBranch
    BY <2>2, RunKeeps DEF OfferBranch
  <2> QED
    BY <2>1, <2>2
<1>5. ~Leaving' /\ ResolvedInv /\ LeftInv /\ HeldInv
  BY <1>0, <1>2 DEF Leaving, FanInv, OutInv
<1>6. GroupTypes'
  BY <1>2, <1>3 DEF FanInv, GroupTypes
<1>7. Shape'
  BY <1>0, <1>2, <1>3 DEF FanInv, Shape, Group
<1>8. OutInv'
  <2>1. ResolvedInv'
    BY ONLY <1>2, <1>5 DEF ResolvedInv
  <2>2. LeftInv'
    <3>1. fan'.todo = fan.todo => Position' = Position
      BY DEF Position
    <3> QED
      BY ONLY <1>0, <1>1, <1>2, <1>3, <1>5, <3>1 DEF LeftInv, Ahead, Named
  <2>3. HeldInv'
    BY ONLY <1>0, <1>1, <1>2, <1>3, <1>5 DEF HeldInv, Named, Pending
  <2>4. JoinInv'
    BY ONLY <1>3, <1>5 DEF JoinInv
  <2> QED
    BY <2>1, <2>2, <2>3, <2>4 DEF OutInv
<1>9. CoverInv'
  <2> SUFFICES ASSUME NEW t \in Groups, t \notin past.torn, Live(t)', NEW b \in Members(t)
               PROVE  \/ b \in br.pending
                      \/ past.how[b] # ""
                      \/ fan'.at # "off" /\ cmd.at.step = t /\ fan'.enters
                           /\ \E i \in fan'.todo : BranchesOf[cmd.at.step][i] = b
    BY <1>2 DEF CoverInv, Named
  <2>1. Live(t)
    BY ONLY <1>0, <1>2, <1>5, Live(t)' DEF Live, Pending
  <2>2. \/ b \in br.pending
        \/ past.how[b] # ""
        \/ fan.at # "off" /\ cmd.at.step = t /\ fan.enters /\ \E i \in fan.todo : BranchesOf[cmd.at.step][i] = b
    BY <2>1 DEF FanInv, CoverInv, Named
  <2> QED
    BY ONLY <1>1, <1>3, <2>2 DEF Named
<1>10. VerdictInv'
  <2>1. ASSUME NEW t \in br.summary
        PROVE  /\ t # s /\ Pending(t) = {}
               /\ InFlight(t) => (AllSucceeded(t) <=> (rs.lastError = NoText))
    BY <1>1 DEF FanInv, VerdictInv
  <2> QED
    BY ONLY <1>2, <1>5, <2>1 DEF VerdictInv, InFlight, Pending, AllSucceeded
<1>11. AstrayInv'
  BY <1>0, <1>2 DEF FanInv, AstrayInv
<1> QED
  BY <1>4, <1>6, <1>7, <1>8, <1>9, <1>10, <1>11 DEF FanInv

-----------------------------------------------------------------------------
(* A branch resolves *)

\* The branch at hand is out no more, and other groups do not notice.
LEMMA JoinsFacts ==
  ASSUME RunInv, FanInv, fan.at \in {"judge", "offer", "report"},
         NEW outcome \in {"success", "failure"}, Joins(Current, outcome)
  PROVE  /\ Position \in fan.todo /\ Current = Named(Position) /\ Current \in Branch
         /\ Current \in Members(cmd.at.step) /\ cmd.at.step \notin br.summary
         /\ br'.pending = br.pending \ {Current} /\ br'.summary = br.summary
         /\ past'.torn = past.torn /\ past'.astray = past.astray
         /\ past'.how[Current] # "" /\ \A b \in Branch : b # Current => past'.how[b] = past.how[b]
         /\ br' \in [pending : SUBSET Branch, outcome : [Branch -> {"", "success", "failure"}],
                     summary : SUBSET Groups]
         /\ past' \in [how : [Branch -> {"", "success", "failure"}], torn : SUBSET Steps,
                       astray : BOOLEAN]
         /\ ResolvedInv'
         /\ \A t \in br.summary : /\ t # cmd.at.step /\ Pending(t)' = {}
                                  /\ AllSucceeded(t)' <=> AllSucceeded(t)
<1> DEFINE s == cmd.at.step
<1>0. /\ br \in [pending : SUBSET Branch, outcome : [Branch -> {"", "success", "failure"}],
                 summary : SUBSET Groups]
      /\ past \in [how : [Branch -> {"", "success", "failure"}], torn : SUBSET Steps,
                   astray : BOOLEAN]
      /\ fan.todo # {} /\ s \in Steps /\ ResolvedInv /\ br.pending \subseteq Branch
  BY AtGroup DEF FanInv, GroupTypes, Shape, OutInv
<1>1. /\ Position \in fan.todo /\ Current = Named(Position) /\ Current \in Branch
      /\ Current \in Members(s) /\ s \notin br.summary
  BY <1>0, CurrentOut
<1>2. PICK b \in Branch : b = Current
  BY <1>1
<1>3. /\ br' = [br EXCEPT !.pending = @ \ {b}, !.outcome[b] = outcome]
      /\ past' = [past EXCEPT !.how[b] = outcome]
  BY <1>2 DEF Joins
<1>4. /\ br'.pending = br.pending \ {b} /\ br'.summary = br.summary
      /\ br'.outcome = [br.outcome EXCEPT ![b] = outcome]
      /\ br' \in [pending : SUBSET Branch, outcome : [Branch -> {"", "success", "failure"}],
                  summary : SUBSET Groups]
  BY ONLY <1>0, <1>3
<1>5. /\ past'.torn = past.torn /\ past'.astray = past.astray
      /\ past'.how = [past.how EXCEPT ![b] = outcome]
      /\ past' \in [how : [Branch -> {"", "success", "failure"}], torn : SUBSET Steps,
                    astray : BOOLEAN]
  BY ONLY <1>0, <1>3
<1>6. /\ br'.outcome[b] = outcome /\ past'.how[b] = outcome
      /\ \A x \in Branch : x # b => br'.outcome[x] = br.outcome[x] /\ past'.how[x] = past.how[x]
  BY ONLY <1>0, <1>2, <1>4, <1>5
<1>7. ResolvedInv'
  BY ONLY <1>0, <1>4, <1>6 DEF ResolvedInv
<1>8. ASSUME NEW t \in br.summary
      PROVE  /\ t # s /\ Pending(t)' = {}
             /\ AllSucceeded(t)' <=> AllSucceeded(t)
  <2>1. t \in Steps /\ t # s /\ Pending(t) = {}
    BY <1>0, <1>1, GroupFacts DEF FanInv, VerdictInv
  <2>2. ASSUME NEW x \in Members(t)
        PROVE  x \in Branch /\ x # b
    <3>1. x \in Branch /\ (x \in Members(s) => t = s)
      BY <1>0, <2>1, MemberFacts
    <3> QED
      BY <1>1, <1>2, <2>1, <3>1
  <2>3. Pending(t)' = {}
    BY <1>4, <2>1 DEF Pending
  <2>4. AllSucceeded(t)' <=> AllSucceeded(t)
    BY ONLY <1>6, <2>2 DEF AllSucceeded
  <2> QED
    BY <2>1, <2>3, <2>4
<1> QED
  BY <1>1, <1>2, <1>4, <1>5, <1>6, <1>7, <1>8

\* A deterministic branch has run, or an agentic one cannot be dispatched.
LEMMA JudgeBranchKeeps == RunInv /\ FanInv /\ (JudgeBranch \/ BranchUnavailable) => FanInv'
<1> SUFFICES ASSUME RunInv, FanInv, JudgeBranch \/ BranchUnavailable
             PROVE  FanInv'
  OBVIOUS
<1> DEFINE s == cmd.at.step
<1>0. /\ fan.at \in {"judge", "offer"} /\ s \in Steps /\ s \in Groups /\ cmd.pc = "fan"
      /\ fan.todo \subseteq DOMAIN BranchesOf[s] /\ fan \in Fans /\ fan.enters \in BOOLEAN
  BY AtGroup DEF JudgeBranch, BranchUnavailable, FanInv, GroupTypes, Fans
<1>1. PICK outcome \in {"success", "failure"} : Joins(Current, outcome)
  BY DEF JudgeBranch, BranchUnavailable
<1>2. /\ Position \in fan.todo /\ Current = Named(Position) /\ Current \in Branch
      /\ Current \in Members(s) /\ s \notin br.summary
      /\ br'.pending = br.pending \ {Current} /\ br'.summary = br.summary
      /\ past'.torn = past.torn /\ past'.astray = past.astray
      /\ past'.how[Current] # "" /\ \A b \in Branch : b # Current => past'.how[b] = past.how[b]
      /\ br' \in [pending : SUBSET Branch, outcome : [Branch -> {"", "success", "failure"}],
                  summary : SUBSET Groups]
      /\ past' \in [how : [Branch -> {"", "success", "failure"}], torn : SUBSET Steps,
                    astray : BOOLEAN]
      /\ ResolvedInv'
      /\ \A t \in br.summary : /\ t # s /\ Pending(t)' = {}
                               /\ AllSucceeded(t)' <=> AllSucceeded(t)
  BY <1>0, <1>1, JoinsFacts
<1>3. /\ fan'.at = "next" /\ fan'.todo = fan.todo \ {Position} /\ fan'.enters = fan.enters
      /\ fan'.print = fan.print /\ fan' \in Fans
  BY <1>0 DEF JudgeBranch, BranchUnavailable, Done, Fans
<1>4. rs' = rs /\ cmd' = cmd /\ told' = told /\ ~Leaving' /\ LeftInv /\ HeldInv
  BY <1>0 DEF JudgeBranch, BranchUnavailable, runVars, Leaving, FanInv, OutInv
<1>5. GroupTypes' /\ Shape'
  BY <1>0, <1>2, <1>3, <1>4 DEF FanInv, GroupTypes, Shape, Group
<1>6. OutInv'
  <2>1. LeftInv'
    <3> SUFFICES ASSUME NEW i \in fan.todo, i # Position
                 PROVE  IF fan.enters THEN past'.how[BranchesOf[s][i]] = ""
                        ELSE BranchesOf[s][i] \in br'.pending
      BY <1>3, <1>4 DEF LeftInv, Ahead, Named
    <3>1. BranchesOf[s][i] # Current /\ BranchesOf[s][i] \in Branch
      BY <1>0, <1>2, NamedFacts DEF Named
    <3>2. IF fan.enters THEN past.how[BranchesOf[s][i]] = "" ELSE BranchesOf[s][i] \in br.pending
      BY <1>0, <1>4 DEF LeftInv, Ahead, Named
    <3> QED
      BY <1>2, <3>1, <3>2
  <2>2. HeldInv'
    <3> SUFFICES ASSUME NEW b \in br'.pending, b \in Members(s)
                 PROVE  b \in fan.print \/ \E i \in fan.todo \ {Position} : BranchesOf[s][i] = b
      BY <1>3, <1>4 DEF HeldInv, Named, Pending
    <3>1. b \in br.pending /\ b # Named(Position)
      BY <1>2
    <3>2. b \in fan.print \/ \E i \in fan.todo : BranchesOf[s][i] = b
      BY <1>0, <1>4, <3>1 DEF HeldInv, Named, Pending
    <3> QED
      BY <3>1, <3>2 DEF Named
  <2>3. JoinInv'
    BY ONLY <1>3, <1>4 DEF JoinInv
  <2> QED
    BY <1>2, <2>1, <2>2, <2>3 DEF OutInv
<1>7. CoverInv'
  <2> SUFFICES ASSUME NEW t \in Groups, t \notin past'.torn, Live(t)', NEW b \in Members(t)
               PROVE  \/ b \in br'.pending
                      \/ past'.how[b] # ""
                      \/ /\ fan'.at # "off" /\ cmd'.at.step = t /\ fan'.enters
                         /\ \E i \in fan'.todo : BranchesOf[cmd'.at.step][i] = b
    BY DEF CoverInv, Named
  <2>0. t \notin past.torn /\ cmd'.at.step = cmd.at.step
    BY <1>2, <1>4
  <2>1. Live(t)
    BY ONLY <1>0, <1>2, <1>4, Live(t)' DEF Live, Pending
  <2>2. \/ b \in br.pending
        \/ past.how[b] # ""
        \/ fan.at # "off" /\ cmd.at.step = t /\ fan.enters /\ \E i \in fan.todo : BranchesOf[cmd.at.step][i] = b
    BY <2>0, <2>1 DEF FanInv, CoverInv, Named
  <2>3. b \in Branch
    BY GroupFacts, MemberFacts
  <2>4. CASE b = Current
    BY <1>2, <2>4
  <2>5. CASE b # Current
    BY ONLY <1>2, <1>3, <2>0, <2>2, <2>3, <2>5 DEF Named
  <2> QED
    BY <2>4, <2>5
<1>8. VerdictInv'
  <2>1. ASSUME NEW t \in br.summary
        PROVE  /\ InFlight(t) => (AllSucceeded(t) <=> (rs.lastError = NoText))
               /\ InFlight(t)' <=> InFlight(t)
    BY <1>4 DEF FanInv, VerdictInv, InFlight
  <2> QED
    BY <1>2, <1>4, <2>1 DEF VerdictInv
<1>9. AstrayInv'
  BY <1>0, <1>2, <1>4 DEF FanInv, AstrayInv
<1> QED
  BY <1>5, <1>6, <1>7, <1>8, <1>9 DEF FanInv

-----------------------------------------------------------------------------
(* Out of the command, and back *)

\* The dispatch is printed, or all branches have resolved.
LEMMA FanOutKeeps == RunInv /\ FanInv /\ FanOut => RunInv' /\ FanInv'
<1> SUFFICES ASSUME RunInv, FanInv, FanOut
             PROVE  RunInv' /\ FanInv'
  OBVIOUS
<1> DEFINE s == cmd.at.step
<1>0. /\ fan.at = "next" /\ fan.todo = {} /\ s \in Steps /\ s \in Groups /\ cmd.pc = "fan"
      /\ fan \in Fans /\ fan.print \subseteq Branch /\ told \subseteq Branch /\ rs.started
      /\ cmd \in Commands /\ rs \in Runs /\ ~RunTerminal(rs) /\ NoFan \in Fans /\ Rest
  BY AtGroup DEF FanOut, FanInv, GroupTypes, Fans, NoFan
<1>1. /\ rs' = rs /\ br' = br /\ past' = past /\ hist' = hist /\ leaving' = leaving /\ Rest'
      /\ told' \subseteq Branch
  BY <1>0 DEF FanOut, Rest
<1>2. \/ cmd' = Idle /\ cmd'.pc = "idle" /\ fan' = NoFan /\ fan'.at = "off"
      \/ /\ cmd' = cmd /\ fan.print = {} /\ fan'.at = "join" /\ fan'.todo = {} /\ fan' \in Fans
         /\ fan'.enters = fan.enters
  BY <1>0, PCs DEF FanOut, NoFan, Fans
<1>3. RunInv'
  <2>1. CASE cmd' = Idle
    <3>1. cmd' \in Commands
      BY <2>1, CommandType, AtGroup
    <3> QED
      BY <1>0, <1>1, <2>1, <3>1, AloneKeeps DEF Kept
  <2>2. CASE cmd' = cmd
    BY <1>1, <2>2, RunKeeps
  <2> QED
    BY <1>2, <2>1, <2>2
<1>4. ~Leaving' /\ OutInv
  BY <1>0, <1>2 DEF Leaving, FanInv
<1>5. GroupTypes' /\ Shape'
  BY <1>0, <1>1, <1>2 DEF FanInv, GroupTypes, Shape, Group
<1>6. OutInv'
  <2>1. ResolvedInv' /\ LeftInv' /\ HeldInv'
    BY <1>1, <1>2, <1>4 DEF OutInv, ResolvedInv, LeftInv, HeldInv
  <2>2. Pending(s) = {} \/ fan'.at # "join"
    BY <1>0, <1>2, <1>4 DEF OutInv, HeldInv
  <2>3. JoinInv'
    BY <1>1, <1>2, <1>4, <2>2 DEF JoinInv, Pending
  <2> QED
    BY <2>1, <2>3 DEF OutInv
<1>7. CoverInv'
  <2> SUFFICES ASSUME NEW t \in Groups, t \notin past.torn, Live(t)', NEW b \in Members(t)
               PROVE  b \in br.pending \/ past.how[b] # ""
    BY <1>1 DEF CoverInv
  <2>1. Live(t)
    BY ONLY <1>0, <1>1, <1>2, <1>4, Live(t)' DEF Live, Pending
  <2> QED
    BY <1>0, <2>1 DEF FanInv, CoverInv
<1>8. VerdictInv'
  <2>1. ASSUME NEW t \in br.summary
        PROVE  /\ InFlight(t) => (AllSucceeded(t) <=> (rs.lastError = NoText))
               /\ Pending(t) = {} /\ (s = t => InFlight(t))
               /\ InFlight(t)' <=> InFlight(t)
               /\ AllSucceeded(t)' <=> AllSucceeded(t)
               /\ Pending(t)' = Pending(t)
    <3>1. /\ InFlight(t) => (AllSucceeded(t) <=> (rs.lastError = NoText))
          /\ Pending(t) = {} /\ (s = t => InFlight(t))
      BY <1>0 DEF FanInv, VerdictInv
    <3>2. InFlight(t)' <=> InFlight(t)
      BY <1>1 DEF InFlight
    <3>3. (AllSucceeded(t)' <=> AllSucceeded(t)) /\ Pending(t)' = Pending(t)
      BY <1>1 DEF AllSucceeded, Pending
    <3> QED
      BY <3>1, <3>2, <3>3
  <2> QED
    BY ONLY <1>1, <1>2, <1>4, <2>1 DEF VerdictInv
<1>9. AstrayInv'
  BY <1>0, <1>1, <1>2 DEF FanInv, AstrayInv
<1> QED
  BY <1>3, <1>5, <1>6, <1>7, <1>8, <1>9 DEF FanInv

\* A report is accepted for a branch that is out.
LEMMA SubmitBranchKeeps ==
  ASSUME NEW b \in Branch
  PROVE  RunInv /\ FanInv /\ SubmitBranch(b) => RunInv' /\ FanInv'
<1> SUFFICES ASSUME RunInv, FanInv, SubmitBranch(b)
             PROVE  RunInv' /\ FanInv'
  OBVIOUS
<1> DEFINE s == Cursor(rs).step
           todo == {i \in DOMAIN BranchesOf[s] : BranchesOf[s][i] = b}
<1>0. /\ cmd = Idle /\ cmd.pc = "idle" /\ fan.at = "off" /\ s \in Steps /\ s \in Groups
      /\ Kind[s] = "parallel" /\ rs.started /\ ~RunTerminal(rs) /\ b \in br.pending
      /\ b \in Members(s) /\ rs \in Runs /\ cmd.at \in Cursors /\ IInv /\ Cursor(rs) \in Cursors
  BY AtGroup, GroupFacts, PCs, Known
     DEF SubmitBranch, Group, Groups, Pending, FanInv, Shape, RunInv
<1>1. PICK j \in todo : todo = {j}
  <2>1. \E i \in DOMAIN BranchesOf[s] : BranchesOf[s][i] = b
    BY <1>0, MemberFacts
  <2>2. ASSUME NEW i \in todo, NEW k \in todo
        PROVE  i = k
    BY <1>0, NamedFacts
  <2> QED
    BY <2>1, <2>2
<1>2. /\ cmd' \in Commands /\ cmd'.pc = "fan" /\ cmd'.at = Cursor(rs)
  BY <1>0, CommandType DEF SubmitBranch
<1>3. /\ rs' = rs /\ hist' = hist /\ br' = br /\ told' = told /\ past' = past /\ Rest'
  <2>1. holds' \in BOOLEAN
    BY AtGroup, WorldType DEF SubmitBranch, Rest
  <2> QED
    BY <2>1, AtGroup DEF SubmitBranch, Rest
<1>4. /\ fan'.at = "report" /\ fan'.todo = todo /\ fan'.enters = FALSE /\ fan' \in Fans
  <2>1. fan' = [NoFan EXCEPT !.at = "report", !.todo = todo]
    BY DEF SubmitBranch
  <2> QED
    BY <1>0, <2>1, FanType DEF NoFan
<1>5. RunInv'
  BY <1>0, <1>2, <1>3, AloneKeeps DEF Kept
<1>6. ~Leaving'
  BY <1>2 DEF Leaving
<1>7. GroupTypes'
  BY <1>3, <1>4 DEF FanInv, GroupTypes
<1>8. Shape'
  <2>1. todo \subseteq DOMAIN BranchesOf[s] /\ todo # {} /\ \E i \in todo : todo = {i}
    BY <1>1
  <2> QED
    BY ONLY <1>0, <1>2, <1>4, <2>1 DEF Shape, Groups, Group
<1>9. OutInv'
  <2>1. ResolvedInv'
    BY <1>3 DEF FanInv, OutInv, ResolvedInv
  <2>2. LeftInv'
    BY ONLY <1>0, <1>2, <1>3, <1>4 DEF LeftInv, Ahead, Named
  <2>3. HeldInv' /\ JoinInv'
    BY ONLY <1>4, <1>6 DEF HeldInv, JoinInv
  <2> QED
    BY <2>1, <2>2, <2>3 DEF OutInv
<1>10. CoverInv'
  <2> SUFFICES ASSUME NEW t \in Groups, t \notin past.torn, Live(t)', NEW x \in Members(t)
               PROVE  x \in br.pending \/ past.how[x] # ""
    BY <1>3 DEF CoverInv
  <2>1. Live(t)
    BY <1>0, <1>2, <1>3, <1>4, <1>6 DEF Live, Pending
  <2> QED
    BY <1>0, <2>1 DEF FanInv, CoverInv
<1>11. VerdictInv'
  <2>1. \A t \in br.summary :
          /\ Pending(t) = {} /\ t # s
          /\ InFlight(t) => (AllSucceeded(t) <=> (rs.lastError = NoText))
    BY <1>0 DEF FanInv, VerdictInv, Pending
  <2> QED
    BY ONLY <1>2, <1>3, <1>4, <1>6, <2>1 DEF VerdictInv, InFlight, Pending, AllSucceeded
<1>12. AstrayInv'
  <2> SUFFICES ASSUME ~past.astray
               PROVE  /\ ~rs.ended /\ rs.inFlight /\ rs.lastEnter.step = s
    BY <1>2, <1>3 DEF FanInv, AstrayInv
  <2>1. rs.inFlight /\ ~RunBlocked(rs)
    BY <1>0 DEF FanInv, AstrayInv
  <2>2. ~rs.ended /\ ~rs.left
    BY <1>0, <2>1 DEF RunBlocked, RunTerminal, IInv, EntryInv
  <2> QED
    BY <2>1, <2>2, CursorStep
<1> QED
  BY <1>5, <1>7, <1>8, <1>9, <1>10, <1>11, <1>12 DEF FanInv

\* The report is recorded, and the last one joins.
LEMMA ReportBranchKeeps == RunInv /\ FanInv /\ ReportBranch => RunInv' /\ FanInv'
<1> SUFFICES ASSUME RunInv, FanInv, ReportBranch
             PROVE  RunInv' /\ FanInv'
  OBVIOUS
<1> DEFINE s == cmd.at.step
<1>0. /\ fan.at = "report" /\ ~fan.enters /\ s \in Steps /\ s \in Groups /\ cmd.pc = "fan"
      /\ fan.todo \subseteq DOMAIN BranchesOf[s] /\ fan \in Fans /\ fan.enters \in BOOLEAN
      /\ rs.started /\ rs \in Runs /\ ~RunTerminal(rs) /\ NoFan \in Fans
  BY AtGroup DEF ReportBranch, FanInv, GroupTypes, Shape, Fans, NoFan
<1>1. PICK outcome \in {"success", "failure"} : Joins(Current, outcome)
  BY DEF ReportBranch
<1>2. /\ Current \in Members(s) /\ s \notin br.summary
      /\ br'.pending = br.pending \ {Current} /\ br'.summary = br.summary
      /\ past'.torn = past.torn /\ past'.astray = past.astray
      /\ past'.how[Current] # "" /\ \A b \in Branch : b # Current => past'.how[b] = past.how[b]
      /\ br' \in [pending : SUBSET Branch, outcome : [Branch -> {"", "success", "failure"}],
                  summary : SUBSET Groups]
      /\ past' \in [how : [Branch -> {"", "success", "failure"}], torn : SUBSET Steps,
                    astray : BOOLEAN]
      /\ ResolvedInv'
      /\ \A t \in br.summary : /\ t # s /\ Pending(t)' = {}
                               /\ AllSucceeded(t)' <=> AllSucceeded(t)
  BY <1>0, <1>1, JoinsFacts
<1>3. \/ cmd' = Idle /\ cmd'.pc = "idle" /\ fan' = NoFan /\ fan'.at = "off"
      \/ /\ cmd' = cmd /\ Pending(s) = {Current} /\ fan'.at = "join" /\ fan'.todo = fan.todo
         /\ fan'.enters = FALSE /\ fan' \in Fans
  BY <1>0, PCs DEF ReportBranch, NoFan, Fans
<1>4. /\ rs' = rs /\ told' = told /\ hist' = hist /\ leaving' = leaving /\ Rest'
  BY AtGroup DEF ReportBranch, Rest
<1>5. ~Leaving'
  BY <1>0, <1>3 DEF Leaving
<1>6. RunInv'
  <2>1. CASE cmd' = Idle
    <3>1. cmd' \in Commands
      BY <2>1, CommandType, AtGroup
    <3> QED
      BY <1>0, <1>4, <2>1, <3>1, AloneKeeps DEF Kept
  <2>2. CASE cmd' = cmd
    BY <1>4, <2>2, RunKeeps
  <2> QED
    BY <1>3, <2>1, <2>2
<1>7. GroupTypes' /\ Shape'
  BY <1>0, <1>2, <1>3, <1>4 DEF FanInv, GroupTypes, Shape, Group
<1>8. OutInv'
  <2>1. LeftInv' /\ HeldInv'
    BY ONLY <1>3 DEF LeftInv, HeldInv
  <2>2. JoinInv'
    BY <1>2, <1>3, <1>5 DEF JoinInv, Pending
  <2> QED
    BY <1>2, <2>1, <2>2 DEF OutInv
<1>9. CoverInv'
  <2> SUFFICES ASSUME NEW t \in Groups, t \notin past'.torn, Live(t)', NEW b \in Members(t)
               PROVE  b \in br'.pending \/ past'.how[b] # ""
    BY DEF CoverInv
  <2>1. Live(t)
    BY ONLY <1>0, <1>2, <1>3, <1>4, <1>5, Live(t)' DEF Live, Pending
  <2>2. b \in br.pending \/ past.how[b] # ""
    BY <1>0, <1>2, <2>1 DEF FanInv, CoverInv
  <2>3. b \in Branch
    BY GroupFacts, MemberFacts
  <2> QED
    BY ONLY <1>2, <2>2, <2>3
<1>10. VerdictInv'
  <2>1. ASSUME NEW t \in br.summary
        PROVE  /\ InFlight(t) => (AllSucceeded(t) <=> (rs.lastError = NoText))
               /\ InFlight(t)' <=> InFlight(t)
    BY <1>4 DEF FanInv, VerdictInv, InFlight
  <2> QED
    BY <1>2, <1>3, <1>4, <1>5, <2>1 DEF VerdictInv
<1>11. AstrayInv'
  BY <1>0, <1>2, <1>3, <1>4 DEF FanInv, AstrayInv
<1> QED
  BY <1>6, <1>7, <1>8, <1>9, <1>10, <1>11 DEF FanInv

\* A Summary changes the error and nothing else.
LEMMA SummaryFacts ==
  ASSUME NEW r \in Runs, NEW ok \in BOOLEAN
  PROVE  LET q == AfterSummary(r, ok)
         IN  /\ q \in Runs /\ Kept(q, r) /\ q.lastEnter = r.lastEnter
             /\ q.lastTarget = r.lastTarget /\ q.left = r.left /\ q.inFlight = r.inFlight
             /\ q.lastError = IF ok THEN NoText ELSE Diagnostic
<1> DEFINE err == IF ok THEN NoText ELSE Diagnostic
           q == [r EXCEPT !.lastError = err]
<1>1. err \in Errors
  BY DEF Errors
<1> HIDE DEF err
<1>2. q \in Runs /\ Kept(q, r) /\ q.lastEnter = r.lastEnter
      /\ q.lastTarget = r.lastTarget /\ q.left = r.left /\ q.inFlight = r.inFlight
      /\ q.lastError = err
  BY <1>1 DEF Runs, Kept, Errors
<1>3. q = AfterSummary(r, ok)
  BY DEF AfterSummary, err
<1> HIDE DEF q
<1> QED
  BY <1>2, <1>3 DEF err

\* The group is judged, and the error made to fit.
LEMMA JoinKeeps == RunInv /\ FanInv /\ Join => RunInv' /\ FanInv'
<1> SUFFICES ASSUME RunInv, FanInv, Join
             PROVE  RunInv' /\ FanInv'
  OBVIOUS
<1>s. PICK s \in Groups : s = cmd.at.step
  BY AtGroup DEF Join
<1>0. /\ fan.at = "join" /\ s \in Steps /\ s \in Groups /\ cmd.pc = "fan" /\ cmd.at \in Cursors
      /\ (fan.todo = {} \/ ~fan.enters) /\ rs.started /\ rs \in Runs /\ ~RunTerminal(rs)
      /\ NoFan \in Fans /\ Kind[s] = "parallel" /\ Pending(s) = {} /\ "success" \in Emits[s]
      /\ br \in [pending : SUBSET Branch, outcome : [Branch -> {"", "success", "failure"}],
                 summary : SUBSET Groups]
  BY <1>s, AtGroup, GroupFacts DEF Join, FanInv, GroupTypes, Shape, Fans, NoFan, OutInv, JoinInv
<1>1. /\ rs' = AfterSummary(rs, AllSucceeded(s)) \/ rs' = rs
      /\ br' = [br EXCEPT !.summary = @ \cup {s}] \/ br' = br
      /\ \/ rs' = AfterSummary(rs, AllSucceeded(s))
         \/ rs' = rs /\ IF AllSucceeded(s) THEN rs.lastError = NoText ELSE s \in br.summary
      /\ fan' = NoFan /\ told' = told /\ past' = past /\ hist' = hist /\ leaving' = leaving /\ Rest'
  <2> DEFINE speaks == IF AllSucceeded(s) THEN rs.lastError # NoText ELSE s \notin br.summary
  <2>1. /\ rs' = IF speaks THEN AfterSummary(rs, AllSucceeded(s)) ELSE rs
        /\ br' = IF speaks THEN [br EXCEPT !.summary = @ \cup {s}] ELSE br
    BY <1>s DEF Join
  <2>2. /\ fan' = NoFan /\ told' = told /\ past' = past /\ hist' = hist /\ leaving' = leaving
        /\ Rest'
    BY AtGroup DEF Join, untouched, Rest
  <2>3. speaks \/ IF AllSucceeded(s) THEN rs.lastError = NoText ELSE s \in br.summary
    OBVIOUS
  <2> HIDE DEF speaks
  <2>4. CASE speaks
    BY <2>1, <2>2, <2>4
  <2>5. CASE ~speaks
    BY <2>1, <2>2, <2>3, <2>5
  <2> QED
    BY <2>4, <2>5
<1>2. /\ rs' \in Runs /\ Kept(rs', rs) /\ rs'.lastEnter = rs.lastEnter
      /\ rs'.lastTarget = rs.lastTarget /\ rs'.left = rs.left /\ rs'.inFlight = rs.inFlight
  <2>1. AllSucceeded(s) \in BOOLEAN
    BY DEF AllSucceeded
  <2>2. CASE rs' = rs
    BY <1>0, <2>2 DEF Kept
  <2>3. CASE rs' = AfterSummary(rs, AllSucceeded(s))
    BY <1>0, <2>1, <2>3, SummaryFacts
  <2> QED
    BY <1>1, <2>2, <2>3
<1>3. (rs'.lastError = NoText) <=> AllSucceeded(s)
  <2>1. AllSucceeded(s) \in BOOLEAN /\ NoText # Diagnostic
    BY DEF AllSucceeded, NoText, Diagnostic
  <2>2. CASE rs' = AfterSummary(rs, AllSucceeded(s))
    BY <1>0, <2>1, <2>2, SummaryFacts
  <2>3. CASE rs' # AfterSummary(rs, AllSucceeded(s))
    <3>1. s \in br.summary => (AllSucceeded(s) <=> (rs.lastError = NoText))
      BY <1>s, <1>0 DEF FanInv, VerdictInv
    <3> QED
      BY ONLY <1>1, <2>3, <3>1
  <2> QED
    BY <2>2, <2>3
<1>4. /\ br'.pending = br.pending /\ br'.outcome = br.outcome
      /\ br.summary \subseteq br'.summary /\ br'.summary \subseteq br.summary \cup {s}
      /\ br' \in [pending : SUBSET Branch, outcome : [Branch -> {"", "success", "failure"}],
                  summary : SUBSET Groups]
  <2>1. br' = br \/ (br' = [br EXCEPT !.summary = @ \cup {s}] /\ br.summary \cup {s} \in SUBSET Groups)
    BY <1>0, <1>1
  <2> QED
    BY ONLY <1>0, <2>1
<1>5. /\ cmd' \in Commands /\ cmd'.at = cmd.at /\ cmd'.pc = "route" /\ cmd'.gate = TRUE
      /\ (cmd'.outcome = "success") <=> AllSucceeded(s)
  <2>1. PICK outcome \in {"success", "failure"} :
          cmd' = Resolved(cmd.at, outcome, TRUE) /\ ((outcome = "success") <=> AllSucceeded(s))
    BY <1>s DEF Join
  <2>2. "success" \in Producible(s) /\ "failure" \in Producible(s)
    BY <1>0 DEF Producible
  <2>3. outcome \in Words
    <3>1. \A x \in Producible(s) : x \in Words
      BY ONLY <1>0 DEF Words
    <3> QED
      BY ONLY <2>1, <2>2, <3>1
  <2>4. cmd' \in Commands /\ cmd'.at = cmd.at
    <3>1. PICK c \in Cursors : c = cmd.at
      BY <1>0
    <3>2. Resolved(c, outcome, TRUE) \in Commands /\ Resolved(c, outcome, TRUE).at = c
      BY ONLY <2>3, CommandType
    <3> QED
      BY ONLY <2>1, <3>1, <3>2
  <2>5. cmd'.pc = "route" /\ cmd'.gate = TRUE /\ cmd'.outcome = outcome
    BY <2>1 DEF Resolved, AtPC, Idle
  <2> QED
    BY <2>1, <2>4, <2>5
<1>6. fan'.at = "off" /\ fan' \in Fans
  BY <1>0, <1>1 DEF NoFan
<1>7. RunInv'
  BY <1>s, <1>0, <1>1, <1>2, <1>5, AloneKeeps
<1>8. GroupTypes' /\ Shape'
  BY <1>s, <1>0, <1>1, <1>4, <1>5, <1>6 DEF FanInv, GroupTypes, Shape
<1>9. OutInv'
  <2>1. ResolvedInv'
    BY <1>1, <1>4 DEF FanInv, OutInv, ResolvedInv
  <2>2. LeftInv' /\ HeldInv'
    BY ONLY <1>6 DEF LeftInv, HeldInv
  <2>3. JoinInv'
    BY ONLY <1>s, <1>0, <1>4, <1>5 DEF JoinInv, Pending
  <2> QED
    BY <2>1, <2>2, <2>3 DEF OutInv
<1>10. CoverInv'
  <2> SUFFICES ASSUME NEW t \in Groups, t \notin past'.torn, Live(t)', NEW b \in Members(t)
               PROVE  b \in br'.pending \/ past'.how[b] # ""
    BY DEF CoverInv
  <2>1. Live(t)
    BY ONLY <1>s, <1>0, <1>2, <1>4, <1>5, <1>6, Live(t)' DEF Live, Pending, Leaving
  <2>2. b \in br.pending \/ past.how[b] # ""
    BY <1>0, <1>1, <2>1 DEF FanInv, CoverInv
  <2> QED
    BY ONLY <1>1, <1>4, <2>2
<1>11. VerdictInv'
  <2>1. AllSucceeded(s)' <=> AllSucceeded(s)
    BY <1>4 DEF AllSucceeded
  <2>2. cmd'.at.step = s
    BY <1>s, <1>5
  <2>3. ASSUME NEW t \in br'.summary
        PROVE  /\ Pending(t)' = {}
               /\ InFlight(t)' => (AllSucceeded(t)' <=> (rs'.lastError = NoText))
    <3>1. Pending(t)' = {}
      BY <1>0, <1>4, <2>3 DEF FanInv, VerdictInv, Pending
    <3>2. InFlight(t)' => t = s
      BY <1>s, <1>0, <1>2 DEF InFlight, Kept, RunInv, WhereInv
    <3> QED
      BY <1>3, <2>1, <3>1, <3>2
  <2> QED
    BY ONLY <1>3, <1>5, <1>6, <2>1, <2>2, <2>3 DEF VerdictInv
<1>12. AstrayInv'
  <2>1. RunBlocked(rs') = RunBlocked(rs) /\ rs'.ended = rs.ended
    BY <1>2 DEF RunBlocked, Kept
  <2> QED
    BY <1>0, <1>1, <1>2, <1>4, <1>5, <1>6, <2>1 DEF FanInv, AstrayInv, Group
<1> QED
  BY <1>7, <1>8, <1>9, <1>10, <1>11, <1>12 DEF FanInv

\* A crash leaves the group to a resume; what was ahead is torn.
LEMMA CrashInGroupKeeps == RunInv /\ FanInv /\ CrashInGroup => RunInv' /\ FanInv'
<1> SUFFICES ASSUME RunInv, FanInv, CrashInGroup
             PROVE  RunInv' /\ FanInv'
  OBVIOUS
<1>1. RunInv'
  BY RunKeeps DEF CrashInGroup, Next, RunStep
<1>2. /\ rs' = rs /\ cmd' = Idle /\ cmd'.pc = "idle" /\ fan' = NoFan /\ fan'.at = "off"
      /\ br' = br /\ told' = told /\ NoFan \in Fans
  BY PCs DEF CrashInGroup, Crash, NoFan, Fans
<1>3. /\ past'.how = past.how /\ past'.astray = past.astray /\ past.torn \subseteq past'.torn
      /\ fan.at # "off" /\ Unentered => cmd.at.step \in past'.torn
      /\ past' \in [how : [Branch -> {"", "success", "failure"}], torn : SUBSET Steps,
                    astray : BOOLEAN]
  <2>1. /\ past \in [how : [Branch -> {"", "success", "failure"}], torn : SUBSET Steps,
                     astray : BOOLEAN]
        /\ fan.at # "off" => cmd.at.step \in Steps
    BY AtGroup DEF FanInv, GroupTypes
  <2>2. CASE fan.at # "off" /\ Unentered
    <3>1. past' = [past EXCEPT !.torn = @ \cup {cmd.at.step}]
      BY <2>2 DEF CrashInGroup
    <3>2. past.torn \cup {cmd.at.step} \in SUBSET Steps
      BY <2>1, <2>2
    <3> QED
      BY ONLY <2>1, <3>1, <3>2
  <2>3. CASE ~(fan.at # "off" /\ Unentered)
    BY <2>1, <2>3 DEF CrashInGroup
  <2> QED
    BY <2>2, <2>3
<1>4. ~Leaving'
  BY <1>2 DEF Leaving
<1>5. GroupTypes' /\ Shape'
  BY <1>2, <1>3 DEF FanInv, GroupTypes, Shape
<1>6. OutInv'
  <2>1. ResolvedInv'
    BY <1>2, <1>3 DEF FanInv, OutInv, ResolvedInv
  <2>2. LeftInv' /\ HeldInv' /\ JoinInv'
    BY ONLY <1>2, <1>4 DEF LeftInv, HeldInv, JoinInv
  <2> QED
    BY <2>1, <2>2 DEF OutInv
<1>7. CoverInv'
  <2> SUFFICES ASSUME NEW t \in Groups, t \notin past'.torn, Live(t)', NEW b \in Members(t)
               PROVE  b \in br'.pending \/ past'.how[b] # ""
    BY DEF CoverInv
  <2>1. Live(t) /\ t \notin past.torn
    BY ONLY <1>2, <1>3, <1>4, t \notin past'.torn, Live(t)' DEF Live, Pending
  <2>2. \/ b \in br.pending
        \/ past.how[b] # ""
        \/ fan.at # "off" /\ cmd.at.step = t /\ fan.enters /\ \E i \in fan.todo : Named(i) = b
    BY <2>1 DEF FanInv, CoverInv
  <2>3. ASSUME NEW i \in fan.todo, fan.at # "off", cmd.at.step = t, fan.enters, Named(i) = b
        PROVE  b \in br.pending
    <3>1. ~Unentered /\ fan.at # "join"
      BY <1>3, <2>3 DEF FanInv, Shape
    <3>2. ~Ahead(i)
      BY <2>3, <3>1 DEF Unentered, Ahead
    <3> QED
      BY <2>3, <3>1, <3>2 DEF FanInv, OutInv, LeftInv
  <2> QED
    BY <1>2, <1>3, <2>2, <2>3
<1>8. VerdictInv'
  <2>1. ASSUME NEW t \in br.summary
        PROVE  Pending(t) = {} /\ (InFlight(t) => (AllSucceeded(t) <=> (rs.lastError = NoText)))
    BY DEF FanInv, VerdictInv
  <2> QED
    BY ONLY <1>2, <1>4, <2>1 DEF VerdictInv, InFlight, Pending, AllSucceeded
<1>9. AstrayInv'
  BY <1>2, <1>3 DEF FanInv, AstrayInv, Group
<1> QED
  BY <1>1, <1>5, <1>6, <1>7, <1>8, <1>9 DEF FanInv

-----------------------------------------------------------------------------
(* The invariant *)

\* What is not the business of a group is a step of the engine beside it.
LEMMA ElsewhereKeeps == RunInv /\ FanInv /\ (Elsewhere \/ SubmitStep) => RunInv' /\ FanInv'
<1> SUFFICES ASSUME RunInv, FanInv, Elsewhere \/ SubmitStep
             PROVE  RunInv' /\ FanInv'
  OBVIOUS
<1>0. past \in [how : [Branch -> {"", "success", "failure"}], torn : SUBSET Steps,
                astray : BOOLEAN]
  BY DEF FanInv, GroupTypes
<1>1. Next /\ BesideStep(Groups)
  BY DEF Elsewhere, SubmitStep, BesideStep, Next, RunStep, LoopStep, Groups
<1>2. CASE SubmitStep
  <2>1. /\ past'.how = past.how /\ past'.torn = past.torn
        /\ past'.astray <=> past.astray \/ RunBlocked(rs)
        /\ past' \in [how : [Branch -> {"", "success", "failure"}], torn : SUBSET Steps,
                      astray : BOOLEAN]
    <3> DEFINE astray == past.astray \/ RunBlocked(rs)
    <3>1. past' = [past EXCEPT !.astray = astray] /\ astray \in BOOLEAN
      BY <1>2 DEF SubmitStep
    <3> HIDE DEF astray
    <3>2. /\ past'.how = past.how /\ past'.torn = past.torn /\ past'.astray = astray
          /\ past' \in [how : [Branch -> {"", "success", "failure"}], torn : SUBSET Steps,
                        astray : BOOLEAN]
      BY ONLY <1>0, <3>1
    <3> QED
      BY <3>2 DEF astray
  <2>2. ~past'.astray => ~past.astray /\ ~rs.ended
    BY <1>2, <2>1 DEF SubmitStep, Submit, RunBlocked, RunTerminal
  <2> QED
    BY <1>1, <1>2, <2>1, <2>2, BesideGroups, RunKeeps DEF SubmitStep
<1>3. CASE Elsewhere
  <2>1. ~Submit
    <3> SUFFICES ASSUME Submit
                 PROVE  FALSE
      OBVIOUS
    <3>1. cmd = Idle /\ cmd.pc = "idle" /\ cmd'.pc = "judge" /\ IInv
      BY PCs DEF Submit, AtPC, Idle, RunInv
    <3>2. ~Start /\ ~Resume /\ ~AbandonEnds /\ ~AbandonLooks /\ ~Over
      <4>1. ~Start
        BY <3>1, StartFacts
      <4>2. ~Resume
        BY <3>1, ResumeFacts, PCs
      <4>3. cmd' # cmd
        BY <3>1
      <4>4. ~AbandonEnds /\ ~AbandonLooks /\ ~Over
        BY <4>3 DEF AbandonEnds, AbandonLooks, Over, runVars
      <4> QED
        BY <4>1, <4>2, <4>4
    <3>3. ~EnterCapped /\ ~EnterStep /\ ~InvariantBlocks /\ ~Transition /\ ~End
      BY <3>1 DEF EnterCapped, EnterStep, InvariantBlocks, Transition, End
    <3>4. ~BodyStep
      BY <3>1 DEF BodyStep, RunBody, HardFails, PrintsFailure, HardRetry, Dispatch,
                  ContextUnavailable, Passes, Fails, FailsCapped, FailsFinally, Reenter, Judging
    <3> QED
      BY <1>3, <3>2, <3>3, <3>4 DEF Elsewhere
  <2>2. br' = br /\ fan' = fan /\ told' = told /\ past' = past
    BY <1>3 DEF Elsewhere, groupVars
  <2> QED
    BY <1>0, <1>1, <2>1, <2>2, BesideGroups, RunKeeps
<1> QED
  BY <1>2, <1>3

\* Every step keeps the invariant.
LEMMA BranchesInvStep == GInv /\ [BranchesNext]_branchVars => GInv'
<1> SUFFICES ASSUME RunInv, FanInv, [BranchesNext]_branchVars
             PROVE  RunInv' /\ FanInv'
  BY DEF GInv
<1>1. CASE UNCHANGED branchVars
  <2>0. /\ UNCHANGED runVars /\ rs' = rs /\ cmd' = cmd /\ br' = br /\ fan' = fan /\ told' = told
        /\ past' = past
    BY <1>1 DEF branchVars, groupVars, runVars
  <2>1. RunInv'
    BY <2>0, RunKeeps
  <2>2. Position' = Position /\ Leaving' = Leaving
    BY <2>0 DEF Position, Leaving, Group
  <2>3. GroupTypes' /\ Shape'
    BY <2>0 DEF FanInv, GroupTypes, Shape, Group
  <2>4. OutInv' /\ CoverInv'
    BY <2>0, <2>2 DEF FanInv, OutInv, ResolvedInv, LeftInv, HeldInv, JoinInv, Named, Ahead, Pending,
                      CoverInv, Live
  <2>5. VerdictInv' /\ AstrayInv'
    BY <2>0, <2>2 DEF FanInv, VerdictInv, InFlight, AllSucceeded, Pending, AstrayInv, Group
  <2> QED
    BY <2>1, <2>3, <2>4, <2>5 DEF FanInv
<1>2. CASE Elsewhere \/ SubmitStep
  BY <1>2, ElsewhereKeeps
<1>3. CASE EnterGroup
  <2>1. RunInv'
    BY <1>3, RunKeeps DEF EnterGroup, Next, RunStep, LoopStep
  <2> QED
    BY <1>3, <2>1, EnterGroupKeeps
<1>4. CASE NextBranch
  <2>1. RunInv'
    BY <1>4, RunKeeps DEF NextBranch
  <2> QED
    BY <1>4, <2>1, NextBranchKeeps
<1>5. CASE JudgeBranch \/ BranchUnavailable
  <2>1. RunInv'
    BY <1>5, RunKeeps DEF JudgeBranch, BranchUnavailable
  <2> QED
    BY <1>5, <2>1, JudgeBranchKeeps
<1>6. CASE ResumeGroup \/ RunBranch \/ OfferBranch \/ FanOut \/ ReportBranch \/ Join \/ CrashInGroup
  BY <1>6, ResumeGroupKeeps, RunBranchKeeps, FanOutKeeps, ReportBranchKeeps, JoinKeeps,
     CrashInGroupKeeps
<1>7. ASSUME NEW b \in Branch, SubmitBranch(b)
      PROVE  RunInv' /\ FanInv'
  BY <1>7, SubmitBranchKeeps
<1> QED
  BY <1>1, <1>2, <1>3, <1>4, <1>5, <1>6, <1>7 DEF BranchesNext, FanStep

\* It holds in the beginning.
LEMMA BranchesInitially == BranchesInit => GInv
<1> SUFFICES ASSUME BranchesInit
             PROVE  FanInv
  BY RunInitially DEF GInv, BranchesInit
<1>1. /\ cmd = Idle /\ cmd.pc = "idle" /\ rs = NewRun /\ rs.inFlight = FALSE
      /\ fan.at = "off" /\ fan \in Fans /\ told = {}
      /\ br.pending = {} /\ br.summary = {}
      /\ br \in [pending : SUBSET Branch, outcome : [Branch -> {"", "success", "failure"}],
                 summary : SUBSET Groups]
      /\ \A b \in Branch : past.how[b] = ""
      /\ past \in [how : [Branch -> {"", "success", "failure"}], torn : SUBSET Steps,
                   astray : BOOLEAN]
  BY PCs, NewRunFields DEF BranchesInit, Init, RunInit, NoFan, Fans, NoPast
<1>2. GroupTypes /\ Shape /\ ~Leaving
  BY <1>1 DEF GroupTypes, Shape, Leaving
<1>3. OutInv /\ CoverInv
  BY <1>1, <1>2 DEF OutInv, ResolvedInv, LeftInv, HeldInv, JoinInv, CoverInv, Live, Pending
<1>4. VerdictInv /\ AstrayInv
  BY <1>1, <1>2 DEF VerdictInv, AstrayInv
<1> QED
  BY <1>2, <1>3, <1>4 DEF FanInv

\* Every reachable state satisfies the inductive invariant of the groups.
LEMMA BranchesInvariance == BranchesSpec => []GInv
BY BranchesInitially, BranchesInvStep, PTL DEF BranchesSpec

-----------------------------------------------------------------------------
(* What follows *)

\* Groups, their branches and the command in them are of their types.
THEOREM BranchesTypes == BranchesSpec => []BranchesTypeOK
<1>1. GInv => BranchesTypeOK
  BY GroupFacts DEF GInv, RunInv, IInv, TInv, FanInv, GroupTypes, BranchesTypeOK
<1> QED
  BY <1>1, BranchesInvariance, PTL

\* A group that was entered whole is left with the outcome of its branches in
\* this visit, once all have reported.
THEOREM OutcomesOfBranches == BranchesSpec => []OutcomeOfBranches
<1>1. GInv => OutcomeOfBranches
  <2> SUFFICES ASSUME GInv, Leaving, cmd.at.step \notin past.torn
               PROVE  /\ \A b \in Members(cmd.at.step) : past.how[b] # ""
                      /\ (cmd.outcome = "success") <=> \A b \in Members(cmd.at.step) : past.how[b] = "success"
    BY DEF OutcomeOfBranches
  <2>0. fan.at = "off" /\ cmd.at.step \in Groups /\ Pending(cmd.at.step) = {} /\ cmd.at.step \in Steps
    BY GroupFacts DEF Leaving, GInv, FanInv, Shape, OutInv, JoinInv, Groups, Group
  <2>1. Live(cmd.at.step)
    BY DEF Live
  <2>2. ASSUME NEW b \in Members(cmd.at.step)
        PROVE  past.how[b] # "" /\ br.outcome[b] = past.how[b]
    <3>1. b \in Branch
      BY <2>0, MemberFacts
    <3> QED
      BY <2>0, <2>1, <3>1 DEF GInv, FanInv, CoverInv, OutInv, ResolvedInv, Pending
  <2>3. (cmd.outcome = "success") <=> \A b \in Members(cmd.at.step) : br.outcome[b] = "success"
    BY DEF GInv, FanInv, VerdictInv, AllSucceeded
  <2> QED
    BY <2>2, <2>3
<1> QED
  BY <1>1, BranchesInvariance, PTL

\* A branch that has reported is not out, and not what a command is at work on.
THEOREM ReportedAreDone == BranchesSpec => []ReportedIsDone
<1>1. GInv => ReportedIsDone
  <2> SUFFICES ASSUME GInv
               PROVE  /\ \A b \in br.pending : past.how[b] = ""
                      /\ fan.at \in {"run", "judge", "offer", "report"} => past.how[Current] = ""
    BY DEF ReportedIsDone
  <2>1. \A b \in br.pending : past.how[b] = ""
    BY DEF GInv, FanInv, OutInv, ResolvedInv
  <2>2. fan.at \in {"run", "judge", "offer", "report"} => fan.todo # {} /\ fan.at # "off"
    BY DEF GInv, FanInv, Shape
  <2> QED
    BY <2>1, <2>2, CurrentOut DEF GInv
<1> QED
  BY <1>1, BranchesInvariance, PTL

\* No branch is out in a run that is blocked, unless a result was once accepted
\* for one.
THEOREM NothingOutWhenBlocked == BranchesSpec => []NoneOutWhenBlocked
<1>1. GInv => NoneOutWhenBlocked
  BY DEF GInv, FanInv, AstrayInv, NoneOutWhenBlocked
<1> QED
  BY <1>1, BranchesInvariance, PTL

\* A group leaves the error its outcome calls for, whatever crashes there are
\* between its summary and its transition.
THEOREM ErrorsOfGroups == BranchesSpec => []ErrorOfGroup
<1>1. GInv => ErrorOfGroup
  BY DEF GInv, FanInv, VerdictInv, ErrorOfGroup
<1> QED
  BY <1>1, BranchesInvariance, PTL

\* Groups take no step past max_visits: either.
THEOREM BranchesVisits == BranchesSpec => []VisitsWithinMax
<1>1. GInv => VisitsWithinMax
  BY DEF GInv, RunInv, IInv, VisitInv
<1> QED
  BY <1>1, BranchesInvariance, PTL
=============================================================================
