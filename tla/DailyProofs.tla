----------------------------- MODULE DailyProofs -----------------------------
(***************************************************************************)
(* What holds of the daily game for any numbers of groups, people,         *)
(* workers, views and requests, any zones, hours and limits.               *)
(***************************************************************************)
EXTENDS Daily, FiniteSetTheorems, SequenceTheorems, TLAPS

(***************************************************************************)
(* Types.                                                                  *)
(***************************************************************************)

GroupType == {Unborn, Gone} \cup [state : {"live"}, zone : Zones, hour : Hours]
RoundRow == [state : {"open", "voting", "final"}, number : Nat, reveal : Int]
CandidateType == [status : {"pending", "approved", "rejected"}, votes : Nat, source : Rounds]
Listing == [group : Groups, zone : Zones, hour : Hours]

TablesTyped ==
  /\ clock \in 0..MaxTime
  /\ group \in [Groups -> GroupType]
  /\ members \in [Groups -> SUBSET People]
  /\ round \in [Groups -> [Dates -> {NoRound} \cup RoundRow]]
  /\ answer \in [Groups -> [Dates -> [People -> Texts \cup {Nothing}]]]
  /\ vote \in [Groups -> [Dates -> [People -> People \cup {Nothing}]]]
  /\ candidate \in [Keys -> {NoCandidate} \cup CandidateType]
JobsTyped == job \in [Jobs -> JobType] /\ \A w \in Jobs : AtWork(job[w])
ReqsTyped == req \in [Requests -> ReqType]
UsedTyped == used \in [Events -> Nat]

LEMMA TypeParts == TypeDaily <=> TablesTyped /\ JobsTyped /\ ReqsTyped /\ UsedTyped
BY DEF TypeDaily, TablesTyped, JobsTyped, ReqsTyped, UsedTyped,
       GroupType, RoundRow, CandidateType

-----------------------------------------------------------------------------
(* Helpers.                                                                *)

\* The largest element is what Max says, when there is one.
LEMMA MaxIs ==
  ASSUME NEW S \in SUBSET Int, NEW n \in S, \A y \in S : n >= y
  PROVE  Max(S) = n
<1>1. \E x \in S : \A y \in S : x >= y
  OBVIOUS
<1>2. Max(S) \in S /\ \A y \in S : Max(S) >= y
  BY <1>1, Zenon DEF Max
<1>3. \A m \in S : (\A y \in S : m >= y) => m = n
  OBVIOUS
<1> QED BY <1>2, <1>3, Zenon

LEMMA NextNumber == ASSUME NEW n \in Nat PROVE Max(1..n \cup {0}) + 1 = n + 1
<1>1. n \in 1..n \cup {0} /\ 1..n \cup {0} \in SUBSET Int /\ \A y \in 1..n \cup {0} : n >= y
  OBVIOUS
<1>2. Max(1..n \cup {0}) = n
  BY <1>1, MaxIs
<1> QED BY <1>2

LEMMA ListOf ==
  ASSUME NEW S, IsFiniteSet(S)
  PROVE  SetToSeq(S) \in Seq(S)
<1> DEFINE n == Cardinality(S)
<1>1. n \in Nat /\ ExistsBijection(1..n, S)
  BY FS_CardinalityType
<1>2. \E f \in [1..n -> S] : IsInjective(f)
  BY <1>1, Zenon DEF ExistsBijection, Bijection, Injection
<1>3. SetToSeq(S) \in [1..n -> S]
  BY <1>2, Zenon DEF SetToSeq
<1> QED BY <1>1, <1>3, IsASeq

LEMMA LiveGroup ==
  ASSUME TablesTyped, NEW g \in Groups, Exists(g)
  PROVE  group[g] \in [state : {"live"}, zone : Zones, hour : Hours]
BY DEF TablesTyped, GroupType, Exists, Unborn, Gone

LEMMA GroupsListed ==
  ASSUME TablesTyped
  PROVE  LET S == {Listed(g) : g \in {h \in Groups : Exists(h)}} IN SetToSeq(S) \in Seq(S) /\ S \subseteq Listing
<1> DEFINE G == {h \in Groups : Exists(h)}
           S == {Listed(g) : g \in G}
           f == [g \in G |-> Listed(g)]
<1>1. IsFiniteSet(G)
  BY NamesAssumption, FS_Subset
<1>2. f \in Surjection(G, S)
  BY DEF Surjection
<1>3. IsFiniteSet(S)
  BY <1>1, <1>2, FS_Surjection
<1>4. ASSUME NEW g \in G PROVE Listed(g) \in Listing
  BY DEF Exists, TablesTyped, GroupType, Unborn, Gone, Listed, Listing
<1> QED BY <1>3, <1>4, ListOf

LEMMA DatesFinite ==
  /\ MaxTime + Day \in Nat /\ (MaxTime + Day) \div Day \in Nat
  /\ IsFiniteSet(Dates) /\ Dates \subseteq Nat
<1>1. MaxTime + Day \in Nat /\ Day \in Nat \ {0}
  BY ClockAssumption
<1>2. (MaxTime + Day) \div Day \in Nat
  BY <1>1
<1> QED BY <1>1, <1>2, FS_Interval DEF Dates

LEMMA RevealIsInt ==
  ASSUME NEW d \in Int, NEW zone \in Zones, NEW hour \in Hours
  PROVE  RevealAt(d, zone, hour) \in Int
<1>1. Offset[zone] \in Int /\ hour \in Int /\ Day \in Int
  BY ClockAssumption
<1>2. d * Day \in Int
  BY <1>1
<1> QED BY <1>1, <1>2 DEF RevealAt, OpensAt

LEMMA DateIsInt ==
  ASSUME NEW t \in Nat, NEW zone \in Zones
  PROVE  DateAt(t, zone) \in Nat
<1>1. t + Offset[zone] \in Nat /\ Day \in Nat \ {0}
  BY ClockAssumption
<1> QED BY <1>1 DEF DateAt

LEMMA NewRoundTyped ==
  ASSUME NEW number \in Nat, NEW d \in Int, NEW zone \in Zones, NEW hour \in Hours
  PROVE  NewRound(number, d, zone, hour) \in RoundRow
BY RevealIsInt DEF NewRound, RoundRow

-----------------------------------------------------------------------------
(* The steps.  A quiet one leaves what groups, members, rounds, answers,   *)
(* votes and requests there are.                                           *)

Quiet == UNCHANGED <<settings, play, req>>
LEMMA Kinds ==
  ASSUME [Next]_vars
  PROVE  \/ Quiet
         \/ \E g \in Groups, p \in People, zone \in Zones : CreateGroup(g, p, zone)
         \/ \E g \in Groups : DeleteGroup(g)
         \/ \E q \in Requests, g \in Groups :
              \/ \E p \in People : CountMembers(q, g, p)
              \/ ReadSettings(q, g, Zones, Hours)
         \/ \E q \in Requests, r \in Rounds, p \in People :
              \/ \E text \in Texts : Submit(q, r, p, text)
              \/ \E author \in People : Vote(q, r, p, author)
         \/ \E q \in Requests : Finishes(q) \/ Abort(q)
         \/ \E r \in Rounds, p \in People : DeleteDailySubmission(r, p)
         \/ \E w \in Jobs : InsertRound(w) \/ Reveal(w) \/ FinalizeRounds(w)
<1> USE DEF Quiet, vars, tables
<1>1. CASE UNCHANGED vars
  BY <1>1
<1>2. CASE PassTime
  BY <1>2 DEF PassTime
<1>3. ASSUME NEW w \in Jobs, Works(w) \/ Fault(w) \/ Crash(w)
      PROVE  Quiet \/ InsertRound(w) \/ Reveal(w) \/ FinalizeRounds(w)
  BY <1>3 DEF Works, Fault, Crash, Tick, ListGroups, ReadNow, FindRound, SelectCandidates, SaveCandidate
<1>4. ASSUME NEW w \in Views, NEW g \in Groups, Today(w, g)
      PROVE  Quiet
  BY <1>4 DEF Today
<1>5. ASSUME NEW k \in Keys, NEW decision, ReviewCandidate(k, decision)
      PROVE  Quiet
  BY <1>5 DEF ReviewCandidate
<1> QED BY <1>1, <1>2, <1>3, <1>4, <1>5 DEF Next

-----------------------------------------------------------------------------
(* What jobs become.                                                       *)

JobSteps == {"idle", "list", "now", "ensure", "insert", "finalize", "promote"}

LEMMA IdleTyped == IdleJob \in JobType /\ AtWork(IdleJob)
<1>1. <<>> \in Seq([group : Groups, zone : Zones, hour : Hours])
  BY EmptySeq
<1> QED BY <1>1 DEF IdleJob, JobType, AtWork

LEMMA BecomesTyped ==
  ASSUME JobsTyped, NEW w \in Jobs, NEW state \in JobType, AtWork(state), Becomes(w, state)
  PROVE  JobsTyped'
BY DEF JobsTyped, Becomes, AtWork, IdleJob

LEMMA SettledTyped ==
  ASSUME NEW j \in JobType, j.pc = "promote", j.found # {} => j.from # <<>>
  PROVE  Settled(j) \in JobType /\ AtWork(Settled(j))
BY IdleTyped DEF Settled, AtWork

LEMMA JobFields ==
  ASSUME NEW j \in JobType
  PROVE  /\ j.pc \in JobSteps /\ j.now \in Nat /\ j.scope \in SUBSET Groups
         /\ j.todo \in Seq(Listing) /\ j.number \in Nat /\ j.won \in SUBSET Rounds
         /\ j.from \in Rounds \cup {<<>>} /\ j.found \in SUBSET [key : Keys, votes : Nat]
         /\ (j.todo # <<>> => Head(j.todo) \in Listing /\ Tail(j.todo) \in Seq(Listing))
         /\ \A pc \in JobSteps : [j EXCEPT !.pc = pc] \in JobType
         /\ \A pc \in JobSteps, todo \in Seq(Listing) : [j EXCEPT !.pc = pc, !.todo = todo] \in JobType
         /\ \A todo \in Seq(Listing) : [j EXCEPT !.todo = todo] \in JobType
         /\ \A pc \in JobSteps, now \in Nat : [j EXCEPT !.pc = pc, !.now = now] \in JobType
         /\ \A pc \in JobSteps, n \in Nat : [j EXCEPT !.pc = pc, !.number = n] \in JobType
         /\ \A pc \in JobSteps, won \in SUBSET Rounds : [j EXCEPT !.pc = pc, !.won = won] \in JobType
         /\ \A won \in SUBSET Rounds : [j EXCEPT !.won = won] \in JobType
         /\ \A found \in SUBSET [key : Keys, votes : Nat] : [j EXCEPT !.found = found] \in JobType
         /\ \A won \in SUBSET Rounds, from \in Rounds, found \in SUBSET [key : Keys, votes : Nat] :
              [j EXCEPT !.won = won, !.from = from, !.found = found] \in JobType
<1> USE DEF JobType, JobSteps
<1>1. /\ j.pc \in JobSteps /\ j.now \in Nat /\ j.scope \in SUBSET Groups
      /\ j.todo \in Seq(Listing) /\ j.number \in Nat /\ j.won \in SUBSET Rounds
      /\ j.from \in Rounds \cup {<<>>} /\ j.found \in SUBSET [key : Keys, votes : Nat]
  BY DEF Listing
<1>2. j.todo # <<>> => Head(j.todo) \in Listing /\ Tail(j.todo) \in Seq(Listing)
  BY <1>1, HeadTailProperties
<1>3. \A pc \in JobSteps : [j EXCEPT !.pc = pc] \in JobType
  OBVIOUS
<1>4. \A pc \in JobSteps, todo \in Seq(Listing) : [j EXCEPT !.pc = pc, !.todo = todo] \in JobType
  BY DEF Listing
<1>5. \A todo \in Seq(Listing) : [j EXCEPT !.todo = todo] \in JobType
  BY DEF Listing
<1>6. \A pc \in JobSteps, now \in Nat : [j EXCEPT !.pc = pc, !.now = now] \in JobType
  OBVIOUS
<1>7. \A pc \in JobSteps, n \in Nat : [j EXCEPT !.pc = pc, !.number = n] \in JobType
  OBVIOUS
<1>8. \A pc \in JobSteps, won \in SUBSET Rounds : [j EXCEPT !.pc = pc, !.won = won] \in JobType
  OBVIOUS
<1>9. \A won \in SUBSET Rounds : [j EXCEPT !.won = won] \in JobType
  OBVIOUS
<1>10. \A found \in SUBSET [key : Keys, votes : Nat] : [j EXCEPT !.found = found] \in JobType
  OBVIOUS
<1>11. \A won \in SUBSET Rounds, from \in Rounds, found \in SUBSET [key : Keys, votes : Nat] :
         [j EXCEPT !.won = won, !.from = from, !.found = found] \in JobType
  OBVIOUS
<1> QED BY <1>1, <1>2, <1>3, <1>4, <1>5, <1>6, <1>7, <1>8, <1>9, <1>10, <1>11

-----------------------------------------------------------------------------
(* Tables keep their types.                                                *)

LEMMA MovedTyped ==
  ASSUME TablesTyped, NEW due \in SUBSET Rounds, NEW state \in {"open", "voting", "final"},
         \A r \in due : At(round, r) # NoRound, Moved(due, state)
  PROVE  round' \in [Groups -> [Dates -> {NoRound} \cup RoundRow]]
<1> SUFFICES ASSUME NEW g \in Groups, NEW d \in Dates
             PROVE  (IF <<g, d>> \in due THEN [round[g][d] EXCEPT !.state = state] ELSE round[g][d])
                      \in {NoRound} \cup RoundRow
  BY DEF Moved
<1>1. round[g][d] \in {NoRound} \cup RoundRow
  BY DEF TablesTyped
<1>2. CASE <<g, d>> \in due
  <2>1. round[g][d] \in RoundRow
    BY <1>1, <1>2 DEF At
  <2> QED BY <1>2, <2>1 DEF RoundRow
<1> QED BY <1>1, <1>2

LEMMA PutTyped ==
  ASSUME TablesTyped, NEW g \in Groups, NEW d, NEW n \in RoundRow,
         round' = [round EXCEPT ![g][d] = n]
  PROVE  round' \in [Groups -> [Dates -> {NoRound} \cup RoundRow]]
BY DEF TablesTyped

LEMMA ToRevealOpen ==
  ASSUME NEW w
  PROVE  /\ ToReveal(w) \in SUBSET Rounds
         /\ \A r \in ToReveal(w) : At(round, r) # NoRound /\ At(round, r).state = "open"
BY DEF ToReveal, InScope, NoRound
LEMMA ToFinishVoting ==
  ASSUME NEW w
  PROVE  /\ ToFinish(w) \in SUBSET Rounds
         /\ \A r \in ToFinish(w) : At(round, r) # NoRound /\ At(round, r).state = "voting"
BY DEF ToFinish, InScope, NoRound

LEMMA TablesStep ==
  ASSUME TypeDaily, [Next]_vars
  PROVE  TablesTyped'
<1>t. TablesTyped /\ JobsTyped /\ ReqsTyped
  BY TypeParts
<1> USE DEF tables, settings, play
<1>1. CASE UNCHANGED vars
  BY <1>t, <1>1 DEF vars, TablesTyped
<1>2. CASE PassTime
  <2>1. clock' \in 0..MaxTime
    BY <1>t, <1>2, ClockAssumption DEF PassTime, TablesTyped
  <2> QED BY <1>t, <1>2, <2>1 DEF PassTime, TablesTyped
<1>3. ASSUME NEW g \in Groups, NEW p \in People, NEW zone \in Zones, CreateGroup(g, p, zone)
      PROVE  TablesTyped'
  <2> DEFINE d == DateAt(clock, zone)
  <2>1. clock \in Nat /\ DefaultHour \in Hours
    BY <1>t, ClockAssumption DEF TablesTyped
  <2>2. NewRound(1, d, zone, DefaultHour) \in RoundRow
    BY <2>1, DateIsInt, NewRoundTyped
  <2>3. round' \in [Groups -> [Dates -> {NoRound} \cup RoundRow]]
    BY <1>t, <1>3, <2>2 DEF CreateGroup, TablesTyped
  <2>4. group' \in [Groups -> GroupType] /\ members' \in [Groups -> SUBSET People]
    BY <1>t, <1>3, <2>1 DEF CreateGroup, TablesTyped, GroupType
  <2> QED BY <1>t, <1>3, <2>3, <2>4 DEF CreateGroup, TablesTyped
<1>4. ASSUME NEW g \in Groups, DeleteGroup(g)
      PROVE  TablesTyped'
  <2>1. Withdrawn(g) \in [Keys -> {NoCandidate} \cup CandidateType]
    BY <1>t DEF Withdrawn, TablesTyped
  <2>2. NoRows \in [Dates -> [People -> {Nothing}]]
    BY DEF NoRows, Nobodys
  <2>3. /\ answer' \in [Groups -> [Dates -> [People -> Texts \cup {Nothing}]]]
        /\ vote' \in [Groups -> [Dates -> [People -> People \cup {Nothing}]]]
    BY <1>t, <1>4, <2>2 DEF DeleteGroup, TablesTyped
  <2>4. round' \in [Groups -> [Dates -> {NoRound} \cup RoundRow]]
    BY <1>t, <1>4 DEF DeleteGroup, TablesTyped
  <2>5. group' \in [Groups -> GroupType] /\ members' \in [Groups -> SUBSET People]
    BY <1>t, <1>4 DEF DeleteGroup, TablesTyped, GroupType
  <2> QED BY <1>t, <1>4, <2>1, <2>3, <2>4, <2>5 DEF DeleteGroup, TablesTyped
<1>5. ASSUME NEW q \in Requests, JoinGroup(q)
      PROVE  TablesTyped'
  <2>1. req[q].group \in Groups /\ req[q].who \in People
    BY <1>t, <1>5 DEF JoinGroup, ReqsTyped, ReqType, IdleReq
  <2> QED BY <1>t, <1>5, <2>1 DEF JoinGroup, TablesTyped
<1>6. ASSUME NEW q \in Requests, UpdateGroup(q)
      PROVE  TablesTyped'
  <2> DEFINE g == req[q].group
             today == DateAt(clock, req[q].zone)
             at == RevealAt(today, req[q].zone, req[q].hour)
  <2>1. g \in Groups /\ req[q].zone \in Zones /\ req[q].hour \in Hours
    BY <1>t, <1>6 DEF UpdateGroup, ReqsTyped, ReqType, IdleReq
  <2>2. at \in Int
    BY <1>t, <2>1, DateIsInt, RevealIsInt DEF TablesTyped
  <2>3. group' \in [Groups -> GroupType]
    <3>1. CASE Exists(g)
      <4>1. [group[g] EXCEPT !.zone = req[q].zone, !.hour = req[q].hour] \in GroupType
        BY <1>t, <2>1, <3>1, LiveGroup DEF GroupType
      <4>2. group' = [group EXCEPT ![g] = [group[g] EXCEPT !.zone = req[q].zone, !.hour = req[q].hour]]
        BY <1>6, <3>1 DEF UpdateGroup
      <4> QED BY <1>t, <2>1, <4>1, <4>2 DEF TablesTyped
    <3>2. CASE ~Exists(g)
      BY <1>t, <1>6, <3>2 DEF UpdateGroup, TablesTyped
    <3> QED BY <3>1, <3>2
  <2>4. round' \in [Groups -> [Dates -> {NoRound} \cup RoundRow]]
    <3>1. CASE Retimed(<<g, today>>)
      <4>1. round' = [round EXCEPT ![g][today].reveal = at]
        BY <1>6, <3>1 DEF UpdateGroup
      <4>2. today \in Dates => round[g][today] \in RoundRow
        BY <1>t, <2>1, <3>1 DEF Retimed, At, TablesTyped, NoRound
      <4>3. today \in Dates => [round[g][today] EXCEPT !.reveal = at] \in RoundRow
        BY <2>2, <4>2 DEF RoundRow
      <4> QED BY <1>t, <2>1, <4>1, <4>3 DEF TablesTyped
    <3>2. CASE ~Retimed(<<g, today>>)
      BY <1>t, <1>6, <3>2 DEF UpdateGroup, TablesTyped
    <3> QED BY <3>1, <3>2
  <2> QED BY <1>t, <1>6, <2>3, <2>4 DEF UpdateGroup, TablesTyped
<1>7. ASSUME NEW q \in Requests, SaveAnswer(q)
      PROVE  TablesTyped'
  <2>1. req[q].round \in Rounds /\ req[q].who \in People /\ req[q].what \in Texts
    BY <1>t, <1>7 DEF SaveAnswer, ReqsTyped, ReqType, IdleReq
  <2> QED BY <1>t, <1>7, <2>1 DEF SaveAnswer, TablesTyped, Rounds
<1>8. ASSUME NEW q \in Requests, SaveVote(q)
      PROVE  TablesTyped'
  <2>1. req[q].round \in Rounds /\ req[q].who \in People /\ req[q].what \in People
    BY <1>t, <1>8 DEF SaveVote, ReqsTyped, ReqType, IdleReq
  <2> QED BY <1>t, <1>8, <2>1 DEF SaveVote, TablesTyped, Rounds
<1>9. ASSUME NEW r \in Rounds, NEW p \in People, DeleteDailySubmission(r, p)
      PROVE  TablesTyped'
  <2>1. answer' \in [Groups -> [Dates -> [People -> Texts \cup {Nothing}]]]
    BY <1>t, <1>9 DEF DeleteDailySubmission, TablesTyped, Rounds
  <2>2. vote' \in [Groups -> [Dates -> [People -> People \cup {Nothing}]]]
    BY <1>t, <1>9 DEF DeleteDailySubmission, TablesTyped, Rounds, VotesWithout
  <2> QED BY <1>t, <1>9, <2>1, <2>2 DEF DeleteDailySubmission, TablesTyped
<1>10. ASSUME NEW w \in Jobs, InsertRound(w)
       PROVE  TablesTyped'
  <2> DEFINE l == Current(w)
  <2>1. job[w] \in JobType /\ job[w].todo # <<>>
    BY <1>t, <1>10 DEF InsertRound, JobsTyped, AtWork
  <2>2. l.group \in Groups /\ l.zone \in Zones /\ l.hour \in Hours /\ job[w].number \in Nat /\ job[w].now \in Nat
    BY <2>1, JobFields DEF Current, Listing
  <2>3. NewRound(job[w].number, DateOf(w), l.zone, l.hour) \in RoundRow
    BY <2>2, DateIsInt, NewRoundTyped DEF DateOf
  <2>4. round' \in [Groups -> [Dates -> {NoRound} \cup RoundRow]]
    <3> DEFINE n == NewRound(job[w].number, DateOf(w), l.zone, l.hour)
    <3>1. round' = [round EXCEPT ![l.group][DateOf(w)] = n] \/ round' = round
      BY <1>10 DEF InsertRound
    <3>2. n \in RoundRow
      BY <2>3
    <3> HIDE DEF n
    <3>3. CASE round' = round
      BY <1>t, <3>3 DEF TablesTyped
    <3> QED BY <1>t, <2>2, <3>1, <3>2, <3>3, PutTyped
  <2> QED BY <1>t, <1>10, <2>4 DEF InsertRound, TablesTyped
<1>11. ASSUME NEW w \in Jobs, Reveal(w)
       PROVE  TablesTyped'
  BY <1>t, <1>11, ToRevealOpen, MovedTyped DEF Reveal, TablesTyped
<1>12. ASSUME NEW w \in Jobs, FinalizeRounds(w)
       PROVE  TablesTyped'
  BY <1>t, <1>12, ToFinishVoting, MovedTyped DEF FinalizeRounds, TablesTyped
<1>13. ASSUME NEW w \in Jobs, NEW c \in job[w].found, SaveCandidate(w, c)
       PROVE  TablesTyped'
  <2>1. job[w] \in JobType
    BY <1>t DEF JobsTyped
  <2>2. c \in [key : Keys, votes : Nat] /\ job[w].from \in Rounds
    BY <1>t, <2>1, JobFields DEF JobsTyped, AtWork
  <2> DEFINE fresh == [status |-> "pending", votes |-> c.votes, source |-> job[w].from]
  <2>3. CASE candidate[c.key] # NoCandidate
    <3>1. candidate[c.key] \in CandidateType
      BY <1>t, <2>2, <2>3 DEF TablesTyped
    <3>2. Merged(candidate[c.key], c) \in CandidateType
      BY <2>2, <3>1 DEF Merged, CandidateType
    <3> QED BY <1>t, <1>13, <2>2, <2>3, <3>2 DEF SaveCandidate, TablesTyped
  <2>4. CASE candidate[c.key] = NoCandidate /\ At(round, job[w].from) # NoRound
    <3>1. candidate' = [candidate EXCEPT ![c.key] = fresh]
      BY <1>13, <2>4 DEF SaveCandidate
    <3>2. fresh \in CandidateType
      BY <2>2 DEF CandidateType
    <3> QED BY <1>t, <1>13, <2>2, <3>1, <3>2 DEF SaveCandidate, TablesTyped
  <2>5. CASE candidate[c.key] = NoCandidate /\ At(round, job[w].from) = NoRound
    BY <1>t, <1>13, <2>5 DEF SaveCandidate, TablesTyped
  <2> QED BY <2>3, <2>4, <2>5
<1>14. ASSUME NEW k \in Keys, NEW decision \in {"approved", "rejected"}, ReviewCandidate(k, decision)
       PROVE  TablesTyped'
  <2>1. candidate[k] \in CandidateType
    BY <1>t, <1>14 DEF ReviewCandidate, TablesTyped
  <2>2. [candidate[k] EXCEPT !.status = decision] \in CandidateType
    BY <2>1 DEF CandidateType
  <2> QED BY <1>t, <1>14, <2>2 DEF ReviewCandidate, TablesTyped
<1> DEFINE SameTables == UNCHANGED <<clock, tables>>
<1>15. SameTables => TablesTyped'
  BY <1>t DEF TablesTyped
<1>16. ASSUME NEW q \in Requests,
              \/ Abort(q)
              \/ \E g \in Groups, p \in People : CountMembers(q, g, p)
              \/ \E g \in Groups : ReadSettings(q, g, Zones, Hours)
              \/ \E what : \E r \in Rounds, p \in People : Submit(q, r, p, what) \/ Vote(q, r, p, what)
       PROVE  SameTables
  BY <1>16 DEF Abort, CountMembers, ReadSettings, Submit, Vote, Begin
<1>17. ASSUME NEW w \in Jobs,
              \/ Tick(w) \/ ListGroups(w) \/ ReadNow(w) \/ FindRound(w) \/ Fault(w) \/ Crash(w)
              \/ \E r \in job[w].won : SelectCandidates(w, r)
              \/ \E g \in Groups : Today(w, g)
       PROVE  SameTables
  BY <1>17 DEF Tick, ListGroups, ReadNow, FindRound, Fault, Crash, SelectCandidates, Today
<1> QED
  BY <1>1, <1>2, <1>3, <1>4, <1>5, <1>6, <1>7, <1>8, <1>9, <1>10, <1>11, <1>12, <1>13, <1>14,
     <1>15, <1>16, <1>17 DEF Next, Works, Finishes, Jobs

-----------------------------------------------------------------------------
(* Requests and jobs keep their types.                                     *)

LEMMA ReqsStep ==
  ASSUME TypeDaily, [Next]_vars
  PROVE  ReqsTyped'
<1>t. TablesTyped /\ JobsTyped /\ ReqsTyped
  BY TypeParts
<1>1. CASE Quiet
  BY <1>t, <1>1 DEF Quiet, ReqsTyped
<1>2. CASE UNCHANGED req
  BY <1>t, <1>2 DEF ReqsTyped
<1>3. ASSUME NEW q \in Requests, NEW g \in Groups, NEW p \in People, CountMembers(q, g, p)
      PROVE  ReqsTyped'
  BY <1>t, <1>3 DEF CountMembers, ReqsTyped, ReqType
<1>4. ASSUME NEW q \in Requests, NEW g \in Groups, ReadSettings(q, g, Zones, Hours)
      PROVE  ReqsTyped'
  <2>1. group[g].zone \in Zones /\ group[g].hour \in Hours
    BY <1>t, <1>4, LiveGroup DEF ReadSettings
  <2> QED BY <1>t, <1>4, <2>1 DEF ReadSettings, ReqsTyped, ReqType
<1>5. ASSUME NEW q \in Requests, NEW r \in Rounds, NEW p \in People, NEW text \in Texts,
             Submit(q, r, p, text)
      PROVE  ReqsTyped'
  BY <1>t, <1>5 DEF Submit, Begin, ReqsTyped, ReqType
<1>6. ASSUME NEW q \in Requests, NEW r \in Rounds, NEW p \in People, NEW author \in People,
             Vote(q, r, p, author)
      PROVE  ReqsTyped'
  BY <1>t, <1>6 DEF Vote, Begin, ReqsTyped, ReqType
<1>7. ASSUME NEW q \in Requests, Finishes(q) \/ Abort(q)
      PROVE  ReqsTyped'
  BY <1>t, <1>7 DEF Finishes, Abort, JoinGroup, UpdateGroup, SaveAnswer, SaveVote, ReqsTyped, ReqType
<1> QED
  BY <1>1, <1>2, <1>3, <1>4, <1>5, <1>6, <1>7, Kinds
     DEF CreateGroup, DeleteGroup, DeleteDailySubmission, InsertRound, Reveal, FinalizeRounds

Numbered == \A g \in Groups : Numbers(g) = 1..Cardinality({d \in Dates : round[g][d] # NoRound})

LEMMA DatedFinite ==
  ASSUME NEW g
  PROVE  LET D == {d \in Dates : round[g][d] # NoRound} IN IsFiniteSet(D) /\ Cardinality(D) \in Nat
BY DatesFinite, FS_Subset, FS_CardinalityType

LEMMA NumberFound ==
  ASSUME Numbered, NEW g \in Groups
  PROVE  LET n == Max(Numbers(g) \cup {0}) + 1 IN n \in Nat /\ n \notin Numbers(g)
<1> DEFINE k == Cardinality({d \in Dates : round[g][d] # NoRound})
<1>1. k \in Nat /\ Numbers(g) = 1..k
  BY DatedFinite DEF Numbered
<1>2. Max(Numbers(g) \cup {0}) + 1 = k + 1
  BY <1>1, NextNumber
<1> HIDE DEF k
<1> QED BY <1>1, <1>2

LEMMA JobsStep ==
  ASSUME TypeDaily, Numbered, [Next]_vars
  PROVE  JobsTyped'
<1>t. TablesTyped /\ JobsTyped /\ ReqsTyped
  BY TypeParts
<1>j. \A w \in Jobs : job[w] \in JobType /\ AtWork(job[w])
  BY <1>t DEF JobsTyped
<1> USE DEF JobSteps
<1>1. CASE UNCHANGED job
  BY <1>t, <1>1 DEF JobsTyped
<1>2. ASSUME NEW w \in Jobs, Tick(w)
      PROVE  JobsTyped'
  <2>1. clock \in Nat
    BY <1>t, ClockAssumption DEF TablesTyped
  <2> DEFINE j == [[[IdleJob EXCEPT !.pc = "list"] EXCEPT !.now = clock] EXCEPT !.scope = Groups]
  <2>2. j \in JobType /\ AtWork(j)
    BY <2>1, IdleTyped DEF JobType, AtWork, IdleJob
  <2>3. Becomes(w, j)
    BY <1>2 DEF Tick
  <2> HIDE DEF j
  <2> QED BY <1>t, <2>2, <2>3, BecomesTyped
<1>3. ASSUME NEW w \in Jobs, ListGroups(w)
      PROVE  JobsTyped'
  <2> DEFINE S == {Listed(g) : g \in {h \in Groups : Exists(h)}}
             j == [job[w] EXCEPT !.pc = "ensure", !.todo = SetToSeq(S)]
  <2>1. SetToSeq(S) \in Seq(Listing)
    BY <1>t, GroupsListed, SeqMonotonic
  <2>2. Becomes(w, j)
    BY <1>3 DEF ListGroups
  <2> HIDE DEF S
  <2>3. j \in JobType
    BY <1>j, <2>1, JobFields
  <2>4. AtWork(j)
    BY <1>j, <1>3 DEF ListGroups, AtWork, JobType
  <2> HIDE DEF j
  <2> QED BY <1>t, <2>2, <2>3, <2>4, BecomesTyped
<1>4. ASSUME NEW w \in Jobs, NEW g \in Groups, Today(w, g)
      PROVE  JobsTyped'
  <2> DEFINE todo == <<Listed(g)>>
             j == [[[IdleJob EXCEPT !.pc = "now"] EXCEPT !.scope = {g}] EXCEPT !.todo = todo]
  <2>1. Listed(g) \in Listing
    BY <1>t, <1>4, LiveGroup DEF Today, Listed, Listing
  <2>2. todo \in Seq(Listing)
    BY <2>1
  <2>3. Becomes(w, j)
    BY <1>4 DEF Today
  <2> HIDE DEF todo
  <2>4. j \in JobType /\ AtWork(j)
    BY <2>2, IdleTyped DEF JobType, AtWork, IdleJob, Listing
  <2> HIDE DEF j
  <2> QED BY <1>t, <2>3, <2>4, BecomesTyped
<1>5. ASSUME NEW w \in Jobs, ReadNow(w)
      PROVE  JobsTyped'
  <2> DEFINE j == [job[w] EXCEPT !.pc = "ensure", !.now = clock]
  <2>1. clock \in Nat
    BY <1>t, ClockAssumption DEF TablesTyped
  <2>2. j \in JobType
    BY <1>j, <2>1, JobFields
  <2>3. AtWork(j)
    BY <1>j, <1>5 DEF ReadNow, AtWork, JobType
  <2> QED BY <1>t, <1>5, <2>2, <2>3, BecomesTyped DEF ReadNow
<1>6. ASSUME NEW w \in Jobs, FindRound(w)
      PROVE  JobsTyped'
  <2> DEFINE n == Max(Numbers(Current(w).group) \cup {0}) + 1
             next == [job[w] EXCEPT !.todo = Tail(job[w].todo)]
             insert == [job[w] EXCEPT !.pc = "insert", !.number = n]
  <2>1. Current(w).group \in Groups
    BY <1>j, <1>6, JobFields DEF FindRound, Current, Listing
  <2>2. n \in Nat
    BY <2>1, NumberFound
  <2>3. Becomes(w, next) \/ Becomes(w, insert)
    BY <1>6 DEF FindRound
  <2> HIDE DEF n
  <2>4. next \in JobType /\ AtWork(next)
    <3>1. next \in JobType
      BY <1>j, <1>6, JobFields DEF FindRound
    <3>2. AtWork(next)
      BY <1>j, <1>6 DEF FindRound, AtWork, JobType
    <3> QED BY <3>1, <3>2
  <2>5. insert \in JobType /\ AtWork(insert)
    <3>1. insert \in JobType
      BY <1>j, <2>2, JobFields
    <3>2. AtWork(insert)
      BY <1>j, <1>6 DEF FindRound, AtWork, JobType
    <3> QED BY <3>1, <3>2
  <2> HIDE DEF next, insert
  <2> QED BY <1>t, <2>3, <2>4, <2>5, BecomesTyped
<1>7. ASSUME NEW w \in Jobs, InsertRound(w)
      PROVE  JobsTyped'
  <2> DEFINE next == [job[w] EXCEPT !.pc = "ensure", !.todo = Tail(job[w].todo)]
  <2>1. Becomes(w, next) \/ Becomes(w, IdleJob)
    BY <1>7 DEF InsertRound, Stop
  <2>2. next \in JobType
    BY <1>j, <1>7, JobFields DEF InsertRound, AtWork
  <2>3. AtWork(next)
    BY <1>j, <1>7 DEF InsertRound, AtWork, JobType
  <2> HIDE DEF next
  <2> QED BY <1>t, <2>1, <2>2, <2>3, IdleTyped, BecomesTyped
<1>8. ASSUME NEW w \in Jobs, Reveal(w)
      PROVE  JobsTyped'
  <2> DEFINE next == [job[w] EXCEPT !.pc = "finalize"]
  <2>1. next \in JobType
    BY <1>j, JobFields
  <2>2. AtWork(next)
    BY <1>j, <1>8 DEF Reveal, AtWork, JobType
  <2> QED BY <1>t, <1>8, <2>1, <2>2, BecomesTyped DEF Reveal
<1>9. ASSUME NEW w \in Jobs, FinalizeRounds(w)
      PROVE  JobsTyped'
  <2> DEFINE next == [job[w] EXCEPT !.pc = "promote", !.won = Harvested(w)]
  <2>1. Harvested(w) \in SUBSET Rounds
    BY ToFinishVoting DEF Harvested
  <2>2. next \in JobType
    BY <1>j, <2>1, JobFields
  <2>3. next.pc = "promote" /\ (next.found # {} => next.from # <<>>)
    BY <1>j DEF JobType, AtWork
  <2> HIDE DEF next
  <2>4. Settled(next) \in JobType /\ AtWork(Settled(next))
    BY <2>2, <2>3, SettledTyped
  <2>5. Becomes(w, Settled(next))
    BY <1>9 DEF FinalizeRounds, next
  <2> QED BY <1>t, <2>4, <2>5, BecomesTyped
<1>10. ASSUME NEW w \in Jobs, NEW r \in job[w].won, SelectCandidates(w, r)
       PROVE  JobsTyped'
  <2>1. job[w] \in JobType /\ job[w].pc = "promote" /\ r \in Rounds /\ job[w].won \ {r} \in SUBSET Rounds
    BY <1>j, <1>10, JobFields DEF SelectCandidates
  <2>2. PICK S \in SUBSET Popular(r) :
          LET found == {[key |-> Key[At(answer, r)[p]], votes |-> Votes(r, p)] : p \in S}
          IN Becomes(w, Settled([job[w] EXCEPT !.won = @ \ {r}, !.from = r,
                                  !.found = {c \in found : c.key # Nothing}]))
    BY <1>10 DEF SelectCandidates
  <2> DEFINE found == {[key |-> Key[At(answer, r)[p]], votes |-> Votes(r, p)] : p \in S}
             kept == {c \in found : c.key # Nothing}
             next == [job[w] EXCEPT !.won = job[w].won \ {r}, !.from = r, !.found = kept]
  <2>3. kept \in SUBSET [key : Keys, votes : Nat]
    <3> SUFFICES ASSUME NEW p \in S, Key[At(answer, r)[p]] # Nothing
                 PROVE  Key[At(answer, r)[p]] \in Keys /\ Votes(r, p) \in Nat
      OBVIOUS
    <3>1. p \in People /\ At(answer, r)[p] # Nothing
      BY DEF Popular, Answers
    <3>2. At(answer, r)[p] \in Texts
      BY <1>t, <2>1, <3>1 DEF TablesTyped, At, Rounds
    <3>3. Votes(r, p) \in Nat
      BY NamesAssumption, FS_Subset, FS_CardinalityType DEF Votes
    <3> QED BY <3>2, <3>3, NamesAssumption
  <2>4. Becomes(w, Settled(next))
    BY <2>2
  <2> HIDE DEF kept
  <2>5. next \in JobType
    BY <2>1, <2>3, JobFields
  <2>6. next.pc = "promote" /\ next.from = r
    BY <2>1 DEF JobType
  <2>7. r # <<>>
    BY <2>1 DEF Rounds
  <2> HIDE DEF next
  <2> QED BY <1>t, <2>4, <2>5, <2>6, <2>7, SettledTyped, BecomesTyped
<1>11. ASSUME NEW w \in Jobs, NEW c \in job[w].found, SaveCandidate(w, c)
       PROVE  JobsTyped'
  <2> DEFINE rest == [job[w] EXCEPT !.found = job[w].found \ {c}]
             none == [job[w] EXCEPT !.found = {}]
  <2>1. Becomes(w, Settled(rest)) \/ Becomes(w, Settled(none))
    BY <1>11 DEF SaveCandidate
  <2>2. rest \in JobType /\ none \in JobType
    BY <1>j, JobFields
  <2>3. /\ rest.pc = "promote" /\ (rest.found # {} => rest.from # <<>>)
        /\ none.pc = "promote" /\ (none.found # {} => none.from # <<>>)
    BY <1>j, <1>11 DEF SaveCandidate, JobType, AtWork
  <2> HIDE DEF rest, none
  <2> QED BY <1>t, <2>1, <2>2, <2>3, SettledTyped, BecomesTyped
<1>12. ASSUME NEW w \in Jobs, Fault(w)
       PROVE  JobsTyped'
  <2> DEFINE none == [job[w] EXCEPT !.found = {}]
             less(r) == [job[w] EXCEPT !.won = job[w].won \ {r}]
  <2>1. \/ Becomes(w, IdleJob)
        \/ job[w].found # {} /\ Becomes(w, Settled(none))
        \/ job[w].found = {} /\ job[w].won # {} /\ \E r \in job[w].won : Becomes(w, Settled(less(r)))
    BY <1>12 DEF Fault, Stop
  <2>2. none \in JobType /\ \A r : less(r) \in JobType
    BY <1>j, JobFields
  <2>3. /\ none.pc = job[w].pc /\ none.found = {}
        /\ \A r : /\ less(r).pc = job[w].pc
                  /\ less(r).found # {} => less(r).from # <<>>
    BY <1>j DEF JobType, AtWork
  <2>4. job[w].found # {} \/ job[w].won # {} => job[w].pc = "promote"
    BY <1>j DEF AtWork
  <2> HIDE DEF none, less
  <2>5. ASSUME job[w].found # {}
        PROVE  Settled(none) \in JobType /\ AtWork(Settled(none))
    BY <2>2, <2>3, <2>5, <2>4, SettledTyped
  <2>6. ASSUME NEW r, job[w].won # {}
        PROVE  Settled(less(r)) \in JobType /\ AtWork(Settled(less(r)))
    BY <2>2, <2>3, <2>6, <2>4, SettledTyped
  <2> QED BY <1>t, <2>1, <2>5, <2>6, IdleTyped, BecomesTyped
<1>13. ASSUME NEW w \in Jobs, Crash(w)
       PROVE  JobsTyped'
  BY <1>t, <1>13, IdleTyped, BecomesTyped DEF Crash, Stop
<1> QED
  BY <1>1, <1>2, <1>3, <1>4, <1>5, <1>6, <1>7, <1>8, <1>9, <1>10, <1>11, <1>12, <1>13, ZenonT(40)
     DEF Next, Works, Finishes, Jobs, vars, PassTime, CreateGroup, DeleteGroup, CountMembers,
         ReadSettings, Submit, Vote, Begin, JoinGroup, UpdateGroup, SaveAnswer, SaveVote, Abort,
         DeleteDailySubmission, ReviewCandidate

(***************************************************************************)
(* How a step can change a group and a round.                              *)
(***************************************************************************)

\* Without a group there are no members and no rounds.
Vacant ==
  \A g \in Groups : ~Exists(g) => members[g] = {} /\ \A d \in Dates : round[g][d] = NoRound

SameGroup(g) ==
  /\ Exists(g)' <=> Exists(g)
  /\ group'[g] = Unborn <=> group[g] = Unborn
  /\ group'[g] = Gone <=> group[g] = Gone
Founded(g) == group[g] = Unborn /\ Exists(g)'
Ended(g) ==
  /\ Exists(g) /\ group'[g] = Gone /\ members'[g] = {}
  /\ \A d \in Dates : /\ round'[g][d] = NoRound
                     /\ answer'[g][d] = Nobodys /\ vote'[g][d] = Nobodys
  /\ candidate' = Withdrawn(g)

LEMMA GroupMoves ==
  ASSUME TypeDaily, [Next]_vars, NEW g \in Groups
  PROVE  SameGroup(g) \/ Founded(g) \/ Ended(g)
<1>t. TablesTyped /\ ReqsTyped
  BY TypeParts
<1>1. CASE group' = group
  BY <1>1 DEF SameGroup, Exists
<1>2. ASSUME NEW h \in Groups, NEW p \in People, NEW zone \in Zones, CreateGroup(h, p, zone)
      PROVE  SameGroup(g) \/ Founded(g)
  <2>1. CASE g = h
    BY <1>t, <1>2, <2>1 DEF CreateGroup, TablesTyped, Founded, Exists
  <2>2. CASE g # h
    BY <1>t, <1>2, <2>2 DEF CreateGroup, TablesTyped, SameGroup, Exists
  <2> QED BY <2>1, <2>2
<1>3. ASSUME NEW h \in Groups, DeleteGroup(h)
      PROVE  SameGroup(g) \/ Ended(g)
  <2>1. CASE g = h
    BY <1>t, <1>3, <2>1 DEF DeleteGroup, TablesTyped, Ended, NoRows
  <2>2. CASE g # h
    BY <1>t, <1>3, <2>2 DEF DeleteGroup, TablesTyped, SameGroup, Exists
  <2> QED BY <2>1, <2>2
<1>4. ASSUME NEW q \in Requests, UpdateGroup(q)
      PROVE  SameGroup(g)
  <2>1. req[q].group \in Groups
    BY <1>t, <1>4 DEF UpdateGroup, ReqsTyped, ReqType, IdleReq
  <2>2. CASE Exists(req[q].group) /\ g = req[q].group
    <3>1. group[g] \in [state : {"live"}, zone : Zones, hour : Hours]
      BY <1>t, <2>2, LiveGroup
    <3>2. group'[g] = [group[g] EXCEPT !.zone = req[q].zone, !.hour = req[q].hour]
      BY <1>t, <1>4, <2>1, <2>2 DEF UpdateGroup, TablesTyped
    <3>3. group[g].state = "live" /\ group'[g].state = "live"
      BY <3>1, <3>2
    <3> QED BY <3>3 DEF SameGroup, Exists, Unborn, Gone
  <2>3. CASE ~(Exists(req[q].group) /\ g = req[q].group)
    <3>1. group'[g] = group[g]
      BY <1>t, <1>4, <2>1, <2>3 DEF UpdateGroup, TablesTyped
    <3> QED BY <3>1 DEF SameGroup, Exists
  <2> QED BY <2>2, <2>3
<1> QED
  BY <1>1, <1>2, <1>3, <1>4, Kinds, ZenonT(40)
     DEF Quiet, settings, CountMembers, ReadSettings, Submit, Vote, Begin, tables, Finishes,
         JoinGroup, SaveAnswer, SaveVote, Abort, DeleteDailySubmission, InsertRound, Reveal,
         FinalizeRounds

SameRound(r) == At(round, r)' = At(round, r)
MadeBy(r) ==
  \/ \E p \in People, zone \in Zones : CreateGroup(r[1], p, zone)
  \/ \E w \in Jobs : InsertRound(w) /\ CanInsert(w) /\ Current(w).group = r[1]
Made(r) ==
  /\ MadeBy(r)
  /\ At(round, r) = NoRound
  /\ At(round, r)' # NoRound /\ At(round, r)'.state = "open" /\ Exists(r[1])'
Dropped(r) == At(round, r)' = NoRound /\ group'[r[1]] = Gone /\ Exists(r[1]) /\ ~RoundLocked(r)
Advanced(r) ==
  /\ At(round, r) # NoRound /\ At(round, r)' # NoRound
  /\ At(round, r)'.number = At(round, r).number
  /\ \/ At(round, r).state = "open" /\ At(round, r)'.state = "open"
     \/ /\ <<At(round, r).state, At(round, r)'.state>> \in {<<"open", "voting">>, <<"voting", "final">>}
        /\ At(round, r)'.reveal = At(round, r).reveal
        /\ ~RoundLocked(r)
RoundMove(r) == SameRound(r) \/ Made(r) \/ Dropped(r) \/ Advanced(r)

LEMMA MovedOne ==
  ASSUME TablesTyped, NEW due \in SUBSET Rounds, NEW state \in {"voting", "final"},
         \A o \in due : ~RoundLocked(o), Moved(due, state), NEW r \in Rounds,
         \A o \in due : At(round, o) # NoRound
                        /\ At(round, o).state = IF state = "voting" THEN "open" ELSE "voting"
  PROVE  RoundMove(r)
<1>1. r[1] \in Groups /\ r[2] \in Dates /\ r = <<r[1], r[2]>>
  BY DEF Rounds
<1>2. At(round, r)' = IF r \in due THEN [At(round, r) EXCEPT !.state = state] ELSE At(round, r)
  BY <1>1 DEF Moved, At
<1>3. CASE r \in due
  <2>1. At(round, r) \in RoundRow
    BY <1>1, <1>3 DEF TablesTyped, At
  <2>2. At(round, r)' = [At(round, r) EXCEPT !.state = state]
    BY <1>2, <1>3
  <2> DEFINE old == At(round, r)
             new == At(round, r)'
  <2>3. new = [old EXCEPT !.state = state] /\ old \in RoundRow
    BY <2>1, <2>2
  <2> HIDE DEF old, new
  <2>4. new.number = old.number /\ new.reveal = old.reveal /\ new.state = state /\ new \in RoundRow
    BY <2>3 DEF RoundRow
  <2>5. new # NoRound
    BY <2>4 DEF RoundRow, NoRound
  <2> USE DEF old, new
  <2>6. <<At(round, r).state, At(round, r)'.state>> \in {<<"open", "voting">>, <<"voting", "final">>}
    BY <1>3, <2>4
  <2>7. ~RoundLocked(r) /\ At(round, r) # NoRound
    BY <1>3
  <2> QED BY <2>4, <2>5, <2>6, <2>7 DEF RoundMove, Advanced
<1>4. CASE r \notin due
  BY <1>2, <1>4 DEF RoundMove, SameRound
<1> QED BY <1>3, <1>4

LEMMA RoundMoves ==
  ASSUME TypeDaily, Vacant, [Next]_vars, NEW r \in Rounds
  PROVE  RoundMove(r)
<1>t. TablesTyped /\ JobsTyped /\ ReqsTyped
  BY TypeParts
<1>r. r[1] \in Groups /\ r[2] \in Dates
  BY DEF Rounds
<1>n. NoRound.state = "none"
  BY DEF NoRound
<1>1. CASE round' = round
  BY <1>1 DEF RoundMove, SameRound, At
<1>2. ASSUME NEW g \in Groups, NEW p \in People, NEW zone \in Zones, CreateGroup(g, p, zone)
      PROVE  RoundMove(r)
  <2> DEFINE d == DateAt(clock, zone)
             n == NewRound(1, d, zone, DefaultHour)
  <2>1. round' = [round EXCEPT ![g][d] = n] /\ group[g] = Unborn
    BY <1>2 DEF CreateGroup
  <2>2. n.state = "open" /\ n # NoRound
    BY <1>n DEF NewRound
  <2>3. \A e \in Dates : round[g][e] = NoRound
    BY <2>1 DEF Vacant, Exists, Unborn
  <2>4. Exists(g)'
    BY <1>2, <1>t DEF CreateGroup, TablesTyped, Exists
  <2> HIDE DEF d, n
  <2>5. CASE r[1] = g /\ r[2] = d
    <3>1. At(round, r)' = n
      BY <1>t, <1>r, <2>1, <2>5 DEF At, TablesTyped
    <3>2. MadeBy(r)
      BY <1>2, <2>5 DEF MadeBy
    <3> QED BY <1>r, <2>2, <2>3, <2>4, <2>5, <3>1, <3>2 DEF RoundMove, Made, At
  <2>6. CASE ~(r[1] = g /\ r[2] = d)
    <3>1. At(round, r)' = At(round, r)
      BY <1>t, <1>r, <2>1, <2>6 DEF At, TablesTyped
    <3> QED BY <3>1 DEF RoundMove, SameRound
  <2> QED BY <2>5, <2>6
<1>3. ASSUME NEW g \in Groups, DeleteGroup(g)
      PROVE  RoundMove(r)
  <2>1. CASE r[1] = g
    <3>1. r = <<g, r[2]>>
      BY <2>1 DEF Rounds
    <3>2. ~RoundLocked(r) /\ Exists(r[1])
      BY <1>r, <1>3, <2>1, <3>1 DEF DeleteGroup
    <3>3. At(round, r)' = NoRound /\ group'[r[1]] = Gone
      BY <1>t, <1>r, <1>3, <2>1 DEF DeleteGroup, At, TablesTyped
    <3> QED BY <3>2, <3>3 DEF RoundMove, Dropped
  <2>2. CASE r[1] # g
    BY <1>t, <1>r, <1>3, <2>2 DEF DeleteGroup, RoundMove, SameRound, At, TablesTyped
  <2> QED BY <2>1, <2>2
<1>4. ASSUME NEW q \in Requests, UpdateGroup(q)
      PROVE  RoundMove(r)
  <2> DEFINE g == req[q].group
             today == DateAt(clock, req[q].zone)
             at == RevealAt(today, req[q].zone, req[q].hour)
  <2>1. g \in Groups
    BY <1>t, <1>4 DEF UpdateGroup, ReqsTyped, ReqType, IdleReq
  <2>2. CASE Retimed(<<g, today>>) /\ r[1] = g /\ r[2] = today
    <3>1. round' = [round EXCEPT ![g][today].reveal = at]
      BY <1>4, <2>2 DEF UpdateGroup
    <3> HIDE DEF today, at, g
    <3>2. At(round, r).state = "open" /\ At(round, r) \in RoundRow
      BY <1>t, <1>r, <1>n, <2>2 DEF Retimed, At, TablesTyped
    <3>3. At(round, r)' = [At(round, r) EXCEPT !.reveal = at]
      BY <1>t, <1>r, <2>2, <3>1 DEF At, TablesTyped
    <3>4. At(round, r)'.state = "open" /\ At(round, r)'.number = At(round, r).number
      BY <3>2, <3>3 DEF RoundRow
    <3> QED BY <1>n, <3>2, <3>4 DEF RoundMove, Advanced
  <2>3. CASE ~(Retimed(<<g, today>>) /\ r[1] = g /\ r[2] = today)
    <3>1. \/ round' = round
          \/ round' = [round EXCEPT ![g][today].reveal = at] /\ Retimed(<<g, today>>)
      <4>1. CASE Retimed(<<g, today>>)
        BY <1>4, <4>1 DEF UpdateGroup
      <4>2. CASE ~Retimed(<<g, today>>)
        BY <1>4, <4>2 DEF UpdateGroup
      <4> QED BY <4>1, <4>2
    <3> HIDE DEF today, at, g
    <3>2. CASE round' = round
      BY <3>2 DEF RoundMove, SameRound, At
    <3>3. CASE round' = [round EXCEPT ![g][today].reveal = at] /\ Retimed(<<g, today>>)
      <4>1. ~(r[1] = g /\ r[2] = today)
        BY <2>3, <3>3
      <4>2. round'[r[1]][r[2]] = round[r[1]][r[2]]
        BY <1>t, <1>r, <2>1, <3>3, <4>1 DEF TablesTyped
      <4> QED BY <4>2 DEF RoundMove, SameRound, At
    <3> QED BY <3>1, <3>2, <3>3
  <2> QED BY <2>2, <2>3
<1>5. ASSUME NEW w \in Jobs, InsertRound(w)
      PROVE  RoundMove(r)
  <2> DEFINE g == Current(w).group
             d == DateOf(w)
             n == NewRound(job[w].number, d, Current(w).zone, Current(w).hour)
  <2>1. \/ round' = round
        \/ /\ round' = [round EXCEPT ![g][d] = n] /\ Exists(g) /\ round[g][d] = NoRound
           /\ CanInsert(w)
    BY <1>5 DEF InsertRound, CanInsert
  <2>2. n.state = "open" /\ n # NoRound
    BY <1>n DEF NewRound
  <2>3. group' = group
    BY <1>5 DEF InsertRound, settings
  <2> HIDE DEF g, d, n
  <2>4. CASE round' # round /\ r[1] = g /\ r[2] = d
    <3>1. At(round, r)' = n /\ At(round, r) = NoRound /\ Exists(g)
      BY <1>t, <1>r, <2>1, <2>4 DEF At, TablesTyped
    <3>2. Exists(r[1])'
      BY <2>3, <2>4, <3>1 DEF Exists
    <3>3. MadeBy(r)
      BY <1>5, <2>1, <2>4 DEF MadeBy, g
    <3> QED BY <2>2, <3>1, <3>2, <3>3 DEF RoundMove, Made
  <2>5. CASE ~(round' # round /\ r[1] = g /\ r[2] = d)
    <3>1. At(round, r)' = At(round, r)
      BY <1>t, <1>r, <2>1, <2>5 DEF At, TablesTyped
    <3> QED BY <3>1 DEF RoundMove, SameRound
  <2> QED BY <2>4, <2>5
<1>6. ASSUME NEW w \in Jobs, Reveal(w)
      PROVE  RoundMove(r)
  BY <1>t, <1>6, ToRevealOpen, MovedOne DEF Reveal
<1>7. ASSUME NEW w \in Jobs, FinalizeRounds(w)
      PROVE  RoundMove(r)
  BY <1>t, <1>7, ToFinishVoting, MovedOne DEF FinalizeRounds
<1> QED
  BY <1>1, <1>2, <1>3, <1>4, <1>5, <1>6, <1>7, Kinds, ZenonT(40)
     DEF Quiet, play, CountMembers, ReadSettings, Submit, Vote, Begin, tables, Finishes,
         JoinGroup, SaveAnswer, SaveVote, Abort, DeleteDailySubmission

LEMMA MembersStay ==
  ASSUME TypeDaily, [Next]_vars, NEW g \in Groups, ~Exists(g), ~Exists(g)'
  PROVE  members'[g] = members[g]
<1>t. TablesTyped /\ ReqsTyped
  BY TypeParts
<1>1. CASE members' = members
  BY <1>1
<1>2. ASSUME NEW h \in Groups, NEW p \in People, NEW zone \in Zones, CreateGroup(h, p, zone)
      PROVE  members'[g] = members[g]
  <2>1. g # h
    BY <1>t, <1>2 DEF CreateGroup, TablesTyped, Exists
  <2> QED BY <1>t, <1>2, <2>1 DEF CreateGroup, TablesTyped
<1>3. ASSUME NEW h \in Groups, DeleteGroup(h)
      PROVE  members'[g] = members[g]
  BY <1>t, <1>3 DEF DeleteGroup, TablesTyped
<1>4. ASSUME NEW q \in Requests, JoinGroup(q)
      PROVE  members'[g] = members[g]
  BY <1>t, <1>4 DEF JoinGroup, TablesTyped
<1> QED
  BY <1>1, <1>2, <1>3, <1>4, Kinds, ZenonT(40)
     DEF Quiet, settings, CountMembers, ReadSettings, Submit, Vote, Begin, tables, Finishes,
         UpdateGroup, SaveAnswer, SaveVote, Abort, DeleteDailySubmission, InsertRound, Reveal,
         FinalizeRounds

LEMMA VacantStep ==
  ASSUME TypeDaily, Vacant, [Next]_vars
  PROVE  Vacant'
<1> SUFFICES ASSUME NEW g \in Groups, ~Exists(g)'
             PROVE  members'[g] = {} /\ \A d \in Dates : round'[g][d] = NoRound
  BY DEF Vacant
<1>1. SameGroup(g) \/ Ended(g)
  BY GroupMoves DEF Founded
<1>2. CASE SameGroup(g)
  <2>1. ~Exists(g)
    BY <1>2 DEF SameGroup
  <2>2. members'[g] = {}
    BY <2>1, MembersStay DEF Vacant
  <2>3. ASSUME NEW d \in Dates PROVE round'[g][d] = NoRound
    <3> DEFINE r == <<g, d>>
    <3>1. r \in Rounds /\ At(round, r) = NoRound /\ At(round, r)' = round'[g][d] /\ r[1] = g
      BY <2>1 DEF Rounds, At, Vacant
    <3>2. RoundMove(r)
      BY <3>1, RoundMoves
    <3> QED BY <3>1, <3>2 DEF RoundMove, SameRound, Made, Dropped, Advanced
  <2> QED BY <2>2, <2>3
<1>3. CASE Ended(g)
  BY <1>3 DEF Ended
<1> QED BY <1>1, <1>2, <1>3

(***************************************************************************)
(* Numbers.                                                                *)
(***************************************************************************)

Dated(g) == {d \in Dates : round[g][d] # NoRound}
BornListings == {l \in Listing : group[l.group] # Unborn}

\* What a job goes through and the date it works on are in the tables' range, no two
\* jobs insert into one group, and whoever inserts has the next number and a free date.
WorkInv ==
  /\ \A w \in Jobs : job[w].now <= MaxTime /\ job[w].todo \in Seq(BornListings)
  /\ \A v, w \in Jobs :
       job[v].pc = "insert" /\ job[w].pc = "insert" /\ Current(v).group = Current(w).group => v = w
  /\ \A w \in Jobs : job[w].pc = "insert" /\ Exists(Current(w).group) =>
       /\ job[w].number = Cardinality(Dated(Current(w).group)) + 1
       /\ round[Current(w).group][DateOf(w)] = NoRound

LEMMA DatesCover ==
  ASSUME NEW t \in 0..MaxTime, NEW zone \in Zones
  PROVE  DateAt(t, zone) \in Dates
<1> DEFINE a == t + Offset[zone]
           b == MaxTime + Day
<1>1. a \in Nat /\ b \in Nat /\ a <= b /\ Day \in Nat \ {0}
  BY ClockAssumption
<1> HIDE DEF a, b
<1>2. a \div Day \in Nat /\ b \div Day \in Nat
  BY <1>1
<1>3. /\ Day * (a \div Day) <= a
      /\ b < Day * (b \div Day) + Day
  BY <1>1
<1>4. a \div Day <= b \div Day
  <2> DEFINE x == a \div Day
             y == b \div Day
  <2>1. x \in Nat /\ y \in Nat /\ Day * x <= a /\ b < Day * y + Day
    BY <1>2, <1>3
  <2> HIDE DEF x, y
  <2>2. x > y => Day * x >= Day * y + Day
    <3> SUFFICES ASSUME x > y PROVE Day * x >= Day * y + Day
      OBVIOUS
    <3>1. x = y + 1 + (x - y - 1) /\ x - y - 1 \in Nat
      BY <2>1
    <3>2. Day * x = Day * y + Day + Day * (x - y - 1)
      BY <1>1, <2>1, <3>1
    <3>3. Day * (x - y - 1) \in Nat
      BY <1>1, <3>1
    <3> QED BY <1>1, <2>1, <3>2, <3>3
  <2>3. x <= y
    BY <1>1, <2>1, <2>2
  <2> QED BY <2>3 DEF x, y
<1> QED BY <1>2, <1>4 DEF DateAt, Dates, a, b

LEMMA NumbersByDate ==
  ASSUME NEW g
  PROVE  Numbers(g) = {round[g][d].number : d \in Dated(g)}
BY DEF Numbers, Dated

\* A group in which no round is made or dropped keeps its dates and numbers.
LEMMA NumbersKept ==
  ASSUME NEW g \in Groups, \A d \in Dates : SameRound(<<g, d>>) \/ Advanced(<<g, d>>)
  PROVE  Dated(g)' = Dated(g) /\ Numbers(g)' = Numbers(g)
<1>1. \A d \in Dates : /\ round'[g][d] = NoRound <=> round[g][d] = NoRound
                       /\ round[g][d] # NoRound => round'[g][d].number = round[g][d].number
  BY DEF SameRound, Advanced, At
<1>2. Dated(g)' = Dated(g)
  BY <1>1 DEF Dated
<1>3. Numbers(g)' = {round'[g][d].number : d \in Dated(g)}
  BY <1>2 DEF Numbers, Dated
<1>4. \A d \in Dated(g) : round'[g][d].number = round[g][d].number
  BY <1>1 DEF Dated
<1> QED BY <1>2, <1>3, <1>4, NumbersByDate

\* What happens to the rounds of one group: nothing to their dates, or they end with
\* it, or one is made.
LEMMA GroupRounds ==
  ASSUME TypeDaily, Vacant, [Next]_vars, NEW g \in Groups
  PROVE  \/ Dated(g)' = Dated(g) /\ Numbers(g)' = Numbers(g)
         \/ Ended(g)
         \/ MadeBy(<<g, 0>>)
<1>1. \A d \in Dates : <<g, d>> \in Rounds /\ RoundMove(<<g, d>>)
  BY RoundMoves DEF Rounds
<1>2. CASE \E d \in Dates : Made(<<g, d>>)
  BY <1>2 DEF Made, MadeBy
<1>3. CASE \E d \in Dates : Dropped(<<g, d>>)
  <2>1. group'[g] = Gone /\ Exists(g)
    BY <1>3 DEF Dropped
  <2>2. Ended(g)
    BY <2>1, GroupMoves DEF SameGroup, Founded, Exists, Gone, Unborn
  <2> QED BY <2>2
<1>4. CASE ~(\E d \in Dates : Made(<<g, d>>)) /\ ~(\E d \in Dates : Dropped(<<g, d>>))
  <2>1. \A d \in Dates : SameRound(<<g, d>>) \/ Advanced(<<g, d>>)
    BY <1>1, <1>4 DEF RoundMove
  <2> QED BY <2>1, NumbersKept
<1> QED BY <1>2, <1>3, <1>4

LEMMA FirstNumbered ==
  ASSUME TypeDaily, Vacant, NEW g \in Groups, NEW p \in People, NEW zone \in Zones,
         CreateGroup(g, p, zone)
  PROVE  Numbers(g)' = 1..Cardinality(Dated(g)')
<1> DEFINE d == DateAt(clock, zone)
           n == NewRound(1, d, zone, DefaultHour)
<1>1. TablesTyped
  BY TypeParts
<1>2. d \in Dates
  BY <1>1, DatesCover DEF TablesTyped
<1>3. round' = [round EXCEPT ![g][d] = n] /\ \A e \in Dates : round[g][e] = NoRound
  BY DEF CreateGroup, Vacant, Exists, Unborn
<1>4. n # NoRound /\ n.number = 1
  BY DEF NewRound, NoRound
<1> HIDE DEF d, n
<1>5. \A e \in Dates : round'[g][e] = IF e = d THEN n ELSE NoRound
  BY <1>1, <1>2, <1>3 DEF TablesTyped
<1>6. Dated(g)' = {d}
  BY <1>2, <1>4, <1>5 DEF Dated
<1>7. Numbers(g)' = {1}
  BY <1>2, <1>4, <1>5 DEF Numbers
<1>8. Cardinality({d}) = 1
  BY FS_Singleton
<1> QED BY <1>6, <1>7, <1>8

LEMMA NextNumbered ==
  ASSUME TypeDaily, WorkInv, Numbered, NEW g \in Groups, NEW w \in Jobs,
         InsertRound(w), CanInsert(w), Current(w).group = g
  PROVE  Numbers(g)' = 1..Cardinality(Dated(g)')
<1> DEFINE d == DateOf(w)
           n == NewRound(job[w].number, d, Current(w).zone, Current(w).hour)
           k == Cardinality(Dated(g))
<1>1. TablesTyped /\ job[w] \in JobType /\ job[w].todo # <<>>
  BY TypeParts DEF JobsTyped, InsertRound, AtWork
<1>2. d \in Dates
  <2>1. Current(w).zone \in Zones /\ job[w].now \in 0..MaxTime
    <3>1. job[w].now \in Nat /\ job[w].now <= MaxTime /\ Head(job[w].todo) \in Listing
      BY <1>1, JobFields DEF WorkInv
    <3> QED BY <3>1, ClockAssumption DEF Current, Listing
  <2> QED BY <2>1, DatesCover DEF DateOf
<1>3. /\ round' = [round EXCEPT ![g][d] = n] /\ round[g][d] = NoRound
      /\ job[w].number = k + 1
  BY DEF InsertRound, CanInsert, WorkInv
<1>4. n # NoRound /\ n.number = k + 1
  BY <1>3 DEF NewRound, NoRound
<1>5. IsFiniteSet(Dated(g)) /\ k \in Nat /\ Numbers(g) = 1..k
  BY DatedFinite DEF Dated, Numbered
<1> HIDE DEF d, n, k
<1>6. \A e \in Dates : round'[g][e] = IF e = d THEN n ELSE round[g][e]
  BY <1>1, <1>2, <1>3 DEF TablesTyped
<1>7. Dated(g)' = Dated(g) \cup {d} /\ d \notin Dated(g)
  BY <1>2, <1>3, <1>4, <1>6 DEF Dated
<1>8. Cardinality(Dated(g) \cup {d}) = k + 1
  BY <1>5, <1>7, FS_AddElement DEF k
<1>9. Numbers(g)' = Numbers(g) \cup {k + 1}
  <2>1. Numbers(g)' = {round'[g][e].number : e \in Dated(g)'}
    BY DEF Numbers, Dated
  <2>2. \A e \in Dated(g)' : round'[g][e].number = IF e = d THEN k + 1 ELSE round[g][e].number
    BY <1>4, <1>6 DEF Dated
  <2>3. Numbers(g) = {round[g][e].number : e \in Dated(g)}
    BY NumbersByDate
  <2> QED BY <1>7, <2>1, <2>2, <2>3
<1> QED BY <1>5, <1>7, <1>8, <1>9

LEMMA NumberedStep ==
  ASSUME TypeDaily, Vacant, WorkInv, Numbered, [Next]_vars
  PROVE  Numbered'
<1> SUFFICES ASSUME NEW g \in Groups
             PROVE  Numbers(g)' = 1..Cardinality(Dated(g)')
  BY DEF Numbered, Dated
<1>1. CASE Dated(g)' = Dated(g) /\ Numbers(g)' = Numbers(g)
  BY <1>1 DEF Numbered, Dated
<1>2. CASE Ended(g)
  <2>1. Dated(g)' = {} /\ Numbers(g)' = {}
    BY <1>2 DEF Ended, Dated, Numbers
  <2> QED BY <2>1, FS_EmptySet
<1>3. CASE MadeBy(<<g, 0>>)
  BY <1>3, FirstNumbered, NextNumbered DEF MadeBy
<1> QED BY <1>1, <1>2, <1>3, GroupRounds

-----------------------------------------------------------------------------
(* Jobs at work.                                                           *)

Finds(w) ==
  /\ job'[w].number = Max(Numbers(Current(w).group) \cup {0}) + 1
  /\ job[w].todo # <<>> /\ job'[w].todo = job[w].todo /\ job'[w].now = job[w].now
  /\ ~Locked(Current(w).group) /\ round[Current(w).group][DateOf(w)] = NoRound
  /\ UNCHANGED <<round, group>>
Lists(w) ==
  /\ UNCHANGED group
  /\ \/ job'[w].todo = SetToSeq({Listed(g) : g \in {h \in Groups : Exists(h)}})
     \/ \E g \in Groups : Exists(g) /\ job'[w].todo = <<Listed(g)>>
JobMove(w) ==
  /\ \A v \in Jobs \ {w} : job'[v] = job[v]
  /\ job'[w].now \in {job[w].now, clock, 0}
  /\ \/ job'[w].todo \in {job[w].todo, <<>>}
     \/ job[w].todo # <<>> /\ job'[w].todo = Tail(job[w].todo)
     \/ Lists(w)
  /\ job'[w].pc = "insert" => Finds(w)
  /\ job[w].pc = "insert" => job'[w].pc # "insert"

LEMMA SettledMove ==
  ASSUME NEW j
  PROVE  \/ Settled(j) = IdleJob
         \/ Settled(j) = j
BY DEF Settled

LEMMA JobMoves ==
  ASSUME TypeDaily, [Next]_vars
  PROVE  UNCHANGED job \/ \E w \in Jobs : JobMove(w)
<1>j. job \in [Jobs -> JobType] /\ \A w \in Jobs : AtWork(job[w])
  BY TypeParts DEF JobsTyped
<1>i. IdleJob.now = 0 /\ IdleJob.todo = <<>> /\ IdleJob.pc = "idle"
  BY DEF IdleJob
<1>b. ASSUME NEW w \in Jobs, NEW state, Becomes(w, state)
      PROVE  job'[w] = state /\ \A v \in Jobs \ {w} : job'[v] = job[v]
  BY <1>b, <1>j DEF Becomes
<1>s. ASSUME NEW w \in Jobs, Stop(w)
      PROVE  JobMove(w)
  BY <1>s, <1>b, <1>i DEF Stop, JobMove
<1>e. ASSUME NEW w \in Jobs, NEW j, j.pc = "promote", j.now = job[w].now,
             j.todo = job[w].todo, Becomes(w, j) \/ Becomes(w, Settled(j))
      PROVE  JobMove(w)
  <2>1. Becomes(w, j) \/ Stop(w)
    BY <1>e, SettledMove DEF Stop
  <2> QED BY <1>b, <1>s, <1>e, <2>1 DEF JobMove
<1>2. ASSUME NEW w \in Jobs, Tick(w)
      PROVE  JobMove(w)
  <2> DEFINE j == [[[IdleJob EXCEPT !.pc = "list"] EXCEPT !.now = clock] EXCEPT !.scope = Groups]
  <2>1. Becomes(w, j)
    BY <1>2 DEF Tick
  <2>2. j.pc = "list" /\ j.now = clock /\ j.todo = <<>>
    BY DEF IdleJob
  <2> HIDE DEF j
  <2> QED BY <1>b, <2>1, <2>2 DEF JobMove
<1>3. ASSUME NEW w \in Jobs, ListGroups(w)
      PROVE  JobMove(w)
  <2> DEFINE todo == SetToSeq({Listed(g) : g \in {h \in Groups : Exists(h)}})
             j == [job[w] EXCEPT !.pc = "ensure", !.todo = todo]
  <2>1. Becomes(w, j) /\ group' = group /\ job[w].pc = "list"
    BY <1>3 DEF ListGroups, tables, settings
  <2>2. j.pc = "ensure" /\ j.now = job[w].now /\ j.todo = todo
    BY <1>j DEF JobType
  <2> HIDE DEF j
  <2> QED BY <1>b, <2>1, <2>2 DEF JobMove, Lists
<1>4. ASSUME NEW w \in Jobs, NEW g \in Groups, Today(w, g)
      PROVE  JobMove(w)
  <2> DEFINE j == [[[IdleJob EXCEPT !.pc = "now"] EXCEPT !.scope = {g}] EXCEPT !.todo = <<Listed(g)>>]
  <2>1. Becomes(w, j) /\ group' = group /\ job[w].pc = "idle" /\ Exists(g)
    BY <1>4 DEF Today, tables, settings
  <2>2. j.pc = "now" /\ j.now = 0 /\ j.todo = <<Listed(g)>>
    BY DEF IdleJob
  <2> HIDE DEF j
  <2> QED BY <1>b, <2>1, <2>2 DEF JobMove, Lists
<1>5. ASSUME NEW w \in Jobs, ReadNow(w)
      PROVE  JobMove(w)
  <2> DEFINE j == [job[w] EXCEPT !.pc = "ensure", !.now = clock]
  <2>1. Becomes(w, j) /\ job[w].pc = "now"
    BY <1>5 DEF ReadNow
  <2>2. j.pc = "ensure" /\ j.now = clock /\ j.todo = job[w].todo
    BY <1>j DEF JobType
  <2> HIDE DEF j
  <2> QED BY <1>b, <2>1, <2>2 DEF JobMove
<1>6. ASSUME NEW w \in Jobs, FindRound(w)
      PROVE  JobMove(w)
  <2> DEFINE n == Max(Numbers(Current(w).group) \cup {0}) + 1
             next == [job[w] EXCEPT !.todo = Tail(job[w].todo)]
             insert == [job[w] EXCEPT !.pc = "insert", !.number = n]
  <2>1. /\ job[w].pc = "ensure" /\ job[w].todo # <<>> /\ ~Locked(Current(w).group)
        /\ UNCHANGED <<round, group>>
        /\ \/ Becomes(w, next)
           \/ Becomes(w, insert) /\ round[Current(w).group][DateOf(w)] = NoRound
    BY <1>6 DEF FindRound, tables, settings, play
  <2>2. /\ next.pc = job[w].pc /\ next.now = job[w].now /\ next.todo = Tail(job[w].todo)
        /\ insert.pc = "insert" /\ insert.now = job[w].now /\ insert.todo = job[w].todo
        /\ insert.number = n
    BY <1>j DEF JobType
  <2> HIDE DEF next, insert
  <2>3. CASE Becomes(w, next)
    BY <1>b, <2>1, <2>2, <2>3 DEF JobMove
  <2>4. CASE Becomes(w, insert) /\ round[Current(w).group][DateOf(w)] = NoRound
    BY <1>b, <2>1, <2>2, <2>4 DEF JobMove, Finds
  <2> QED BY <2>1, <2>3, <2>4
<1>7. ASSUME NEW w \in Jobs, InsertRound(w)
      PROVE  JobMove(w)
  <2> DEFINE next == [job[w] EXCEPT !.pc = "ensure", !.todo = Tail(job[w].todo)]
  <2>1. job[w].pc = "insert" /\ (Becomes(w, next) \/ Stop(w)) /\ job[w].todo # <<>>
    BY <1>7, <1>j DEF InsertRound, AtWork
  <2>2. next.pc = "ensure" /\ next.now = job[w].now /\ next.todo = Tail(job[w].todo)
    BY <1>j DEF JobType
  <2> HIDE DEF next
  <2> QED BY <1>b, <1>s, <2>1, <2>2 DEF JobMove
<1>8. ASSUME NEW w \in Jobs, Reveal(w)
      PROVE  JobMove(w)
  <2> DEFINE next == [job[w] EXCEPT !.pc = "finalize"]
  <2>1. job[w].pc = "ensure" /\ Becomes(w, next)
    BY <1>8 DEF Reveal
  <2>2. next.pc = "finalize" /\ next.now = job[w].now /\ next.todo = job[w].todo
    BY <1>j DEF JobType
  <2> HIDE DEF next
  <2> QED BY <1>b, <2>1, <2>2 DEF JobMove
<1>9. ASSUME NEW w \in Jobs, FinalizeRounds(w)
      PROVE  JobMove(w)
  <2> DEFINE next == [job[w] EXCEPT !.pc = "promote", !.won = Harvested(w)]
  <2>1. Becomes(w, Settled(next))
    BY <1>9 DEF FinalizeRounds
  <2>2. next.pc = "promote" /\ next.now = job[w].now /\ next.todo = job[w].todo
    BY <1>j DEF JobType
  <2> HIDE DEF next
  <2> QED BY <1>e, <2>1, <2>2
<1>10. ASSUME NEW w \in Jobs, NEW r \in job[w].won, SelectCandidates(w, r)
       PROVE  JobMove(w)
  <2> DEFINE next(kept) == [job[w] EXCEPT !.won = job[w].won \ {r}, !.from = r, !.found = kept]
  <2>1. job[w].pc = "promote" /\ \E kept : Becomes(w, Settled(next(kept)))
    BY <1>10 DEF SelectCandidates
  <2>2. \A kept : next(kept).pc = job[w].pc /\ next(kept).now = job[w].now /\ next(kept).todo = job[w].todo
    BY <1>j DEF JobType
  <2> HIDE DEF next
  <2> QED BY <1>e, <2>1, <2>2
<1>11. ASSUME NEW w \in Jobs, \/ Fault(w)
                              \/ \E c \in job[w].found : SaveCandidate(w, c)
       PROVE  JobMove(w)
  <2> DEFINE less(found) == [job[w] EXCEPT !.found = found]
             fewer(won) == [job[w] EXCEPT !.won = won]
  <2>1. \/ Stop(w)
        \/ /\ job[w].found # {} \/ job[w].won # {}
           /\ \/ \E found : Becomes(w, Settled(less(found)))
              \/ \E won : Becomes(w, Settled(fewer(won)))
    BY <1>11 DEF SaveCandidate, Fault
  <2>2. \A x : /\ less(x).pc = job[w].pc /\ less(x).now = job[w].now /\ less(x).todo = job[w].todo
               /\ fewer(x).pc = job[w].pc /\ fewer(x).now = job[w].now /\ fewer(x).todo = job[w].todo
    BY <1>j DEF JobType
  <2>3. job[w].found # {} \/ job[w].won # {} => job[w].pc = "promote"
    BY <1>j DEF AtWork
  <2> HIDE DEF less, fewer
  <2> QED BY <1>e, <1>s, <2>1, <2>2, <2>3
<1>12. ASSUME NEW w \in Jobs, Crash(w)
       PROVE  JobMove(w)
  BY <1>12, <1>s DEF Crash
<1> QED
  BY <1>2, <1>3, <1>4, <1>5, <1>6, <1>7, <1>8, <1>9, <1>10, <1>11, <1>12, ZenonT(40)
     DEF Next, Works, Finishes, Jobs, vars, PassTime, CreateGroup, DeleteGroup, CountMembers,
         ReadSettings, Submit, Vote, Begin, JoinGroup, UpdateGroup, SaveAnswer, SaveVote, Abort,
         DeleteDailySubmission, ReviewCandidate

LEMMA BornStay ==
  ASSUME TypeDaily, [Next]_vars
  PROVE  Seq(BornListings) \subseteq Seq(BornListings')
<1>1. ASSUME NEW g \in Groups, group[g] # Unborn PROVE group'[g] # Unborn
  BY <1>1, GroupMoves DEF SameGroup, Founded, Ended, Gone, Unborn
<1>2. BornListings \subseteq BornListings'
  BY <1>1 DEF BornListings, Listing
<1> QED BY <1>2, SeqMonotonic

LEMMA ListsBorn ==
  ASSUME TypeDaily, NEW w, Lists(w)
  PROVE  job'[w].todo \in Seq(BornListings')
<1>t. TablesTyped
  BY TypeParts
<1>1. ASSUME NEW g \in Groups, Exists(g) PROVE Listed(g) \in BornListings
  <2>1. Listed(g) \in Listing /\ Listed(g).group = g
    BY <1>t, <1>1, LiveGroup DEF Listed, Listing
  <2> QED BY <1>1, <2>1 DEF BornListings, Exists, Unborn
<1>2. BornListings' = BornListings
  BY DEF Lists, BornListings
<1> DEFINE S == {Listed(g) : g \in {h \in Groups : Exists(h)}}
<1>3. CASE job'[w].todo = SetToSeq(S)
  <2>1. S \subseteq BornListings
    BY <1>1
  <2>2. SetToSeq(S) \in Seq(S)
    BY <1>t, GroupsListed
  <2> QED BY <1>2, <1>3, <2>1, <2>2, SeqMonotonic
<1>4. ASSUME NEW g \in Groups, Exists(g), job'[w].todo = <<Listed(g)>>
      PROVE  job'[w].todo \in Seq(BornListings')
  <2>1. <<Listed(g)>> \in Seq(BornListings)
    BY <1>1, <1>4
  <2> QED BY <1>2, <1>4, <2>1
<1> QED BY <1>3, <1>4 DEF Lists

\* What a job that waits to insert relies on, while it holds the lock of its group.
LEMMA StillFree ==
  ASSUME TypeDaily, Vacant, WorkInv, Numbered, [Next]_vars, NEW w \in Jobs,
         job[w].pc = "insert", job'[w] = job[w], Exists(Current(w).group)'
  PROVE  /\ job'[w].number = Cardinality(Dated(Current(w).group)') + 1
         /\ round'[Current(w).group][DateOf(w)] = NoRound
<1> DEFINE g == Current(w).group
<1>1. job[w] \in JobType /\ job[w].todo # <<>> /\ job[w].todo \in Seq(BornListings)
  BY TypeParts DEF JobsTyped, AtWork, WorkInv
<1>2. g \in Groups /\ group[g] # Unborn /\ Current(w) \in Listing
  BY <1>1, HeadTailProperties DEF Current, BornListings, Listing
<1>3. Current(w)' = Current(w) /\ DateOf(w)' = DateOf(w)
  BY DEF Current, DateOf
<1>4. SameGroup(g) /\ Exists(g)
  BY <1>2, <1>3, GroupMoves DEF SameGroup, Founded, Ended, Exists, Gone
<1>5. ~MadeBy(<<g, 0>>)
  <2>1. \A p \in People, zone \in Zones : ~CreateGroup(g, p, zone)
    BY <1>2 DEF CreateGroup
  <2>2. ASSUME NEW v \in Jobs, InsertRound(v), Current(v).group = g PROVE FALSE
    <3>1. v = w
      BY <2>2 DEF InsertRound, WorkInv
    <3>2. job'[v].pc # "insert"
      <4>1. job[v].pc = "insert" /\ (Stop(v) \/ Becomes(v, [job[v] EXCEPT !.pc = "ensure", !.todo = Tail(job[v].todo)]))
        BY <2>2 DEF InsertRound
      <4>2. job \in [Jobs -> JobType]
        BY TypeParts DEF JobsTyped
      <4>3. CASE Stop(v)
        BY <4>2, <4>3 DEF Stop, Becomes, IdleJob
      <4>4. CASE Becomes(v, [job[v] EXCEPT !.pc = "ensure", !.todo = Tail(job[v].todo)])
        BY <4>2, <4>4 DEF Becomes, JobType
      <4> QED BY <4>1, <4>3, <4>4
    <3> QED BY <3>1, <3>2
  <2> QED BY <2>1, <2>2 DEF MadeBy
<1>6. ~Ended(g)
  BY <1>4 DEF Ended, SameGroup, Exists, Gone
<1>7. Dated(g)' = Dated(g)
  <2>1. PICK h \in Groups : h = g
    BY <1>2
  <2>2. Dated(h)' = Dated(h)
    BY <1>5, <1>6, <2>1, GroupRounds DEF MadeBy, Ended
  <2> QED BY <1>3, <2>1, <2>2
<1>8. job[w].number = Cardinality(Dated(g)) + 1 /\ round[g][DateOf(w)] = NoRound
  BY <1>4 DEF WorkInv
<1>9. DateOf(w) \in Dates
  <2>1. job[w].now \in Nat /\ job[w].now <= MaxTime
    BY <1>1, JobFields DEF WorkInv
  <2>2. job[w].now \in 0..MaxTime /\ Current(w).zone \in Zones
    BY <1>2, <2>1, ClockAssumption DEF Listing
  <2> QED BY <2>2, DatesCover DEF DateOf
<1>10. round'[g][DateOf(w)] = NoRound
  BY <1>3, <1>7, <1>8, <1>9 DEF Dated
<1> QED BY <1>7, <1>8, <1>10

LEMMA WorkStep ==
  ASSUME TypeDaily, Vacant, WorkInv, Numbered, [Next]_vars
  PROVE  WorkInv'
<1>t. TablesTyped /\ JobsTyped /\ \A w \in Jobs : job[w] \in JobType /\ AtWork(job[w])
  BY TypeParts DEF JobsTyped
<1>1. ASSUME NEW w \in Jobs
      PROVE  job'[w].now <= MaxTime /\ job'[w].todo \in Seq(BornListings')
  <2>1. job[w].now <= MaxTime /\ job[w].todo \in Seq(BornListings) /\ clock <= MaxTime /\ 0 <= MaxTime
    BY <1>t, ClockAssumption DEF WorkInv, TablesTyped
  <2>2. job[w].todo \in Seq(BornListings')
    BY <2>1, BornStay
  <2>3. CASE job'[w] = job[w]
    BY <2>1, <2>2, <2>3
  <2>4. CASE JobMove(w)
    <3>1. job'[w].now <= MaxTime
      BY <2>1, <2>4 DEF JobMove
    <3>2. CASE Lists(w)
      BY <3>1, <3>2, ListsBorn
    <3>3. CASE job'[w].todo \in {job[w].todo, <<>>}
      BY <2>2, <3>1, <3>3, EmptySeq
    <3>4. CASE job[w].todo # <<>> /\ job'[w].todo = Tail(job[w].todo)
      BY <2>2, <3>1, <3>4, HeadTailProperties
    <3> QED BY <2>4, <3>2, <3>3, <3>4 DEF JobMove
  <2> QED BY <2>3, <2>4, JobMoves DEF JobMove
<1>2. ASSUME NEW v \in Jobs, NEW w \in Jobs, job'[v].pc = "insert", job'[w].pc = "insert",
             Current(v)'.group = Current(w)'.group
      PROVE  v = w
  <2>1. CASE job'[v] = job[v] /\ job'[w] = job[w]
    BY <1>2, <2>1 DEF WorkInv, Current
  <2>2. ASSUME NEW x \in Jobs, NEW o \in Jobs, x # o, JobMove(x), job'[x].pc = "insert",
               job'[o].pc = "insert", Current(x)'.group = Current(o)'.group
        PROVE  FALSE
    <3>1. Finds(x) /\ job'[o] = job[o]
      BY <2>2 DEF JobMove
    <3>2. Current(x)' = Current(x) /\ Current(o)' = Current(o)
      BY <3>1 DEF Finds, Current
    <3> QED BY <2>2, <3>1, <3>2 DEF Finds, Locked
  <2> QED BY <1>2, <2>1, <2>2, JobMoves DEF JobMove
<1>3. ASSUME NEW w \in Jobs, job'[w].pc = "insert", Exists(Current(w).group)'
      PROVE  /\ job'[w].number = Cardinality(Dated(Current(w).group)') + 1
             /\ round'[Current(w)'.group][DateOf(w)'] = NoRound
  <2>1. CASE job'[w] = job[w]
    <3>1. Current(w)' = Current(w) /\ DateOf(w)' = DateOf(w)
      BY <2>1 DEF Current, DateOf
    <3> QED BY <1>3, <2>1, <3>1, StillFree
  <2>2. CASE JobMove(w)
    <3> DEFINE g == Current(w).group
               k == Cardinality(Dated(g))
    <3>1. Finds(w)
      BY <1>3, <2>2 DEF JobMove
    <3>2. Current(w)' = Current(w) /\ DateOf(w)' = DateOf(w) /\ Dated(g)' = Dated(g)
      BY <3>1 DEF Finds, Current, DateOf, Dated
    <3>3. g \in Groups
      BY <1>t, <3>1, JobFields DEF Finds, Current, Listing
    <3>4. k \in Nat /\ Numbers(g) = 1..k
      BY <3>3, DatedFinite DEF Dated, Numbered
    <3>5. job'[w].number = k + 1
      BY <3>1, <3>4, NextNumber DEF Finds
    <3> QED BY <3>1, <3>2, <3>5 DEF Finds
  <2> QED BY <2>1, <2>2, JobMoves DEF JobMove
<1> QED BY <1>1, <1>2, <1>3 DEF WorkInv

DailyInv == TypeDaily /\ Vacant /\ WorkInv /\ Numbered

LEMMA UsedStep ==
  ASSUME UsedTyped, [Next]_vars
  PROVE  UsedTyped'
<1>1. ASSUME NEW k \in Events, Happens(k) PROVE UsedTyped'
  <2> DEFINE f == [used EXCEPT ![k] = used[k] + 1]
  <2>1. used' = [f EXCEPT !["any"] = used["any"] + 1]
    BY <1>1 DEF Happens
  <2>2. f \in [Events -> Nat] /\ used["any"] + 1 \in Nat
    BY <1>1 DEF UsedTyped, Events
  <2> HIDE DEF f
  <2> QED BY <2>1, <2>2 DEF UsedTyped
<1>2. CASE UNCHANGED used
  BY <1>2 DEF UsedTyped
<1> QED
  BY <1>1, <1>2, ZenonT(40)
     DEF Events, Next, Works, Finishes, vars, PassTime, CreateGroup, DeleteGroup, CountMembers,
         ReadSettings, Submit, Vote, Begin, JoinGroup, UpdateGroup, SaveAnswer, SaveVote, Abort,
         DeleteDailySubmission, ReviewCandidate, Tick, ListGroups, Today, ReadNow, FindRound,
         InsertRound, Reveal, FinalizeRounds, SelectCandidates, SaveCandidate, Fault, Crash

LEMMA DailyInvInit == Init => DailyInv
<1> SUFFICES ASSUME Init PROVE DailyInv
  OBVIOUS
<1> USE DEF Init, Empty
<1>1. TablesTyped
  <2>1. clock \in 0..MaxTime
    BY ClockAssumption
  <2> QED BY <2>1 DEF TablesTyped, GroupType, NoRows, Nobodys
<1>2. JobsTyped
  BY IdleTyped DEF JobsTyped
<1>3. ReqsTyped /\ UsedTyped
  BY DEF ReqsTyped, ReqType, UsedTyped
<1>4. TypeDaily
  BY <1>1, <1>2, <1>3, TypeParts
<1>5. Vacant
  BY DEF Vacant
<1>6. WorkInv
  <2>1. <<>> \in Seq(BornListings) /\ 0 <= MaxTime
    BY EmptySeq, ClockAssumption
  <2> QED BY <2>1 DEF WorkInv, IdleJob
<1>7. Numbered
  <2>1. \A g \in Groups : {d \in Dates : round[g][d] # NoRound} = {}
    OBVIOUS
  <2>2. \A g \in Groups : Numbers(g) = {}
    BY <2>1 DEF Numbers
  <2>3. Cardinality({}) = 0 /\ 1..0 = {}
    BY FS_EmptySet
  <2> QED BY <2>1, <2>2, <2>3 DEF Numbered
<1> QED BY <1>4, <1>5, <1>6, <1>7 DEF DailyInv

LEMMA DailyInvStep == DailyInv /\ [Next]_vars => DailyInv'
<1> SUFFICES ASSUME DailyInv, [Next]_vars PROVE DailyInv'
  OBVIOUS
<1> USE DEF DailyInv
<1>1. TablesTyped' /\ ReqsTyped' /\ JobsTyped' /\ UsedTyped'
  BY TypeParts, TablesStep, ReqsStep, JobsStep, UsedStep
<1>2. TypeDaily'
  BY <1>1 DEF TypeDaily, TablesTyped, JobsTyped, ReqsTyped, UsedTyped, GroupType, RoundRow, CandidateType
<1> QED BY <1>2, VacantStep, WorkStep, NumberedStep

LEMMA DailyInvAlways == Spec => []DailyInv
BY DailyInvInit, DailyInvStep, PTL DEF Spec

\* Every variable keeps its type, and whoever is at work has something left to do.
THEOREM DailyIsTyped == Spec => []TypeDaily
<1>1. DailyInv => TypeDaily
  BY DEF DailyInv
<1> QED BY <1>1, DailyInvAlways, PTL

\* Rounds are numbered without gaps, and no two workers or views ever insert the
\* same date or number: the lock of the group is enough.
THEOREM NoInsertConflicts == Spec => []InsertsNeverConflict
<1>1. DailyInv => InsertsNeverConflict
  <2> SUFFICES ASSUME DailyInv, NEW w \in Jobs, job[w].pc = "insert", Exists(Current(w).group)
               PROVE  CanInsert(w)
    BY DEF DailyInv, Numbered, InsertsNeverConflict
  <2> DEFINE g == Current(w).group
             k == Cardinality(Dated(g))
  <2>1. job[w] \in JobType /\ job[w].todo # <<>>
    BY TypeParts DEF DailyInv, JobsTyped, AtWork
  <2>2. g \in Groups
    BY <2>1, JobFields DEF Current, Listing
  <2>3. k \in Nat /\ Numbers(g) = 1..k
    BY <2>2, DatedFinite DEF DailyInv, Numbered, Dated
  <2>4. job[w].number = k + 1 /\ round[g][DateOf(w)] = NoRound
    BY DEF DailyInv, WorkInv
  <2> QED BY <2>3, <2>4 DEF CanInsert
<1> QED BY <1>1, DailyInvAlways, PTL

\* Once a round is revealed, nobody moves its number or deadlines.
THEOREM RevealedStays == Spec => RevealedIsLeftAlone
<1> DEFINE LeftAlone ==
      \A r \in Rounds : At(round, r).state \in {"voting", "final"} /\ At(round, r)' # NoRound =>
        /\ At(round, r)'.reveal = At(round, r).reveal
        /\ At(round, r)'.number = At(round, r).number
<1>1. DailyInv /\ [Next]_vars => [LeftAlone]_vars
  <2> SUFFICES ASSUME DailyInv, [Next]_vars, NEW r \in Rounds,
                      At(round, r).state \in {"voting", "final"}, At(round, r)' # NoRound
               PROVE  /\ At(round, r)'.reveal = At(round, r).reveal
                      /\ At(round, r)'.number = At(round, r).number
    OBVIOUS
  <2>1. RoundMove(r)
    BY RoundMoves DEF DailyInv
  <2> QED BY <2>1 DEF RoundMove, SameRound, Made, Dropped, Advanced, NoRound
<1> QED BY <1>1, DailyInvAlways, PTL DEF Spec, RevealedIsLeftAlone

\* A decided candidate changes only by going, with the group it came from.
THEOREM ReviewStays == Spec => ReviewIsFinal
<1> DEFINE Decided ==
      \A k \in Keys :
        candidate[k] # NoCandidate /\ candidate[k].status # "pending" =>
          candidate'[k] = candidate[k] \/ group'[candidate[k].source[1]] = Gone
<1>1. DailyInv /\ [Next]_vars => [Decided]_vars
  <2> SUFFICES ASSUME DailyInv, [Next]_vars, NEW k \in Keys,
                      candidate[k] # NoCandidate, candidate[k].status # "pending",
                      candidate'[k] # candidate[k]
               PROVE  group'[candidate[k].source[1]] = Gone
    OBVIOUS
  <2>t. TablesTyped /\ \A w \in Jobs : job[w] \in JobType
    BY TypeParts DEF DailyInv, JobsTyped
  <2>1. ASSUME NEW g \in Groups, DeleteGroup(g)
        PROVE  group'[candidate[k].source[1]] = Gone
    <3>1. candidate[k].source[1] = g
      BY <2>1 DEF DeleteGroup, Withdrawn
    <3> QED BY <2>t, <2>1, <3>1 DEF DeleteGroup, TablesTyped
  <2>2. ASSUME NEW w \in Jobs, NEW c \in job[w].found, SaveCandidate(w, c)
        PROVE  FALSE
    <3>1. c.key \in Keys
      BY <2>t, JobFields
    <3>2. Merged(candidate[k], c) = candidate[k]
      BY DEF Merged
    <3> DEFINE fresh == [status |-> "pending", votes |-> c.votes, source |-> job[w].from]
    <3>3. \/ candidate' = candidate
          \/ candidate' = [candidate EXCEPT ![c.key] = Merged(candidate[c.key], c)]
          \/ candidate[c.key] = NoCandidate /\ candidate' = [candidate EXCEPT ![c.key] = fresh]
      BY <2>2 DEF SaveCandidate
    <3> HIDE DEF fresh
    <3> QED BY <2>t, <3>1, <3>2, <3>3 DEF TablesTyped
  <2>3. ASSUME NEW o \in Keys, NEW decision, ReviewCandidate(o, decision)
        PROVE  FALSE
    BY <2>t, <2>3 DEF ReviewCandidate, TablesTyped
  <2> QED
    BY <2>1, <2>2, <2>3, ZenonT(40)
       DEF Next, Works, Finishes, vars, tables, PassTime, CreateGroup, CountMembers,
           ReadSettings, Submit, Vote, Begin, JoinGroup, UpdateGroup, SaveAnswer, SaveVote, Abort,
           DeleteDailySubmission, Tick, ListGroups, Today, ReadNow, FindRound,
           InsertRound, Reveal, FinalizeRounds, SelectCandidates, Fault, Crash
<1> QED BY <1>1, DailyInvAlways, PTL DEF Spec, ReviewIsFinal

(***************************************************************************)
(* Requests.                                                               *)
(***************************************************************************)

\* What a request becomes.  What it has just read is so.
Asked(q) ==
  /\ req[q] = IdleReq /\ UNCHANGED <<settings, play>>
  /\ \A o \in Requests \ {q} : req'[o] = req[o]
  /\ \/ /\ req'[q].pc = "join" /\ Exists(req'[q].group)
        /\ Cardinality(members[req'[q].group]) < MaxMembers
     \/ req'[q].pc = "edit"
     \/ /\ req'[q].pc = "submit" /\ At(round, req'[q].round).state = "open"
        /\ req'[q].who \in members[req'[q].round[1]]
     \/ /\ req'[q].pc = "vote" /\ At(round, req'[q].round).state = "voting"
        /\ req'[q].who \in members[req'[q].round[1]] /\ req'[q].what # req'[q].who
Done(q) == req'[q] = IdleReq /\ \A o \in Requests \ {q} : req'[o] = req[o]

LEMMA ReqMoves ==
  ASSUME TypeDaily, [Next]_vars
  PROVE  UNCHANGED req \/ \E q \in Requests : Asked(q) \/ Done(q)
<1>t. req \in [Requests -> ReqType]
  BY TypeParts DEF ReqsTyped
<1> USE DEF tables
<1>1. ASSUME NEW q \in Requests, NEW g \in Groups, NEW p \in People, CountMembers(q, g, p)
      PROVE  Asked(q)
  BY <1>t, <1>1 DEF CountMembers, HasRoom, Asked
<1>2. ASSUME NEW q \in Requests, NEW g \in Groups, ReadSettings(q, g, Zones, Hours)
      PROVE  Asked(q)
  BY <1>t, <1>2 DEF ReadSettings, Asked
<1>3. ASSUME NEW q \in Requests, NEW r \in Rounds, NEW p \in People, NEW text \in Texts,
             Submit(q, r, p, text)
      PROVE  Asked(q)
  BY <1>t, <1>3 DEF Submit, Begin, Asked
<1>4. ASSUME NEW q \in Requests, NEW r \in Rounds, NEW p \in People, NEW author \in People,
             Vote(q, r, p, author)
      PROVE  Asked(q)
  BY <1>t, <1>4 DEF Vote, Begin, Asked
<1>5. ASSUME NEW q \in Requests, Finishes(q) \/ Abort(q)
      PROVE  Done(q)
  BY <1>t, <1>5 DEF Finishes, Abort, JoinGroup, UpdateGroup, SaveAnswer, SaveVote, Done
<1> QED
  BY <1>1, <1>2, <1>3, <1>4, <1>5, Kinds
     DEF Quiet, CreateGroup, DeleteGroup, DeleteDailySubmission, InsertRound, Reveal, FinalizeRounds

-----------------------------------------------------------------------------
(* Members.                                                                *)

Joining(g) == {q \in Requests : req[q].pc = "join" /\ req[q].group = g}
\* Whoever joins has counted no more than MaxMembers - 1, and those that it may not
\* have counted are the requests beside it.
CrowdInv ==
  /\ \A q \in Requests : req[q].pc = "join" => group[req[q].group] # Unborn
  /\ \A g \in Groups : Exists(g) =>
       Cardinality(members[g]) + Cardinality(Joining(g)) <= MaxMembers - 1 + Cardinality(Requests)

LEMMA Countable ==
  ASSUME TypeDaily, NEW g \in Groups
  PROVE  /\ IsFiniteSet(members[g]) /\ Cardinality(members[g]) \in Nat
         /\ IsFiniteSet(Joining(g)) /\ Cardinality(Joining(g)) \in Nat
         /\ Cardinality(Joining(g)) <= Cardinality(Requests)
         /\ Cardinality(Requests) \in Nat /\ MaxMembers \in Nat \ {0}
<1>1. members[g] \subseteq People /\ Joining(g) \subseteq Requests
  BY DEF TypeDaily, Joining
<1> QED
  BY <1>1, NamesAssumption, ProcessAssumption, LimitAssumption, FS_Subset, FS_CardinalityType

LEMMA FewerCrowd ==
  ASSUME TypeDaily, CrowdInv, NEW g \in Groups, Exists(g),
         members'[g] = members[g], Joining(g)' \subseteq Joining(g)
  PROVE  Cardinality(members'[g]) + Cardinality(Joining(g)') <= MaxMembers - 1 + Cardinality(Requests)
<1>1. Cardinality(Joining(g)') \in Nat /\ Cardinality(Joining(g)') <= Cardinality(Joining(g))
  BY Countable, FS_Subset, FS_CardinalityType
<1>2. Cardinality(members[g]) + Cardinality(Joining(g)) <= MaxMembers - 1 + Cardinality(Requests)
  BY DEF CrowdInv
<1> QED BY <1>1, <1>2, Countable

LEMMA JoinersKnow ==
  ASSUME TypeDaily, CrowdInv, [Next]_vars, NEW q \in Requests, req'[q].pc = "join"
  PROVE  group'[req'[q].group] # Unborn
<1>t. req \in [Requests -> ReqType]
  BY TypeParts DEF ReqsTyped
<1>1. CASE req'[q] = req[q]
  <2>1. req[q].group \in Groups /\ group[req[q].group] # Unborn
    BY <1>t, <1>1 DEF ReqType, IdleReq, CrowdInv
  <2> QED BY <1>1, <2>1, GroupMoves DEF SameGroup, Founded, Ended, Gone, Unborn
<1>2. CASE Asked(q)
  BY <1>2 DEF Asked, settings, Exists, Unborn
<1>3. CASE Done(q)
  BY <1>3 DEF Done, IdleReq
<1> QED BY <1>1, <1>2, <1>3, ReqMoves DEF Asked, Done

LEMMA CrowdStep ==
  ASSUME TypeDaily, TypeDaily', Vacant, CrowdInv, [Next]_vars
  PROVE  CrowdInv'
<1>t. TablesTyped /\ req \in [Requests -> ReqType]
  BY TypeParts DEF ReqsTyped
<1>1. ASSUME NEW q \in Requests, req'[q].pc = "join" PROVE group'[req'[q].group] # Unborn
  BY <1>1, JoinersKnow
<1>2. ASSUME NEW g \in Groups, Exists(g)'
      PROVE  Cardinality(members'[g]) + Cardinality(Joining(g)') <= MaxMembers - 1 + Cardinality(Requests)
  <2>0. SUFFICES ASSUME ~(Exists(g) /\ members'[g] = members[g] /\ Joining(g)' \subseteq Joining(g))
                 PROVE  Cardinality(members'[g]) + Cardinality(Joining(g)')
                          <= MaxMembers - 1 + Cardinality(Requests)
    BY FewerCrowd
  <2>1. ASSUME NEW h \in Groups, NEW p \in People, NEW zone \in Zones, CreateGroup(h, p, zone)
        PROVE  Cardinality(members'[g]) + Cardinality(Joining(g)') <= MaxMembers - 1 + Cardinality(Requests)
    <3>1. Joining(g)' = Joining(g)
      BY <2>1 DEF CreateGroup, Joining
    <3>2. CASE g = h
      <4>1. Joining(g) = {} /\ members'[g] = {p}
        BY <1>t, <2>1, <3>2 DEF CreateGroup, Joining, CrowdInv, TablesTyped
      <4>2. Cardinality({}) = 0 /\ Cardinality({p}) = 1
        BY FS_EmptySet, FS_Singleton
      <4>3. Cardinality(Requests) # 0
        BY ProcessAssumption, FS_EmptySet
      <4> QED BY <3>1, <4>1, <4>2, <4>3, Countable
    <3>3. CASE g # h
      <4>1. members'[g] = members[g] /\ group'[g] = group[g]
        BY <1>t, <2>1, <3>3 DEF CreateGroup, TablesTyped
      <4>2. Exists(g)
        BY <1>2, <4>1 DEF Exists
      <4> QED BY <2>0, <3>1, <4>1, <4>2
    <3> QED BY <3>2, <3>3
  <2>2. ASSUME NEW h \in Groups, DeleteGroup(h)
        PROVE  FALSE
    <3>1. g # h
      BY <1>t, <1>2, <2>2 DEF DeleteGroup, TablesTyped, Exists, Gone
    <3>2. members'[g] = members[g] /\ group'[g] = group[g] /\ Joining(g)' = Joining(g)
      BY <1>t, <2>2, <3>1 DEF DeleteGroup, TablesTyped, Joining
    <3> QED BY <1>2, <2>0, <3>2 DEF Exists
  <2>3. ASSUME NEW q \in Requests, NEW h \in Groups, NEW p \in People, CountMembers(q, h, p)
        PROVE  Cardinality(members'[g]) + Cardinality(Joining(g)') <= MaxMembers - 1 + Cardinality(Requests)
    <3>1. members' = members /\ group' = group
      BY <2>3 DEF CountMembers, tables, settings
    <3>2. CASE g = h
      <4>1. Cardinality(members[g]) < MaxMembers
        BY <2>3, <3>2 DEF CountMembers, HasRoom
      <4>2. Joining(g)' \subseteq Requests
        BY DEF Joining
      <4>3. Cardinality(Joining(g)') \in Nat /\ Cardinality(Joining(g)') <= Cardinality(Requests)
        BY <4>2, ProcessAssumption, FS_Subset, FS_CardinalityType
      <4> QED BY <3>1, <4>1, <4>3, Countable
    <3>3. CASE g # h
      <4>1. Joining(g)' \subseteq Joining(g)
        BY <1>t, <2>3, <3>3 DEF CountMembers, Joining
      <4> QED BY <1>2, <2>0, <3>1, <4>1 DEF Exists
    <3> QED BY <3>2, <3>3
  <2>4. ASSUME NEW q \in Requests, JoinGroup(q)
        PROVE  Cardinality(members'[g]) + Cardinality(Joining(g)') <= MaxMembers - 1 + Cardinality(Requests)
    <3>1. group' = group /\ Joining(g)' \subseteq Joining(g) \ {q}
      BY <1>t, <2>4 DEF JoinGroup, Joining, IdleReq, play
    <3>2. Exists(g)
      BY <1>2, <3>1 DEF Exists
    <3>3. CASE req[q].group = g
      <4>1. members'[g] = members[g] \cup {req[q].who} /\ q \in Joining(g)
        BY <1>t, <2>4, <3>2, <3>3 DEF JoinGroup, Joining, TablesTyped
      <4>2. Cardinality(members'[g]) <= Cardinality(members[g]) + 1 /\ Cardinality(members'[g]) \in Nat
        <5>1. IsFiniteSet(members[g]) /\ Cardinality(members[g]) \in Nat
          BY Countable
        <5>2. Cardinality(members[g] \cup {req[q].who}) \in {Cardinality(members[g]), Cardinality(members[g]) + 1}
          BY <5>1, FS_AddElement
        <5> QED BY <4>1, <5>1, <5>2
      <4>3. IsFiniteSet(Joining(g) \ {q}) /\ Cardinality(Joining(g) \ {q}) = Cardinality(Joining(g)) - 1
        BY <4>1, Countable, FS_RemoveElement
      <4>4. Cardinality(Joining(g)') <= Cardinality(Joining(g)) - 1 /\ Cardinality(Joining(g)') \in Nat
        BY <3>1, <4>3, FS_Subset, FS_CardinalityType
      <4>5. Cardinality(members[g]) + Cardinality(Joining(g)) <= MaxMembers - 1 + Cardinality(Requests)
        BY <3>2 DEF CrowdInv
      <4> QED BY <4>2, <4>4, <4>5, Countable
    <3>4. CASE req[q].group # g
      <4>1. members'[g] = members[g]
        BY <1>t, <2>4, <3>4 DEF JoinGroup, TablesTyped
      <4> QED BY <2>0, <3>1, <3>2, <4>1
    <3> QED BY <3>3, <3>4
  <2>5. ASSUME NEW q \in Requests, UpdateGroup(q)
        PROVE  FALSE
    <3>1. members' = members /\ Joining(g)' \subseteq Joining(g)
      BY <1>t, <2>5 DEF UpdateGroup, Joining, IdleReq
    <3>2. Exists(g)
      <4>1. req[q].group \in Groups
        BY <1>t, <2>5 DEF UpdateGroup, ReqType, IdleReq
      <4>2. CASE Exists(req[q].group) /\ g # req[q].group
        <5>1. group'[g] = group[g]
          BY <1>t, <2>5, <4>1, <4>2 DEF UpdateGroup, TablesTyped
        <5> QED BY <1>2, <5>1 DEF Exists
      <4>3. CASE ~Exists(req[q].group)
        <5>1. group' = group
          BY <2>5, <4>3 DEF UpdateGroup
        <5> QED BY <1>2, <5>1 DEF Exists
      <4> QED BY <4>2, <4>3
    <3> QED BY <2>0, <3>1, <3>2
  <2>6. ASSUME UNCHANGED <<group, members>>, Joining(g)' \subseteq Joining(g)
        PROVE  FALSE
    BY <1>2, <2>0, <2>6 DEF Exists
  <2>7. ASSUME NEW q \in Requests,
               \/ SaveAnswer(q) \/ SaveVote(q) \/ Abort(q)
               \/ \E h \in Groups : ReadSettings(q, h, Zones, Hours)
               \/ \E what : \E r \in Rounds, p \in People : Submit(q, r, p, what) \/ Vote(q, r, p, what)
        PROVE  FALSE
    <3>1. Joining(g)' \subseteq Joining(g)
      <4>1. \A x \in Requests : req'[x] = req[x] \/ req'[x].pc # "join"
        <5>1. CASE SaveAnswer(q) \/ SaveVote(q) \/ Abort(q)
          BY <1>t, <5>1 DEF SaveAnswer, SaveVote, Abort, IdleReq
        <5>2. CASE \E h \in Groups : ReadSettings(q, h, Zones, Hours)
          BY <1>t, <5>2 DEF ReadSettings, Begin, IdleReq
        <5>3. CASE \E what : \E r \in Rounds, p \in People :
                     Submit(q, r, p, what) \/ Vote(q, r, p, what)
          BY <1>t, <5>3 DEF Submit, Vote, Begin, IdleReq
        <5> QED BY <2>7, <5>1, <5>2, <5>3
      <4> QED BY <4>1 DEF Joining
    <3>2. UNCHANGED <<group, members>>
      BY <2>7 DEF SaveAnswer, SaveVote, Abort, ReadSettings, Submit, Vote, Begin, tables, settings
    <3> QED BY <2>6, <3>1, <3>2
  <2>8. ASSUME UNCHANGED <<group, members, req>>
        PROVE  FALSE
    BY <2>6, <2>8 DEF Joining
  <2> QED
    BY <2>1, <2>2, <2>3, <2>4, <2>5, <2>7, <2>8, Kinds
       DEF Quiet, settings, Finishes, DeleteDailySubmission, InsertRound, Reveal, FinalizeRounds
<1> QED BY <1>1, <1>2 DEF CrowdInv

\* A group outgrows its limit only by as many members as joined beside one another.
THEOREM OverfullOnlyByRace == Spec => []OverfullOnlyByOverlap
<1>1. Init => CrowdInv
  BY DEF Init, Empty, CrowdInv, Exists, Unborn, IdleReq
<1>2. DailyInv /\ DailyInv' /\ CrowdInv /\ [Next]_vars => CrowdInv'
  BY CrowdStep DEF DailyInv
<1>3. DailyInv /\ CrowdInv => OverfullOnlyByOverlap
  <2> SUFFICES ASSUME DailyInv, CrowdInv, NEW g \in Groups
               PROVE  Cardinality(members[g]) < MaxMembers + Cardinality(Requests)
    BY DEF OverfullOnlyByOverlap
  <2>1. TypeDaily
    BY DEF DailyInv
  <2>2. CASE Exists(g)
    BY <2>1, <2>2, Countable DEF CrowdInv
  <2>3. CASE ~Exists(g)
    <3>1. Cardinality(members[g]) = 0
      BY <2>3, FS_EmptySet DEF DailyInv, Vacant
    <3> QED BY <2>1, <3>1, Countable
  <2> QED BY <2>2, <2>3
<1> QED BY <1>1, <1>2, <1>3, DailyInvAlways, PTL DEF Spec

(***************************************************************************)
(* Answers and votes.                                                      *)
(***************************************************************************)

LEMMA MembersGrow ==
  ASSUME TypeDaily, Vacant, [Next]_vars, NEW g \in Groups
  PROVE  members[g] \subseteq members'[g] \/ Ended(g)
<1>t. TablesTyped /\ ReqsTyped
  BY TypeParts
<1>1. CASE members' = members
  BY <1>1
<1>2. ASSUME NEW h \in Groups, NEW p \in People, NEW zone \in Zones, CreateGroup(h, p, zone)
      PROVE  members[g] \subseteq members'[g]
  <2>1. members[h] = {}
    BY <1>2 DEF CreateGroup, Vacant, Exists, Unborn
  <2> QED BY <1>t, <1>2, <2>1 DEF CreateGroup, TablesTyped
<1>3. ASSUME NEW h \in Groups, DeleteGroup(h)
      PROVE  members[g] \subseteq members'[g] \/ Ended(g)
  <2>1. CASE g = h
    <3>1. Exists(g) /\ group'[g] = Gone
      BY <1>t, <1>3, <2>1 DEF DeleteGroup, TablesTyped
    <3> QED BY <3>1, GroupMoves DEF SameGroup, Founded, Exists, Gone, Unborn
  <2>2. CASE g # h
    BY <1>t, <1>3, <2>2 DEF DeleteGroup, TablesTyped
  <2> QED BY <2>1, <2>2
<1>4. ASSUME NEW q \in Requests, JoinGroup(q)
      PROVE  members[g] \subseteq members'[g]
  BY <1>t, <1>4 DEF JoinGroup, TablesTyped
<1> QED
  BY <1>1, <1>2, <1>3, <1>4, Kinds, ZenonT(40)
     DEF Quiet, settings, CountMembers, ReadSettings, Submit, Vote, Begin, tables, Finishes,
         UpdateGroup, SaveAnswer, SaveVote, Abort, DeleteDailySubmission, InsertRound, Reveal,
         FinalizeRounds

\* How a step can change the answers and votes of a round.
SameRows(r) == At(answer, r)' = At(answer, r) /\ At(vote, r)' = At(vote, r)
Saved(r) ==
  /\ UNCHANGED <<round, settings>> /\ At(vote, r)' = At(vote, r)
  /\ \E q \in Requests :
       /\ req[q].pc = "submit" /\ req[q].round = r
       /\ At(answer, r)' = [At(answer, r) EXCEPT ![req[q].who] = req[q].what]
Counted(r) ==
  /\ UNCHANGED <<round, settings>> /\ At(answer, r)' = At(answer, r)
  /\ \E q \in Requests :
       /\ req[q].pc = "vote" /\ req[q].round = r /\ At(answer, r)[req[q].what] # Nothing
       /\ At(vote, r)' = [At(vote, r) EXCEPT ![req[q].who] = req[q].what]
Pruned(r) ==
  /\ UNCHANGED <<round, settings>>
  /\ \E p \in People :
       /\ At(answer, r)' = [At(answer, r) EXCEPT ![p] = Nothing]
       /\ At(vote, r)' = [v \in People |-> IF At(vote, r)[v] = p THEN Nothing ELSE At(vote, r)[v]]

LEMMA RowMoves ==
  ASSUME TypeDaily, [Next]_vars, NEW r \in Rounds
  PROVE  SameRows(r) \/ Saved(r) \/ Counted(r) \/ Pruned(r) \/ Ended(r[1])
<1>t. TablesTyped /\ ReqsTyped
  BY TypeParts
<1>r. r[1] \in Groups /\ r[2] \in Dates
  BY DEF Rounds
<1>e. \A o \in Rounds : o[1] \in Groups /\ o[2] \in Dates /\ (o # r => o[1] # r[1] \/ o[2] # r[2])
  BY DEF Rounds
<1>1. CASE UNCHANGED <<answer, vote>>
  BY <1>1 DEF SameRows, At
<1>2. ASSUME NEW q \in Requests, SaveAnswer(q)
      PROVE  SameRows(r) \/ Saved(r)
  <2>1. req[q].round \in Rounds /\ req[q].who \in People /\ req[q].what \in Texts /\ req[q].pc = "submit"
    BY <1>t, <1>2 DEF SaveAnswer, ReqsTyped, ReqType, IdleReq
  <2> DEFINE o == req[q].round
  <2>2. /\ answer' = [answer EXCEPT ![o[1]][o[2]][req[q].who] = req[q].what]
        /\ UNCHANGED <<round, settings, vote>>
    BY <1>2 DEF SaveAnswer
  <2> HIDE DEF o
  <2>3. CASE o = r
    <3>1. At(answer, r)' = [At(answer, r) EXCEPT ![req[q].who] = req[q].what]
      BY <1>t, <1>r, <2>2, <2>3 DEF At, TablesTyped
    <3>2. At(vote, r)' = At(vote, r)
      BY <2>2 DEF At
    <3> QED BY <2>1, <2>2, <2>3, <3>1, <3>2 DEF Saved, o
  <2>4. CASE o # r
    <3>1. o \in Rounds
      BY <2>1 DEF o
    <3> QED BY <1>t, <1>r, <1>e, <2>2, <2>4, <3>1 DEF SameRows, At, TablesTyped
  <2> QED BY <2>3, <2>4
<1>3. ASSUME NEW q \in Requests, SaveVote(q)
      PROVE  SameRows(r) \/ Counted(r)
  <2>1. req[q].round \in Rounds /\ req[q].who \in People /\ req[q].what \in People /\ req[q].pc = "vote"
    BY <1>t, <1>3 DEF SaveVote, ReqsTyped, ReqType, IdleReq
  <2> DEFINE o == req[q].round
  <2>2. UNCHANGED <<round, settings, answer>>
    BY <1>3 DEF SaveVote
  <2>3. CASE At(answer, o)[req[q].what] = Nothing
    <3>1. vote' = vote
      BY <1>3, <2>3 DEF SaveVote
    <3> QED BY <2>2, <3>1 DEF SameRows, At
  <2>4. CASE At(answer, o)[req[q].what] # Nothing
    <3>1. vote' = [vote EXCEPT ![o[1]][o[2]][req[q].who] = req[q].what]
      BY <1>3, <2>4 DEF SaveVote
    <3>2. o \in Rounds
      BY <2>1
    <3> HIDE DEF o
    <3>3. CASE o = r
      <4>1. At(vote, r)' = [At(vote, r) EXCEPT ![req[q].who] = req[q].what]
        BY <1>t, <1>r, <3>1, <3>3 DEF At, TablesTyped
      <4>2. At(answer, r)' = At(answer, r)
        BY <2>2 DEF At
      <4> QED BY <2>1, <2>2, <2>4, <3>3, <4>1, <4>2 DEF Counted, o
    <3>4. CASE o # r
      BY <1>t, <1>r, <1>e, <2>2, <3>1, <3>2, <3>4 DEF SameRows, At, TablesTyped
    <3> QED BY <3>3, <3>4
  <2> QED BY <2>3, <2>4
<1>4. ASSUME NEW o \in Rounds, NEW p \in People, DeleteDailySubmission(o, p)
      PROVE  SameRows(r) \/ Pruned(r)
  <2>1. /\ UNCHANGED <<round, settings>>
        /\ answer' = [answer EXCEPT ![o[1]][o[2]][p] = Nothing]
        /\ vote' = [vote EXCEPT ![o[1]][o[2]] =
                     [v \in People |-> IF vote[o[1]][o[2]][v] = p THEN Nothing ELSE vote[o[1]][o[2]][v]]]
    BY <1>4 DEF DeleteDailySubmission, VotesWithout
  <2>2. CASE o = r
    <3>1. At(answer, r)' = [At(answer, r) EXCEPT ![p] = Nothing]
      BY <1>t, <1>r, <2>1, <2>2 DEF At, TablesTyped
    <3>2. At(vote, r)' = [v \in People |-> IF At(vote, r)[v] = p THEN Nothing ELSE At(vote, r)[v]]
      BY <1>t, <1>r, <2>1, <2>2 DEF At, TablesTyped
    <3> QED BY <2>1, <3>1, <3>2 DEF Pruned
  <2>3. CASE o # r
    BY <1>t, <1>r, <1>e, <2>1, <2>3 DEF SameRows, At, TablesTyped
  <2> QED BY <2>2, <2>3
<1>5. ASSUME NEW g \in Groups, DeleteGroup(g)
      PROVE  SameRows(r) \/ Ended(r[1])
  <2>1. CASE r[1] = g
    <3>1. Exists(g) /\ group'[g] = Gone
      BY <1>t, <1>5 DEF DeleteGroup, TablesTyped
    <3> QED BY <2>1, <3>1, GroupMoves DEF SameGroup, Founded, Exists, Gone, Unborn
  <2>2. CASE r[1] # g
    BY <1>t, <1>r, <1>5, <2>2 DEF DeleteGroup, SameRows, At, TablesTyped
  <2> QED BY <2>1, <2>2
<1>6. ASSUME NEW q \in Requests,
             \/ JoinGroup(q) \/ UpdateGroup(q) \/ Abort(q)
             \/ \E g \in Groups, p \in People : CountMembers(q, g, p)
             \/ \E g \in Groups : ReadSettings(q, g, Zones, Hours)
             \/ \E what : \E o \in Rounds, p \in People : Submit(q, o, p, what) \/ Vote(q, o, p, what)
      PROVE  UNCHANGED <<answer, vote>>
  BY <1>6 DEF JoinGroup, UpdateGroup, Abort, CountMembers, ReadSettings, Submit, Vote, Begin, tables, play
<1>7. ASSUME \/ Quiet \/ \E w \in Jobs : InsertRound(w) \/ Reveal(w) \/ FinalizeRounds(w)
             \/ \E g \in Groups, p \in People, zone \in Zones : CreateGroup(g, p, zone)
      PROVE  UNCHANGED <<answer, vote>>
  BY <1>7 DEF Quiet, InsertRound, Reveal, FinalizeRounds, CreateGroup, play
<1> QED
  BY <1>1, <1>2, <1>3, <1>4, <1>5, <1>6, <1>7, Kinds DEF Finishes

\* What an answer or a vote on its way was allowed for is still so: the round is
\* locked.
Allowed(q) ==
  LET r == req[q].round IN
    /\ req[q].pc = "submit" => At(round, r).state = "open" /\ req[q].who \in members[r[1]]
    /\ req[q].pc = "vote" =>
         /\ At(round, r).state = "voting" /\ req[q].who \in members[r[1]]
         /\ req[q].what # req[q].who
RowsInv == VotesAreSound /\ \A q \in Requests : Allowed(q)

LEMMA LockedStays ==
  ASSUME TypeDaily, Vacant, [Next]_vars, NEW r \in Rounds, RoundLocked(r),
         At(round, r).state \in {"open", "voting"}
  PROVE  /\ At(round, r)'.state = At(round, r).state
         /\ members[r[1]] \subseteq members'[r[1]]
<1>1. At(round, r)'.state = At(round, r).state
  BY RoundMoves DEF RoundMove, SameRound, Made, Dropped, Advanced, NoRound
<1>2. r[1] \in Groups /\ r[2] \in Dates
  BY DEF Rounds
<1>3. ~Ended(r[1])
  BY <1>1, <1>2 DEF Ended, At, NoRound
<1> QED BY <1>1, <1>2, <1>3, MembersGrow

LEMMA AllowedStep ==
  ASSUME TypeDaily, Vacant, RowsInv, [Next]_vars, NEW q \in Requests
  PROVE  Allowed(q)'
<1>t. req \in [Requests -> ReqType]
  BY TypeParts DEF ReqsTyped
<1>1. CASE req'[q] = req[q]
  <2>1. CASE req[q].pc \in {"submit", "vote"}
    <3> DEFINE r == req[q].round
    <3>1. r \in Rounds
      BY <1>t, <2>1 DEF ReqType, IdleReq
    <3>2. RoundLocked(r) /\ At(round, r).state \in {"open", "voting"}
      BY <2>1 DEF RoundLocked, RowsInv, Allowed
    <3>3. PICK o \in Rounds : o = r
      BY <3>1
    <3>4. /\ At(round, o)'.state = At(round, o).state
          /\ members[o[1]] \subseteq members'[o[1]]
      BY <3>2, <3>3, LockedStays
    <3>5. At(round, r)'.state = At(round, r).state
      BY <1>1, <3>3, <3>4 DEF At
    <3> QED BY <1>1, <2>1, <3>3, <3>4, <3>5 DEF RowsInv, Allowed
  <2>2. CASE req[q].pc \notin {"submit", "vote"}
    BY <1>1, <2>2 DEF Allowed
  <2> QED BY <2>1, <2>2
<1>2. CASE Asked(q)
  BY <1>2 DEF Asked, Allowed, settings, play, At
<1>3. CASE Done(q)
  BY <1>3 DEF Done, Allowed, IdleReq
<1> QED BY <1>1, <1>2, <1>3, ReqMoves DEF Asked, Done

LEMMA RowsTyped ==
  ASSUME TypeDaily, NEW r \in Rounds
  PROVE  /\ At(answer, r) \in [People -> Texts \cup {Nothing}]
         /\ At(vote, r) \in [People -> People \cup {Nothing}]
         /\ At(round, r) \in {NoRound} \cup RoundRow
         /\ r[1] \in Groups /\ r[2] \in Dates
BY DEF TypeDaily, Rounds, At, RoundRow

LEMMA EndedRows ==
  ASSUME NEW r \in Rounds, Ended(r[1])
  PROVE  At(answer, r)' = Nobodys /\ At(vote, r)' = Nobodys /\ At(round, r)' = NoRound
<1>1. r[1] \in Groups /\ r[2] \in Dates
  BY DEF Rounds
<1> QED BY <1>1 DEF Ended, At

LEMMA DroppedEnds ==
  ASSUME TypeDaily, [Next]_vars, NEW r \in Rounds, Dropped(r)
  PROVE  Ended(r[1])
<1>1. r[1] \in Groups
  BY DEF Rounds
<1> QED BY <1>1, GroupMoves DEF Dropped, SameGroup, Founded, Exists, Gone, Unborn

\* VotesAreSound, of one member in one round.
Sound(r, p) ==
  LET v == At(vote, r)[p] IN
    /\ v # Nothing => /\ v # p /\ At(answer, r)[v] # Nothing
                      /\ At(round, r).state \in {"voting", "final"}
                      /\ p \in members[r[1]]
    /\ p \in Answers(r) => p \in members[r[1]] /\ At(round, r) # NoRound

LEMMA SoundStep ==
  ASSUME TypeDaily, Vacant, RowsInv, [Next]_vars, NEW r \in Rounds, NEW p \in People
  PROVE  Sound(r, p)'
<1>t. req \in [Requests -> ReqType]
  BY TypeParts DEF ReqsTyped
<1>r. /\ At(answer, r) \in [People -> Texts \cup {Nothing}]
      /\ At(vote, r) \in [People -> People \cup {Nothing}]
      /\ r[1] \in Groups
  BY RowsTyped
<1>o. \A o \in People : Sound(r, o)
  BY DEF RowsInv, VotesAreSound, Sound
<1>n. NoRound.state = "none"
  BY DEF NoRound
<1>1. CASE Ended(r[1])
  <2>1. At(answer, r)'[p] = Nothing /\ At(vote, r)'[p] = Nothing
    BY <1>1, EndedRows DEF Nobodys
  <2> QED BY <2>1 DEF Sound, Answers
<1>2. CASE ~Ended(r[1]) /\ SameRows(r)
  <2>1. members[r[1]] \subseteq members'[r[1]]
    BY <1>r, <1>2, MembersGrow
  <2>2. SameRound(r) \/ Made(r) \/ Advanced(r)
    BY <1>2, RoundMoves, DroppedEnds DEF RoundMove
  <2>3. At(round, r).state \in {"voting", "final"} => At(round, r)'.state \in {"voting", "final"}
    BY <1>n, <2>2 DEF SameRound, Made, Advanced
  <2>4. At(round, r) # NoRound => At(round, r)' # NoRound
    BY <2>2 DEF SameRound, Made, Advanced
  <2> QED BY <1>2, <1>o, <2>1, <2>3, <2>4 DEF SameRows, Sound, Answers
<1>3. CASE Saved(r)
  <2>1. PICK q \in Requests : /\ req[q].pc = "submit" /\ req[q].round = r
                              /\ At(answer, r)' = [At(answer, r) EXCEPT ![req[q].who] = req[q].what]
    BY <1>3 DEF Saved
  <2>2. At(round, r).state = "open" /\ req[q].who \in members[r[1]]
    BY <2>1 DEF RowsInv, Allowed
  <2>3. /\ At(round, r)' = At(round, r) /\ members'[r[1]] = members[r[1]] /\ At(vote, r)' = At(vote, r)
    BY <1>3 DEF Saved, settings, At
  <2>4. At(vote, r)[p] = Nothing
    BY <1>o, <2>2 DEF Sound
  <2>5. p \in Answers(r)' => p \in Answers(r) \/ p = req[q].who
    BY <1>r, <2>1 DEF Answers
  <2> QED BY <1>n, <1>o, <2>2, <2>3, <2>4, <2>5 DEF Sound
<1>4. CASE Counted(r)
  <2>1. PICK q \in Requests : /\ req[q].pc = "vote" /\ req[q].round = r
                              /\ At(answer, r)[req[q].what] # Nothing
                              /\ At(vote, r)' = [At(vote, r) EXCEPT ![req[q].who] = req[q].what]
    BY <1>4 DEF Counted
  <2>2. At(round, r).state = "voting" /\ req[q].who \in members[r[1]] /\ req[q].what # req[q].who
    BY <2>1 DEF RowsInv, Allowed
  <2>3. /\ At(round, r)' = At(round, r) /\ members'[r[1]] = members[r[1]]
        /\ At(answer, r)' = At(answer, r)
    BY <1>4 DEF Counted, settings, At
  <2>4. Answers(r)' = Answers(r)
    BY <2>3 DEF Answers
  <2>5. At(vote, r)'[p] = IF p = req[q].who THEN req[q].what ELSE At(vote, r)[p]
    BY <1>r, <2>1
  <2> QED BY <1>o, <2>1, <2>2, <2>3, <2>4, <2>5 DEF Sound
<1>5. CASE Pruned(r)
  <2>1. PICK o \in People :
          /\ At(answer, r)' = [At(answer, r) EXCEPT ![o] = Nothing]
          /\ At(vote, r)' = [v \in People |-> IF At(vote, r)[v] = o THEN Nothing ELSE At(vote, r)[v]]
    BY <1>5 DEF Pruned
  <2>2. At(round, r)' = At(round, r) /\ members'[r[1]] = members[r[1]]
    BY <1>5 DEF Pruned, settings, At
  <2>3. p \in Answers(r)' => p \in Answers(r)
    BY <1>r, <2>1 DEF Answers
  <2>4. \A v \in People : v # o => At(answer, r)'[v] = At(answer, r)[v]
    BY <1>r, <2>1
  <2>5. At(vote, r)'[p] = IF At(vote, r)[p] = o THEN Nothing ELSE At(vote, r)[p]
    BY <2>1
  <2>6. At(vote, r)[p] \in People \cup {Nothing}
    BY <1>r
  <2> QED BY <1>o, <2>2, <2>3, <2>4, <2>5, <2>6 DEF Sound
<1> QED BY <1>1, <1>2, <1>3, <1>4, <1>5, RowMoves

LEMMA RowsInit == Init => RowsInv
<1> SUFFICES ASSUME Init PROVE RowsInv
  OBVIOUS
<1>1. \A q \in Requests : Allowed(q)
  BY DEF Init, Empty, Allowed, IdleReq
<1>2. ASSUME NEW r \in Rounds, NEW p \in People
      PROVE  At(vote, r)[p] = Nothing /\ At(answer, r)[p] = Nothing
  BY DEF Init, Empty, At, Rounds, NoRows, Nobodys
<1> QED BY <1>1, <1>2 DEF RowsInv, VotesAreSound, Answers

LEMMA RowsStep == DailyInv /\ RowsInv /\ [Next]_vars => RowsInv'
<1> SUFFICES ASSUME DailyInv, RowsInv, [Next]_vars PROVE RowsInv'
  OBVIOUS
<1>1. \A r \in Rounds, p \in People : Sound(r, p)'
  BY SoundStep DEF DailyInv
<1>2. \A q \in Requests : Allowed(q)'
  BY AllowedStep DEF DailyInv
<1> QED BY <1>1, <1>2 DEF RowsInv, VotesAreSound, Sound

LEMMA RowsAlways == Spec => [](DailyInv /\ RowsInv)
BY RowsInit, RowsStep, DailyInvAlways, PTL DEF Spec

\* Votes are for answers that are there, of others, by members, in their time.
THEOREM VotesStaySound == Spec => []VotesAreSound
<1>1. RowsInv => VotesAreSound
  BY DEF RowsInv
<1> QED BY <1>1, RowsAlways, PTL

(***************************************************************************)
(* The life of a round.                                                    *)
(***************************************************************************)

\* One round, in the terms of Daily.
LifeStep(r) ==
  LET before == At(round, r).state
      after == At(round, r)'.state
  IN \/ before = "none" /\ after = "open" /\ At(answer, r)' = Nobodys /\ At(vote, r)' = Nobodys
     \/ /\ before = "open" /\ after = "open" /\ At(vote, r)' = At(vote, r)
        /\ \E p \in People : \A o \in People \ {p} : At(answer, r)'[o] = At(answer, r)[o]
     \/ /\ before = "voting" /\ after = "voting" /\ At(answer, r)' = At(answer, r)
        /\ \E p \in People :
             /\ \A o \in People \ {p} : At(vote, r)'[o] = At(vote, r)[o]
             /\ At(vote, r)'[p] \in {a \in People \ {p} : At(answer, r)[a] # Nothing}
     \/ /\ <<before, after>> \in {<<"open", "voting">>, <<"voting", "final">>}
        /\ SameRows(r)
     \/ before = after /\ Pruned(r)
     \/ after = "none" /\ At(answer, r)' = Nobodys /\ At(vote, r)' = Nobodys
     \/ before = after /\ SameRows(r)

LEMMA LifeSteps ==
  ASSUME DailyInv, RowsInv, [Next]_vars, NEW r \in Rounds
  PROVE  LifeStep(r)
<1>t. TypeDaily /\ Vacant /\ req \in [Requests -> ReqType]
  BY TypeParts DEF DailyInv, ReqsTyped
<1>r. /\ At(answer, r) \in [People -> Texts \cup {Nothing}]
      /\ At(vote, r) \in [People -> People \cup {Nothing}]
  BY <1>t, RowsTyped
<1>n. NoRound.state = "none"
  BY DEF NoRound
<1>1. CASE Ended(r[1])
  BY <1>1, <1>n, EndedRows DEF LifeStep
<1>2. CASE Saved(r)
  <2>1. PICK q \in Requests : /\ req[q].pc = "submit" /\ req[q].round = r
                              /\ At(answer, r)' = [At(answer, r) EXCEPT ![req[q].who] = req[q].what]
    BY <1>2 DEF Saved
  <2>2. At(round, r).state = "open" /\ req[q].who \in People
    BY <1>t, <2>1 DEF RowsInv, Allowed, ReqType, IdleReq
  <2>3. At(round, r)' = At(round, r) /\ At(vote, r)' = At(vote, r)
    BY <1>2 DEF Saved, At
  <2>4. \A o \in People \ {req[q].who} : At(answer, r)'[o] = At(answer, r)[o]
    BY <1>r, <2>1
  <2> QED BY <2>2, <2>3, <2>4 DEF LifeStep
<1>3. CASE Counted(r)
  <2>1. PICK q \in Requests : /\ req[q].pc = "vote" /\ req[q].round = r
                              /\ At(answer, r)[req[q].what] # Nothing
                              /\ At(vote, r)' = [At(vote, r) EXCEPT ![req[q].who] = req[q].what]
    BY <1>3 DEF Counted
  <2>2. /\ At(round, r).state = "voting" /\ req[q].what # req[q].who
        /\ req[q].who \in People /\ req[q].what \in People
    BY <1>t, <2>1 DEF RowsInv, Allowed, ReqType, IdleReq
  <2>3. At(round, r)' = At(round, r) /\ At(answer, r)' = At(answer, r)
    BY <1>3 DEF Counted, At
  <2>4. /\ \A o \in People \ {req[q].who} : At(vote, r)'[o] = At(vote, r)[o]
        /\ At(vote, r)'[req[q].who] = req[q].what
    BY <1>r, <2>1, <2>2
  <2> QED BY <2>1, <2>2, <2>3, <2>4 DEF LifeStep
<1>4. CASE Pruned(r)
  <2>1. At(round, r)' = At(round, r)
    BY <1>4 DEF Pruned, At
  <2> QED BY <1>4, <2>1 DEF LifeStep
<1>5. CASE SameRows(r)
  <2>1. CASE SameRound(r)
    BY <1>5, <2>1 DEF SameRound, LifeStep
  <2>2. CASE Made(r)
    <3>1. \A p \in People : At(answer, r)[p] = Nothing /\ At(vote, r)[p] = Nothing
      BY <1>n, <2>2 DEF Made, RowsInv, VotesAreSound, Answers
    <3>2. At(answer, r) = Nobodys /\ At(vote, r) = Nobodys
      BY <1>r, <3>1 DEF Nobodys
    <3> QED BY <1>5, <1>n, <2>2, <3>2 DEF Made, SameRows, LifeStep
  <2>3. CASE Dropped(r)
    BY <1>1, <1>t, <2>3, DroppedEnds
  <2>4. CASE Advanced(r)
    BY <1>5, <2>4 DEF Advanced, LifeStep
  <2> QED BY <1>t, <2>1, <2>2, <2>3, <2>4, RoundMoves DEF RoundMove
<1> QED BY <1>1, <1>2, <1>3, <1>4, <1>5, <1>t, RowMoves

\* Whatever workers, views, members, owners and administrators do beside one another,
\* each round lives as DailyRounds says: the detailed daily game implements it.
THEOREM DailyImplementsRounds == Spec => KeepsRoundLife
<1>1. Init => Life!RoundsInit
  <2> SUFFICES ASSUME Init PROVE Life!RoundsInit
    OBVIOUS
  <2>1. \A r \in Rounds : /\ At(round, r) = NoRound
                          /\ At(answer, r) = Nobodys /\ At(vote, r) = Nobodys
    BY DEF Init, Empty, At, Rounds, NoRows
  <2> QED BY <2>1 DEF Life!RoundsInit, Life!Nobody, Nobodys, NoRound
<1>2. DailyInv /\ RowsInv /\ [Next]_vars => [\A r \in Rounds : Life!RoundStep(r)]_(Life!roundVars)
  <2> SUFFICES ASSUME DailyInv, RowsInv, [Next]_vars, NEW r \in Rounds
               PROVE  Life!RoundStep(r)
    OBVIOUS
  <2> DEFINE stage == [o \in Rounds |-> At(round, o).state]
             entry == [o \in Rounds |-> At(answer, o)]
             ballot == [o \in Rounds |-> At(vote, o)]
  <2>1. /\ stage[r] = At(round, r).state /\ stage'[r] = At(round, r)'.state
        /\ entry[r] = At(answer, r) /\ entry'[r] = At(answer, r)'
        /\ ballot[r] = At(vote, r) /\ ballot'[r] = At(vote, r)'
    BY DEF At
  <2>2. LifeStep(r)
    BY LifeSteps
  <2> QED
    BY <2>1, <2>2
       DEF LifeStep, Pruned, SameRows, Nobodys, Life!RoundStep, Life!Opened, Life!Answered,
           Life!Revealed, Life!Voted, Life!Finished, Life!Removed, Life!Deleted, Life!Untouched,
           Life!Same, Life!Empty, Life!Nobody
<1> QED BY <1>1, <1>2, RowsAlways, PTL DEF Spec, KeepsRoundLife, Life!RoundsSpec

(***************************************************************************)
(* Candidates.                                                             *)
(***************************************************************************)

\* What a harvest may still save comes from final rounds, unless their group has gone.
Over(r) == At(round, r).state = "final" \/ group[r[1]] = Gone
OverThen(r) == round'[r[1]][r[2]].state = "final" \/ group'[r[1]] = Gone
HarvestInv ==
  \A w \in Jobs :
    /\ \A r \in job[w].won : Over(r)
    /\ job[w].found # {} => Over(job[w].from)
    /\ \A c \in job[w].found : c.votes >= MinVotes

LEMMA OverStays ==
  ASSUME TypeDaily, Vacant, [Next]_vars, NEW r \in Rounds, Over(r)
  PROVE  OverThen(r)
<1>1. r[1] \in Groups
  BY DEF Rounds
<1>2. CASE group[r[1]] = Gone
  BY <1>1, <1>2, GroupMoves DEF SameGroup, Founded, Ended, Exists, Gone, Unborn, OverThen
<1>3. CASE At(round, r).state = "final"
  BY <1>3, RoundMoves DEF RoundMove, SameRound, Made, Dropped, Advanced, NoRound, At, OverThen
<1> QED BY <1>2, <1>3 DEF Over

\* What a job has left to save.
Harvests(w) ==
  \/ job'[w].won = {} /\ job'[w].found = {}
  \/ /\ job'[w].won \subseteq job[w].won /\ job'[w].found \subseteq job[w].found
     /\ job'[w].from = job[w].from
  \/ /\ job'[w].won \subseteq job[w].won /\ job'[w].from \in job[w].won
     /\ \A c \in job'[w].found : c.votes >= MinVotes
  \/ /\ Moved(ToFinish(w), "final") /\ job'[w].won \subseteq ToFinish(w) /\ job'[w].found = {}

LEMMA HarvestMoves ==
  ASSUME TypeDaily, TypeDaily', [Next]_vars, NEW v \in Jobs
  PROVE  Harvests(v)
<1>j. job \in [Jobs -> JobType] /\ \A w \in Jobs : AtWork(job[w]) /\ AtWork(job'[w])
  BY TypeParts DEF TypeDaily, JobsTyped
<1>b. ASSUME NEW w \in Jobs, NEW state, Becomes(w, state)
      PROVE  job'[w] = state /\ \A u \in Jobs \ {w} : job'[u] = job[u]
  BY <1>b, <1>j DEF Becomes
<1>s. ASSUME NEW w \in Jobs, NEW state, Becomes(w, Settled(state))
      PROVE  job'[w] = state \/ (job'[w].won = {} /\ job'[w].found = {})
  <2>1. CASE Settled(state) = state
    BY <1>s, <1>b, <2>1
  <2>2. CASE Settled(state) = IdleJob
    BY <1>s, <1>b, <2>2 DEF IdleJob
  <2> QED BY <2>1, <2>2, SettledMove
<1>n. ASSUME NEW w \in Jobs, job'[w].pc # "promote"
      PROVE  Harvests(w)
  BY <1>j, <1>n DEF AtWork, Harvests
<1>o. ASSUME NEW w \in Jobs, NEW state, Becomes(w, state), Harvests(w)
      PROVE  Harvests(v)
  BY <1>b, <1>o DEF Harvests
<1>1. CASE UNCHANGED job
  BY <1>1 DEF Harvests
<1>2. ASSUME NEW w \in Jobs, NEW state, Becomes(w, state), state.pc # "promote"
      PROVE  Harvests(v)
  BY <1>2, <1>b, <1>n, <1>o
<1>3. ASSUME NEW w \in Jobs, Tick(w) \/ ListGroups(w) \/ ReadNow(w) \/ FindRound(w) \/ InsertRound(w)
                             \/ Reveal(w) \/ Crash(w)
      PROVE  Harvests(v)
  <2>1. \E state : Becomes(w, state) /\ state.pc # "promote"
    <3>1. CASE Tick(w)
      <4> DEFINE j == [[[IdleJob EXCEPT !.pc = "list"] EXCEPT !.now = clock] EXCEPT !.scope = Groups]
      <4>1. Becomes(w, j) /\ j.pc = "list"
        BY <3>1 DEF Tick, IdleJob
      <4> QED BY <4>1
    <3>2. CASE ListGroups(w)
      <4> DEFINE j == [job[w] EXCEPT !.pc = "ensure",
                         !.todo = SetToSeq({Listed(g) : g \in {h \in Groups : Exists(h)}})]
      <4>1. Becomes(w, j) /\ j.pc = "ensure"
        BY <1>j, <3>2 DEF ListGroups, JobType
      <4> QED BY <4>1
    <3>3. CASE ReadNow(w)
      <4> DEFINE j == [job[w] EXCEPT !.pc = "ensure", !.now = clock]
      <4>1. Becomes(w, j) /\ j.pc = "ensure"
        BY <1>j, <3>3 DEF ReadNow, JobType
      <4> QED BY <4>1
    <3>4. CASE FindRound(w)
      <4> DEFINE next == [job[w] EXCEPT !.todo = Tail(job[w].todo)]
                 insert == [job[w] EXCEPT !.pc = "insert",
                              !.number = Max(Numbers(Current(w).group) \cup {0}) + 1]
      <4>1. job[w].pc = "ensure" /\ (Becomes(w, next) \/ Becomes(w, insert))
        BY <3>4 DEF FindRound
      <4>2. next.pc = job[w].pc /\ insert.pc = "insert"
        BY <1>j DEF JobType
      <4> HIDE DEF next, insert
      <4> QED BY <4>1, <4>2
    <3>5. CASE InsertRound(w)
      <4> DEFINE next == [job[w] EXCEPT !.pc = "ensure", !.todo = Tail(job[w].todo)]
      <4>1. Becomes(w, next) \/ Becomes(w, IdleJob)
        BY <3>5 DEF InsertRound, Stop
      <4>2. next.pc = "ensure" /\ IdleJob.pc = "idle"
        BY <1>j DEF JobType, IdleJob
      <4> HIDE DEF next
      <4> QED BY <4>1, <4>2
    <3>6. CASE Reveal(w)
      <4>1. Becomes(w, [job[w] EXCEPT !.pc = "finalize"]) /\ [job[w] EXCEPT !.pc = "finalize"].pc = "finalize"
        BY <1>j, <3>6 DEF Reveal, JobType
      <4> QED BY <4>1
    <3>7. CASE Crash(w)
      <4>1. Becomes(w, IdleJob) /\ IdleJob.pc = "idle"
        BY <3>7 DEF Crash, Stop, IdleJob
      <4> QED BY <4>1
    <3> QED BY <1>3, <3>1, <3>2, <3>3, <3>4, <3>5, <3>6, <3>7
  <2> QED BY <1>2, <2>1
<1>4. ASSUME NEW w \in Views, NEW g \in Groups, Today(w, g)
      PROVE  Harvests(v)
  <2> DEFINE j == [[[IdleJob EXCEPT !.pc = "now"] EXCEPT !.scope = {g}] EXCEPT !.todo = <<Listed(g)>>]
  <2>1. Becomes(w, j) /\ j.pc = "now"
    BY <1>4 DEF Today, IdleJob
  <2> QED BY <1>2, <2>1 DEF Jobs
<1>5. ASSUME NEW w \in Jobs, FinalizeRounds(w)
      PROVE  Harvests(v)
  <2> DEFINE next == [job[w] EXCEPT !.pc = "promote", !.won = Harvested(w)]
  <2>1. Becomes(w, Settled(next)) /\ Moved(ToFinish(w), "final") /\ job[w].pc = "finalize"
    BY <1>5 DEF FinalizeRounds
  <2>2. next.won = ToFinish(w) /\ next.found = job[w].found /\ job[w].found = {}
    BY <1>j, <2>1 DEF JobType, AtWork, Harvested
  <2> HIDE DEF next
  <2> QED BY <1>s, <1>o, <2>1, <2>2 DEF Harvests
<1>6. ASSUME NEW w \in Jobs, NEW r \in job[w].won, SelectCandidates(w, r)
      PROVE  Harvests(v)
  <2> DEFINE next(kept) == [job[w] EXCEPT !.won = job[w].won \ {r}, !.from = r, !.found = kept]
  <2>1. PICK S \in SUBSET Popular(r) :
          LET found == {[key |-> Key[At(answer, r)[p]], votes |-> Votes(r, p)] : p \in S}
          IN Becomes(w, Settled(next({c \in found : c.key # Nothing})))
    BY <1>6 DEF SelectCandidates
  <2> DEFINE found == {[key |-> Key[At(answer, r)[p]], votes |-> Votes(r, p)] : p \in S}
             kept == {c \in found : c.key # Nothing}
  <2>2. \A c \in kept : c.votes >= MinVotes
    BY DEF Popular
  <2>3. next(kept).won = job[w].won \ {r} /\ next(kept).from = r /\ next(kept).found = kept
    BY <1>j DEF JobType
  <2>4. Becomes(w, Settled(next(kept)))
    BY <2>1
  <2> HIDE DEF next, kept
  <2> QED BY <1>s, <1>o, <2>2, <2>3, <2>4 DEF Harvests
<1>7. ASSUME NEW w \in Jobs, \/ Fault(w)
                             \/ \E c \in job[w].found : SaveCandidate(w, c)
      PROVE  Harvests(v)
  <2> DEFINE less(found) == [job[w] EXCEPT !.found = found]
             fewer(won) == [job[w] EXCEPT !.won = won]
  <2>1. \/ Becomes(w, IdleJob)
        \/ \E found \in SUBSET job[w].found : Becomes(w, Settled(less(found)))
        \/ \E won \in SUBSET job[w].won : Becomes(w, Settled(fewer(won)))
    <3>1. CASE Fault(w)
      <4>1. \/ Becomes(w, IdleJob)
            \/ Becomes(w, Settled(less({})))
            \/ \E r \in job[w].won : Becomes(w, Settled(fewer(job[w].won \ {r})))
        BY <3>1 DEF Fault, Stop
      <4> HIDE DEF less, fewer
      <4> QED BY <4>1
    <3>2. ASSUME NEW c \in job[w].found, SaveCandidate(w, c)
          PROVE  \E found \in SUBSET job[w].found : Becomes(w, Settled(less(found)))
      <4>1. \/ Becomes(w, Settled(less(job[w].found \ {c})))
            \/ Becomes(w, Settled(less({})))
        BY <3>2 DEF SaveCandidate
      <4> HIDE DEF less, fewer
      <4> QED BY <4>1
    <3> QED BY <1>7, <3>1, <3>2
  <2>2. \A x : /\ less(x).won = job[w].won /\ less(x).found = x /\ less(x).from = job[w].from
               /\ fewer(x).won = x /\ fewer(x).found = job[w].found /\ fewer(x).from = job[w].from
    BY <1>j DEF JobType
  <2> HIDE DEF less, fewer
  <2>3. CASE Becomes(w, IdleJob)
    BY <1>2, <2>3 DEF IdleJob
  <2>4. ASSUME NEW found \in SUBSET job[w].found, Becomes(w, Settled(less(found)))
        PROVE  Harvests(v)
    BY <1>s, <1>o, <2>2, <2>4 DEF Harvests
  <2>5. ASSUME NEW won \in SUBSET job[w].won, Becomes(w, Settled(fewer(won)))
        PROVE  Harvests(v)
    BY <1>s, <1>o, <2>2, <2>5 DEF Harvests
  <2> QED BY <2>1, <2>3, <2>4, <2>5
<1> QED
  BY <1>1, <1>3, <1>4, <1>5, <1>6, <1>7, ZenonT(40)
     DEF Next, Works, Finishes, vars, PassTime, CreateGroup, DeleteGroup, CountMembers,
         ReadSettings, Submit, Vote, Begin, JoinGroup, UpdateGroup, SaveAnswer, SaveVote, Abort,
         DeleteDailySubmission, ReviewCandidate

LEMMA HarvestStep ==
  ASSUME TypeDaily, TypeDaily', Vacant, HarvestInv, [Next]_vars
  PROVE  HarvestInv'
<1> SUFFICES ASSUME NEW w \in Jobs
             PROVE  /\ \A r \in job'[w].won : OverThen(r)
                    /\ job'[w].found # {} => OverThen(job'[w].from)
                    /\ \A c \in job'[w].found : c.votes >= MinVotes
  BY DEF HarvestInv, Over, OverThen, At
<1>t. job[w] \in JobType /\ AtWork(job[w])
  BY TypeParts DEF JobsTyped
<1>r. job[w].won \subseteq Rounds /\ (job[w].found # {} => job[w].from \in Rounds)
  BY <1>t, JobFields DEF AtWork
<1>1. /\ \A r \in job[w].won : OverThen(r)
      /\ job[w].found # {} => OverThen(job[w].from)
      /\ \A c \in job[w].found : c.votes >= MinVotes
  <2>1. ASSUME NEW r \in Rounds, Over(r) PROVE OverThen(r)
    BY <2>1, OverStays
  <2>2. CASE job[w].found # {}
    <3>1. PICK f \in Rounds : f = job[w].from
      BY <1>r, <2>2
    <3>2. OverThen(f) <=> OverThen(job[w].from)
      BY <3>1
    <3>3. Over(f)
      BY <2>2, <3>1 DEF HarvestInv
    <3> QED BY <1>r, <2>1, <3>2, <3>3 DEF HarvestInv
  <2> QED BY <1>r, <2>1, <2>2 DEF HarvestInv
<1>2. CASE job'[w].won = {} /\ job'[w].found = {}
  BY <1>2
<1>3. CASE /\ job'[w].won \subseteq job[w].won /\ job'[w].found \subseteq job[w].found
           /\ job'[w].from = job[w].from
  BY <1>1, <1>3
<1>4. CASE /\ job'[w].won \subseteq job[w].won /\ job'[w].from \in job[w].won
           /\ \A c \in job'[w].found : c.votes >= MinVotes
  BY <1>1, <1>4
<1>5. CASE Moved(ToFinish(w), "final") /\ job'[w].won \subseteq ToFinish(w) /\ job'[w].found = {}
  <2>1. ASSUME NEW r \in ToFinish(w) PROVE OverThen(r)
    <3>1. r \in Rounds /\ At(round, r) # NoRound
      BY <2>1, ToFinishVoting
    <3>2. r[1] \in Groups /\ r[2] \in Dates /\ r = <<r[1], r[2]>>
      BY <3>1 DEF Rounds
    <3>3. At(round, r)' = [At(round, r) EXCEPT !.state = "final"]
      BY <1>5, <2>1, <3>2 DEF Moved, At
    <3>4. At(round, r) \in RoundRow
      BY <3>1, RowsTyped
    <3> QED BY <3>3, <3>4 DEF OverThen, RoundRow, At
  <2> QED BY <1>5, <2>1
<1> QED BY <1>2, <1>3, <1>4, <1>5, HarvestMoves DEF Harvests

\* How a candidate can change, unless its group goes.
KeptBy(k) ==
  /\ candidate[k] # NoCandidate /\ candidate'[k].votes = candidate[k].votes
  /\ candidate'[k].source = candidate[k].source

LEMMA EarnedStep ==
  ASSUME TypeDaily, Vacant, HarvestInv, CandidatesAreEarned, [Next]_vars
  PROVE  CandidatesAreEarned'
<1> SUFFICES ASSUME NEW k \in Keys, candidate'[k] # NoCandidate
             PROVE  /\ candidate'[k].votes >= MinVotes
                    /\ At(round', candidate'[k].source).state = "final"
  BY DEF CandidatesAreEarned, At
<1>t. TablesTyped /\ JobsTyped
  BY TypeParts
<1>1. CASE KeptBy(k)
  <2>1. candidate[k] \in CandidateType /\ candidate[k].votes >= MinVotes
    BY <1>t, <1>1 DEF TablesTyped, KeptBy, CandidatesAreEarned
  <2>2. PICK r \in Rounds : r = candidate[k].source
    BY <2>1 DEF CandidateType
  <2>3. At(round, r).state = "final"
    BY <1>1, <2>2 DEF KeptBy, CandidatesAreEarned
  <2>4. ~Dropped(r)
    <3>1. ASSUME Dropped(r) PROVE candidate' = Withdrawn(r[1])
      BY <3>1, DroppedEnds DEF Ended
    <3>2. Withdrawn(r[1])[k] = NoCandidate
      BY <2>2 DEF Withdrawn
    <3> QED BY <3>1, <3>2
  <2>5. At(round', r).state = "final"
    BY <2>3, <2>4, RoundMoves DEF RoundMove, SameRound, Made, Advanced, NoRound, At
  <2> QED BY <1>1, <2>1, <2>2, <2>5 DEF KeptBy
<1>2. ASSUME NEW w \in Jobs, NEW c \in job[w].found, SaveCandidate(w, c), ~KeptBy(k)
      PROVE  /\ candidate'[k].votes >= MinVotes
             /\ At(round', candidate'[k].source).state = "final"
  <2>1. /\ c.votes >= MinVotes /\ Over(job[w].from) /\ round' = round
        /\ c.key \in Keys /\ job[w].from \in Rounds
    <3>1. job[w] \in JobType /\ AtWork(job[w])
      BY <1>t DEF JobsTyped
    <3> QED BY <1>2, <3>1, JobFields DEF HarvestInv, SaveCandidate, play, AtWork
  <2> DEFINE fresh == [status |-> "pending", votes |-> c.votes, source |-> job[w].from]
  <2>2. \/ candidate' = candidate
        \/ /\ candidate[c.key] # NoCandidate
           /\ candidate' = [candidate EXCEPT ![c.key] = Merged(candidate[c.key], c)]
        \/ /\ At(round, job[w].from) # NoRound
           /\ candidate' = [candidate EXCEPT ![c.key] = fresh]
    BY <1>2 DEF SaveCandidate
  <2>3. CASE candidate'[k] = candidate[k]
    BY <1>2, <2>3 DEF KeptBy
  <2>4. CASE /\ k = c.key /\ candidate[k] # NoCandidate
             /\ candidate'[k] = Merged(candidate[k], c) /\ candidate'[k] # candidate[k]
    <3>1. candidate'[k] = [candidate[k] EXCEPT !.votes = c.votes] /\ candidate[k] \in CandidateType
      BY <1>t, <2>4 DEF Merged, TablesTyped
    <3>2. candidate'[k].votes = c.votes /\ candidate'[k].source = candidate[k].source
      BY <3>1 DEF CandidateType
    <3>3. At(round, candidate[k].source).state = "final"
      BY <2>4 DEF CandidatesAreEarned
    <3> QED BY <2>1, <3>2, <3>3 DEF At
  <2>5. CASE k = c.key /\ candidate'[k] = fresh /\ At(round, job[w].from) # NoRound
    <3>1. job[w].from[1] \in Groups /\ job[w].from[2] \in Dates
      BY <2>1 DEF Rounds
    <3>2. At(round, job[w].from).state = "final"
      BY <2>1, <2>5, <3>1 DEF Over, Vacant, Exists, Gone, At
    <3> QED BY <2>1, <2>5, <3>2 DEF At
  <2> HIDE DEF fresh
  <2>6. candidate \in [Keys -> {NoCandidate} \cup CandidateType]
    BY <1>t DEF TablesTyped
  <2> QED BY <2>1, <2>2, <2>3, <2>4, <2>5, <2>6
<1>3. ASSUME NEW o \in Keys, NEW decision, ReviewCandidate(o, decision)
      PROVE  KeptBy(k)
  <2>1. candidate[k] # NoCandidate => candidate[k] \in CandidateType
    BY <1>t DEF TablesTyped
  <2>2. candidate'[k] \in {candidate[k], [candidate[k] EXCEPT !.status = decision]}
    BY <1>t, <1>3 DEF ReviewCandidate, TablesTyped
  <2>3. candidate[k] # NoCandidate
    BY <1>t, <1>3 DEF ReviewCandidate, TablesTyped
  <2> QED BY <2>1, <2>2, <2>3 DEF KeptBy, CandidateType
<1>4. ASSUME NEW g \in Groups, DeleteGroup(g)
      PROVE  KeptBy(k)
  BY <1>4 DEF DeleteGroup, Withdrawn, KeptBy
<1>5. CASE UNCHANGED candidate
  BY <1>1, <1>5 DEF KeptBy
<1> QED
  BY <1>1, <1>2, <1>3, <1>4, <1>5, ZenonT(40)
     DEF Next, Works, Finishes, vars, tables, PassTime, CreateGroup, CountMembers,
         ReadSettings, Submit, Vote, Begin, JoinGroup, UpdateGroup, SaveAnswer, SaveVote, Abort,
         DeleteDailySubmission, Tick, ListGroups, Today, ReadNow, FindRound,
         InsertRound, Reveal, FinalizeRounds, SelectCandidates, Fault, Crash

\* A candidate has the votes it takes, in a final round that is still there.
THEOREM CandidatesStayEarned == Spec => []CandidatesAreEarned
<1>1. Init => HarvestInv /\ CandidatesAreEarned
  BY DEF Init, Empty, HarvestInv, CandidatesAreEarned, IdleJob
<1>2. DailyInv /\ DailyInv' /\ HarvestInv /\ CandidatesAreEarned /\ [Next]_vars
        => HarvestInv' /\ CandidatesAreEarned'
  BY HarvestStep, EarnedStep DEF DailyInv
<1> QED BY <1>1, <1>2, DailyInvAlways, PTL DEF Spec

(***************************************************************************)
(* The harvest.                                                            *)
(***************************************************************************)

\* Nothing has failed or been taken away.
Clean == used["fault"] = 0 /\ used["delete"] = 0 /\ used["remove"] = 0

\* What is left to save of the selection from r, and whether the joke of p is in the
\* queue, on its way there, or not fit for it.
Joke(r, p) == Key[At(answer, r)[p]]
Selected(r, p) == [key |-> Joke(r, p), votes |-> Votes(r, p)]
InHand(r, p) ==
  \/ Joke(r, p) = Nothing
  \/ candidate[Joke(r, p)] # NoCandidate
  \/ \E w \in Jobs : job[w].from = r /\ Selected(r, p) \in job[w].found
Taken(r) == \E S \in SUBSET Popular(r) : Winning(r, S) /\ \A p \in S : InHand(r, p)

\* A final round waits for the job that finished it, or the best of it has been taken:
\* each answer of a fair selection is in the queue or in somebody's hands.
QueueInv ==
  Clean => /\ \A g \in Groups : group[g] # Gone
           /\ \A r \in Rounds : At(round, r).state = "final" =>
                (\E w \in Jobs : r \in job[w].won) \/ Taken(r)

\* Failures and removals are never forgotten.
LEMMA CleanStep ==
  ASSUME TypeDaily, [Next]_vars, Clean'
  PROVE  /\ Clean
         /\ \A g \in Groups : ~DeleteGroup(g)
         /\ \A r \in Rounds, p \in People : ~DeleteDailySubmission(r, p)
         /\ \A w \in Jobs : ~Fault(w) /\ ~Crash(w)
         /\ \A q \in Requests : ~Abort(q)
<1> DEFINE Bad == {"fault", "delete", "remove"}
<1>t. used \in [Events -> Nat] /\ Bad \subseteq Events \ {"any"} /\ "any" \in Events
  BY DEF TypeDaily, Events
<1>1. ASSUME NEW k \in Events, Happens(k)
      PROVE  \A e \in Bad : used'[e] = IF e = k THEN used[e] + 1 ELSE used[e]
  BY <1>t, <1>1 DEF Happens
<1>2. \A k \in Bad : ~Happens(k)
  <2> SUFFICES ASSUME NEW k \in Bad, Happens(k) PROVE FALSE
    OBVIOUS
  <2>1. used'[k] = used[k] + 1 /\ used[k] \in Nat
    BY <1>t, <1>1
  <2> QED BY <2>1 DEF Clean
<1>3. Clean
  <2>1. ASSUME NEW k \in Events, Happens(k) PROVE Clean
    BY <1>1, <1>2, <2>1 DEF Clean
  <2>2. CASE UNCHANGED used
    BY <2>2 DEF Clean
  <2> QED
    BY <2>1, <2>2, ZenonT(40)
       DEF Events, Next, Works, Finishes, vars, PassTime, CreateGroup, DeleteGroup, CountMembers,
           ReadSettings, Submit, Vote, Begin, JoinGroup, UpdateGroup, SaveAnswer, SaveVote, Abort,
           DeleteDailySubmission, ReviewCandidate, Tick, ListGroups, Today, ReadNow, FindRound,
           InsertRound, Reveal, FinalizeRounds, SelectCandidates, SaveCandidate, Fault, Crash
<1> QED
  BY <1>2, <1>3 DEF DeleteGroup, DeleteDailySubmission, Fault, Crash, Abort

\* Groups go only when they are deleted.
LEMMA NoneGone ==
  ASSUME TypeDaily, [Next]_vars, \A h \in Groups : ~DeleteGroup(h),
         NEW g \in Groups, group[g] # Gone
  PROVE  group'[g] # Gone
<1>t. TablesTyped /\ ReqsTyped
  BY TypeParts
<1>1. CASE group' = group
  BY <1>1
<1>2. ASSUME NEW h \in Groups, NEW p \in People, NEW zone \in Zones, CreateGroup(h, p, zone)
      PROVE  group'[g] # Gone
  <2>1. [state |-> "live", zone |-> zone, hour |-> DefaultHour] # Gone
    BY DEF Gone
  <2> QED BY <1>t, <1>2, <2>1 DEF CreateGroup, TablesTyped
<1>3. ASSUME NEW q \in Requests, UpdateGroup(q)
      PROVE  group'[g] # Gone
  <2>1. req[q].group \in Groups
    BY <1>t, <1>3 DEF UpdateGroup, ReqsTyped, ReqType, IdleReq
  <2>2. CASE Exists(req[q].group) /\ g = req[q].group
    <3>1. group[g] \in [state : {"live"}, zone : Zones, hour : Hours]
      BY <1>t, <2>2, LiveGroup
    <3>2. group'[g] = [group[g] EXCEPT !.zone = req[q].zone, !.hour = req[q].hour]
      BY <1>t, <1>3, <2>1, <2>2 DEF UpdateGroup, TablesTyped
    <3>3. group'[g].state = "live"
      BY <3>1, <3>2
    <3> QED BY <3>3 DEF Gone
  <2>3. CASE ~(Exists(req[q].group) /\ g = req[q].group)
    BY <1>t, <1>3, <2>1, <2>3 DEF UpdateGroup, TablesTyped
  <2> QED BY <2>2, <2>3
<1> QED
  BY <1>1, <1>2, <1>3, Kinds, ZenonT(40)
     DEF Quiet, settings, CountMembers, ReadSettings, Submit, Vote, Begin, tables, Finishes,
         JoinGroup, SaveAnswer, SaveVote, Abort, DeleteDailySubmission, InsertRound, Reveal,
         FinalizeRounds

\* The answers and votes of a final round stay as they are.
LEMMA FinalRowsStay ==
  ASSUME TypeDaily, RowsInv, [Next]_vars, \A g \in Groups : ~DeleteGroup(g),
         \A o \in Rounds, p \in People : ~DeleteDailySubmission(o, p),
         NEW r \in Rounds, At(round, r).state = "final"
  PROVE  SameRows(r)
<1>t. TablesTyped /\ ReqsTyped
  BY TypeParts
<1>r. r[1] \in Groups /\ r[2] \in Dates
  BY DEF Rounds
<1>e. \A o \in Rounds : o[1] \in Groups /\ o[2] \in Dates /\ (o # r => o[1] # r[1] \/ o[2] # r[2])
  BY DEF Rounds
<1>1. CASE UNCHANGED <<answer, vote>>
  BY <1>1 DEF SameRows, At
<1>2. ASSUME NEW q \in Requests, SaveAnswer(q) \/ SaveVote(q)
      PROVE  SameRows(r)
  <2> DEFINE o == req[q].round
  <2>1. o \in Rounds /\ req[q].pc \in {"submit", "vote"}
    BY <1>t, <1>2 DEF SaveAnswer, SaveVote, ReqsTyped, ReqType, IdleReq
  <2>2. o # r
    BY <2>1 DEF RowsInv, Allowed
  <2>3. CASE SaveAnswer(q)
    <3>1. /\ answer' = [answer EXCEPT ![o[1]][o[2]][req[q].who] = req[q].what]
          /\ vote' = vote
      BY <2>3 DEF SaveAnswer
    <3> HIDE DEF o
    <3> QED BY <1>t, <1>r, <1>e, <2>1, <2>2, <3>1 DEF SameRows, At, TablesTyped
  <2>4. CASE SaveVote(q)
    <3>1. /\ answer' = answer
          /\ \/ vote' = vote
             \/ vote' = [vote EXCEPT ![o[1]][o[2]][req[q].who] = req[q].what]
      BY <2>4 DEF SaveVote
    <3> HIDE DEF o
    <3>2. At(vote, r)' = At(vote, r)
      <4>1. CASE vote' = vote
        BY <4>1 DEF At
      <4>2. CASE vote' = [vote EXCEPT ![o[1]][o[2]][req[q].who] = req[q].what]
        BY <1>t, <1>r, <1>e, <2>1, <2>2, <4>2 DEF At, TablesTyped
      <4> QED BY <3>1, <4>1, <4>2
    <3>3. At(answer, r)' = At(answer, r)
      BY <3>1 DEF At
    <3> QED BY <3>2, <3>3 DEF SameRows
  <2> QED BY <1>2, <2>3, <2>4
<1> QED
  BY <1>1, <1>2, Kinds, ZenonT(40)
     DEF Finishes, Quiet, JoinGroup, UpdateGroup, Abort, CountMembers, ReadSettings, Submit,
         Vote, Begin, tables, play, InsertRound, Reveal, FinalizeRounds, CreateGroup

\* The same answers and votes are as popular as before, and win as before.
LEMMA SameWinners ==
  ASSUME NEW r \in Rounds, SameRows(r)
  PROVE  /\ Popular(r)' = Popular(r)
         /\ \A p \in People : Joke(r, p)' = Joke(r, p) /\ Votes(r, p)' = Votes(r, p)
         /\ \A S : Winning(r, S)' <=> Winning(r, S)
<1>1. At(answer, r)' = At(answer, r) /\ At(vote, r)' = At(vote, r)
  BY DEF SameRows
<1>2. Answers(r)' = Answers(r)
  BY <1>1, Zenon DEF Answers
<1>3. ASSUME NEW p PROVE Votes(r, p)' = Votes(r, p)
  BY <1>1, Zenon DEF Votes
<1>4. Popular(r)' = Popular(r)
  <2>1. Popular(r) = {p \in Answers(r) : Votes(r, p) >= MinVotes}
    BY DEF Popular
  <2>2. Popular(r)' = {p \in Answers(r)' : Votes(r, p)' >= MinVotes}
    BY DEF Popular
  <2> QED BY <1>2, <1>3, <2>1, <2>2
<1>5. ASSUME NEW p PROVE Joke(r, p)' = Joke(r, p)
  BY <1>1, Zenon DEF Joke
<1>6. ASSUME NEW S PROVE Winning(r, S)' <=> Winning(r, S)
  BY <1>3, <1>4, Zenon DEF Winning
<1> QED BY <1>3, <1>4, <1>5, <1>6

\* A round is final from the step that puts it in the hands of a job.
LEMMA FinishedIsWon ==
  ASSUME TypeDaily, TypeDaily', [Next]_vars, \A g \in Groups : ~DeleteGroup(g),
         NEW r \in Rounds, At(round, r).state # "final", At(round, r)'.state = "final"
  PROVE  \E w \in Jobs : r \in job'[w].won
<1>t. TablesTyped /\ JobsTyped /\ ReqsTyped
  BY TypeParts
<1>r. r[1] \in Groups /\ r[2] \in Dates /\ r = <<r[1], r[2]>>
  BY DEF Rounds
<1>y. At(round, r) \in {NoRound} \cup RoundRow
  BY RowsTyped
<1>1. ASSUME NEW w \in Jobs, FinalizeRounds(w)
      PROVE  r \in job'[w].won
  <2>1. r \in ToFinish(w)
    <3>1. ASSUME r \notin ToFinish(w) PROVE At(round, r)' = At(round, r)
      BY <1>r, <1>1, <3>1 DEF FinalizeRounds, Moved, At
    <3> QED BY <3>1
  <2> DEFINE next == [job[w] EXCEPT !.pc = "promote", !.won = ToFinish(w)]
  <2>2. job'[w] = Settled(next)
    BY <1>t, <1>1 DEF FinalizeRounds, Becomes, JobsTyped, Harvested
  <2>3. next.won = ToFinish(w)
    BY <1>t DEF JobsTyped, JobType
  <2> HIDE DEF next
  <2> QED BY <2>1, <2>2, <2>3 DEF Settled
<1>2. ASSUME NEW w \in Jobs, Reveal(w) PROVE FALSE
  <2>1. CASE r \in ToReveal(w)
    <3>1. At(round, r)' = [At(round, r) EXCEPT !.state = "voting"] /\ At(round, r) \in RoundRow
      BY <1>r, <1>y, <1>2, <2>1, ToRevealOpen DEF Reveal, Moved, At
    <3> QED BY <3>1 DEF RoundRow
  <2>2. CASE r \notin ToReveal(w)
    BY <1>r, <1>2, <2>2 DEF Reveal, Moved, At
  <2> QED BY <2>1, <2>2
<1>3. ASSUME NEW g \in Groups, NEW d, NEW n, n.state = "open",
             round' = [round EXCEPT ![g][d] = n]
      PROVE  FALSE
  <2>1. At(round, r)' = At(round, r) \/ At(round, r)' = n
    BY <1>t, <1>r, <1>3 DEF At, TablesTyped
  <2> QED BY <1>3, <2>1
<1>4. ASSUME NEW g \in Groups, NEW p \in People, NEW zone \in Zones, CreateGroup(g, p, zone)
      PROVE  FALSE
  <2> DEFINE d == DateAt(clock, zone)
             n == NewRound(1, d, zone, DefaultHour)
  <2>1. round' = [round EXCEPT ![g][d] = n] /\ n.state = "open"
    BY <1>4 DEF CreateGroup, NewRound
  <2> HIDE DEF d, n
  <2> QED BY <1>3, <2>1
<1>5. ASSUME NEW w \in Jobs, InsertRound(w) PROVE FALSE
  <2> DEFINE g == Current(w).group
             d == DateOf(w)
             n == NewRound(job[w].number, d, Current(w).zone, Current(w).hour)
  <2>1. CASE CanInsert(w)
    <3>1. round' = [round EXCEPT ![g][d] = n] /\ n.state = "open"
      BY <1>5, <2>1 DEF InsertRound, NewRound
    <3>2. g \in Groups
      <4>1. job[w] \in JobType /\ job[w].todo # <<>>
        BY <1>t, <1>5 DEF InsertRound, JobsTyped, AtWork
      <4> QED BY <4>1, JobFields DEF Current, Listing
    <3> HIDE DEF g, d, n
    <3> QED BY <1>3, <3>1, <3>2
  <2>2. CASE ~CanInsert(w)
    BY <1>5, <2>2 DEF InsertRound, At
  <2> QED BY <2>1, <2>2
<1>6. ASSUME NEW q \in Requests, UpdateGroup(q) PROVE FALSE
  <2> DEFINE g == req[q].group
             d == DateAt(clock, req[q].zone)
             v == RevealAt(d, req[q].zone, req[q].hour)
  <2>1. round' = round \/ round' = [round EXCEPT ![g][d].reveal = v]
    BY <1>6 DEF UpdateGroup
  <2> HIDE DEF g, d, v
  <2>2. At(round, r)' = At(round, r) \/ At(round, r)' = [At(round, r) EXCEPT !.reveal = v]
    <3>1. CASE round' = round
      BY <3>1 DEF At
    <3>2. CASE round' = [round EXCEPT ![g][d].reveal = v] /\ g = r[1] /\ d = r[2]
      BY <1>t, <1>r, <3>2 DEF At, TablesTyped
    <3>3. CASE round' = [round EXCEPT ![g][d].reveal = v] /\ ~(g = r[1] /\ d = r[2])
      BY <1>t, <1>r, <3>3 DEF At, TablesTyped
    <3> QED BY <2>1, <3>1, <3>2, <3>3
  <2>3. At(round, r)'.state = At(round, r).state
    BY <1>y, <2>2 DEF RoundRow, NoRound
  <2> QED BY <2>3
<1>7. CASE UNCHANGED round
  BY <1>7 DEF At
<1> QED
  BY <1>1, <1>2, <1>4, <1>5, <1>6, <1>7, Kinds, ZenonT(40)
     DEF Finishes, Quiet, JoinGroup, SaveAnswer, SaveVote, DeleteDailySubmission, Abort,
         CountMembers, ReadSettings, Submit, Vote, Begin, tables, play

\* What is in the queue stays there until its group is deleted.
LEMMA QueuedStays ==
  ASSUME TypeDaily, [Next]_vars, \A g \in Groups : ~DeleteGroup(g),
         NEW k \in Keys, candidate[k] # NoCandidate
  PROVE  candidate'[k] # NoCandidate
<1>t. candidate \in [Keys -> {NoCandidate} \cup CandidateType]
  BY TypeParts DEF TablesTyped
<1>n. \A c \in CandidateType : c # NoCandidate
  BY DEF CandidateType, NoCandidate
<1>1. CASE UNCHANGED candidate
  BY <1>1
<1>2. ASSUME NEW w \in Jobs, NEW c \in job[w].found, SaveCandidate(w, c)
      PROVE  candidate'[k] # NoCandidate
  <2> DEFINE fresh == [status |-> "pending", votes |-> c.votes, source |-> job[w].from]
  <2>1. \/ candidate' = candidate
        \/ /\ candidate[c.key] # NoCandidate
           /\ candidate' = [candidate EXCEPT ![c.key] = Merged(candidate[c.key], c)]
        \/ candidate[c.key] = NoCandidate /\ candidate' = [candidate EXCEPT ![c.key] = fresh]
    BY <1>2 DEF SaveCandidate
  <2> HIDE DEF fresh
  <2>2. candidate'[k] = candidate[k] \/ candidate'[k] = Merged(candidate[k], c)
    BY <1>t, <2>1
  <2>3. Merged(candidate[k], c) = candidate[k]
          \/ Merged(candidate[k], c) = [candidate[k] EXCEPT !.votes = c.votes]
    BY DEF Merged
  <2>4. candidate[k] \in CandidateType
    BY <1>t
  <2>5. [candidate[k] EXCEPT !.votes = c.votes].status = candidate[k].status
        /\ candidate[k].status # "none" /\ NoCandidate.status = "none"
    BY <2>4 DEF CandidateType, NoCandidate
  <2> QED BY <2>2, <2>3, <2>5
<1>3. ASSUME NEW o \in Keys, NEW decision \in {"approved", "rejected"}, ReviewCandidate(o, decision)
      PROVE  candidate'[k] # NoCandidate
  <2>1. candidate'[k] \in {candidate[k], [candidate[k] EXCEPT !.status = decision]}
    BY <1>t, <1>3 DEF ReviewCandidate
  <2>2. candidate[k] \in CandidateType
    BY <1>t
  <2>3. [candidate[k] EXCEPT !.status = decision].status = decision /\ NoCandidate.status = "none"
    BY <2>2 DEF CandidateType, NoCandidate
  <2> QED BY <2>1, <2>3
<1> QED
  BY <1>1, <1>2, <1>3, ZenonT(40)
     DEF Next, Works, Finishes, vars, tables, PassTime, CreateGroup, CountMembers,
         ReadSettings, Submit, Vote, Begin, JoinGroup, UpdateGroup, SaveAnswer, SaveVote, Abort,
         DeleteDailySubmission, Tick, ListGroups, Today, ReadNow, FindRound,
         InsertRound, Reveal, FinalizeRounds, SelectCandidates, Fault, Crash

\* As long as nothing fails, only selecting and saving takes anything out of a job.
Selects(w) == \E r \in job[w].won : SelectCandidates(w, r)
Saves(w) == \E c \in job[w].found : SaveCandidate(w, c)
LEMMA HandsKept ==
  ASSUME TypeDaily, [Next]_vars, \A v \in Jobs : ~Fault(v) /\ ~Crash(v), NEW w \in Jobs,
         job[w].won # {} \/ job[w].found # {}
  PROVE  job'[w] = job[w] \/ Selects(w) \/ Saves(w)
<1>t. job \in [Jobs -> JobType] /\ \A v \in Jobs : AtWork(job[v])
  BY TypeParts DEF JobsTyped
<1>p. job[w].pc = "promote"
  BY <1>t DEF AtWork
<1>b. ASSUME NEW v \in Jobs, NEW state, Becomes(v, state), v # w
      PROVE  job'[w] = job[w]
  BY <1>t, <1>b DEF Becomes
<1>1. CASE UNCHANGED job
  BY <1>1
<1>2. ASSUME NEW v \in Jobs, \/ Tick(v) \/ ListGroups(v) \/ ReadNow(v) \/ FindRound(v)
                             \/ InsertRound(v) \/ Reveal(v) \/ FinalizeRounds(v)
      PROVE  job'[w] = job[w]
  <2>1. v # w
    BY <1>2, <1>p, <1>t DEF Tick, Ticking, ListGroups, ReadNow, FindRound, InsertRound, Reveal, FinalizeRounds
  <2>2. \E state : Becomes(v, state)
    BY <1>2 DEF Tick, ListGroups, ReadNow, FindRound, InsertRound, Reveal, FinalizeRounds, Stop
  <2> QED BY <1>b, <2>1, <2>2
<1>3. ASSUME NEW v \in Views, NEW g \in Groups, Today(v, g)
      PROVE  job'[w] = job[w]
  <2>1. v # w /\ \E state : Becomes(v, state)
    BY <1>3, <1>p DEF Today
  <2> QED BY <1>b, <2>1 DEF Jobs
<1>4. ASSUME NEW v \in Jobs, Selects(v) \/ Saves(v)
      PROVE  job'[w] = job[w] \/ Selects(w) \/ Saves(w)
  <2>1. \E state : Becomes(v, state)
    BY <1>4 DEF Selects, Saves, SelectCandidates, SaveCandidate
  <2> QED BY <1>b, <1>4, <2>1
<1> QED
  BY <1>1, <1>2, <1>3, <1>4, ZenonT(40)
     DEF Selects, Saves, Next, Works, Finishes, vars, PassTime, CreateGroup, DeleteGroup,
         CountMembers, ReadSettings, Submit, Vote, Begin, JoinGroup, UpdateGroup, SaveAnswer,
         SaveVote, Abort, DeleteDailySubmission, ReviewCandidate

\* A count of votes is a number.
LEMMA VotesAreNumbers == ASSUME NEW r, NEW p PROVE Votes(r, p) \in Nat
<1>1. {v \in People : At(vote, r)[v] = p} \subseteq People
  OBVIOUS
<1> QED BY <1>1, NamesAssumption, FS_Subset, FS_CardinalityType DEF Votes

\* What is in hand of a final round, after a step in which nothing fails.
LEMMA InHandStays ==
  ASSUME DailyInv, RowsInv, [Next]_vars, \A g \in Groups : ~DeleteGroup(g),
         \A w \in Jobs : ~Fault(w) /\ ~Crash(w),
         NEW r \in Rounds, At(round, r).state = "final", SameRows(r),
         NEW p \in Answers(r), InHand(r, p)
  PROVE  InHand(r, p)'
<1>t. TypeDaily /\ job \in [Jobs -> JobType] /\ \A w \in Jobs : AtWork(job[w])
  BY TypeParts DEF DailyInv, JobsTyped
<1>k. Joke(r, p) \in Keys \cup {Nothing}
  BY <1>t, RowsTyped, NamesAssumption DEF Joke, Answers
<1>s. Joke(r, p)' = Joke(r, p) /\ Votes(r, p)' = Votes(r, p) /\ p \in People
  BY SameWinners DEF Answers
<1>f. Selected(r, p)' = Selected(r, p) /\ Selected(r, p).key = Joke(r, p)
  BY <1>s DEF Selected
<1>1. CASE Joke(r, p) = Nothing
  BY <1>1, <1>s DEF InHand
<1>2. CASE Joke(r, p) # Nothing /\ candidate[Joke(r, p)] # NoCandidate
  <2>1. candidate'[Joke(r, p)] # NoCandidate
    BY <1>t, <1>k, <1>2, QueuedStays
  <2> QED BY <1>s, <2>1 DEF InHand
<1>3. CASE Joke(r, p) # Nothing /\ \E w \in Jobs : job[w].from = r /\ Selected(r, p) \in job[w].found
  <2>1. PICK w \in Jobs : job[w].from = r /\ Selected(r, p) \in job[w].found
    BY <1>3
  <2>2. CASE job'[w] = job[w]
    BY <1>f, <2>1, <2>2 DEF InHand
  <2>3. ~Selects(w)
    BY <2>1 DEF Selects, SelectCandidates
  <2>4. CASE Saves(w)
    <3>1. PICK c \in job[w].found : SaveCandidate(w, c)
      BY <2>4 DEF Saves
    <3> DEFINE next == [job[w] EXCEPT !.found = job[w].found \ {c}]
               fresh == [status |-> "pending", votes |-> c.votes, source |-> r]
    <3>2. At(round, r) # NoRound
      BY DEF NoRound
    <3>3. /\ Becomes(w, Settled(next))
          /\ candidate[c.key] = NoCandidate => candidate' = [candidate EXCEPT ![c.key] = fresh]
      BY <2>1, <3>1, <3>2 DEF SaveCandidate
    <3>4. job'[w] = Settled(next)
      BY <1>t, <3>3 DEF Becomes
    <3>5. next.found = job[w].found \ {c} /\ next.from = r
      BY <1>t, <2>1 DEF JobType
    <3> HIDE DEF next
    <3>6. CASE c = Selected(r, p)
      <4>1. c.key = Joke(r, p) /\ Joke(r, p) \in Keys
        BY <1>f, <1>k, <1>3, <3>6
      <4>2. candidate'[Joke(r, p)] # NoCandidate
        <5>1. CASE candidate[Joke(r, p)] = NoCandidate
          <6>1. candidate'[Joke(r, p)] = fresh
            BY <1>t, <3>3, <4>1, <5>1 DEF TypeDaily
          <6> QED BY <6>1 DEF NoCandidate
        <5>2. CASE candidate[Joke(r, p)] # NoCandidate
          BY <1>t, <4>1, <5>2, QueuedStays
        <5> QED BY <5>1, <5>2
      <4> QED BY <1>s, <4>2 DEF InHand
    <3>7. CASE c # Selected(r, p)
      <4>1. Selected(r, p) \in next.found
        BY <2>1, <3>5, <3>7
      <4>2. Settled(next) = next
        BY <4>1 DEF Settled
      <4> QED BY <1>f, <3>4, <3>5, <4>1, <4>2 DEF InHand
    <3> QED BY <3>6, <3>7
  <2> QED BY <1>t, <2>1, <2>2, <2>3, <2>4, HandsKept DEF DailyInv
<1> QED BY <1>1, <1>2, <1>3 DEF InHand

\* The round that is selected from goes from the rounds won into the hands.
LEMMA SelectTakes ==
  ASSUME DailyInv, NEW w \in Jobs, NEW r \in Rounds, SelectCandidates(w, r)
  PROVE  Taken(r)'
<1>t. job[w] \in JobType /\ TypeDaily /\ job \in [Jobs -> JobType]
  BY TypeParts DEF DailyInv, JobsTyped
<1> DEFINE next(kept) == [job[w] EXCEPT !.won = job[w].won \ {r}, !.from = r, !.found = kept]
           all(S) == {[key |-> Key[At(answer, r)[p]], votes |-> Votes(r, p)] : p \in S}
           kept(S) == {c \in all(S) : c.key # Nothing}
<1>1. PICK S \in SUBSET Popular(r) : Winning(r, S) /\ Becomes(w, Settled(next(kept(S))))
  BY DEF SelectCandidates
<1>2. UNCHANGED tables /\ SameRows(r)
  BY DEF SelectCandidates, tables, play, SameRows, At
<1>3. /\ Popular(r)' = Popular(r) /\ Winning(r, S)'
      /\ \A p \in People : Joke(r, p)' = Joke(r, p) /\ Votes(r, p)' = Votes(r, p)
  BY <1>1, <1>2, SameWinners
<1>4. job'[w] = Settled(next(kept(S)))
  BY <1>t, <1>1 DEF Becomes
<1>5. next(kept(S)).from = r /\ next(kept(S)).found = kept(S)
  BY <1>t DEF JobType
<1>6. ASSUME NEW p \in S PROVE InHand(r, p)'
  <2>1. p \in People
    BY DEF Popular, Answers
  <2>2. CASE Joke(r, p) = Nothing
    BY <1>3, <2>1, <2>2 DEF InHand
  <2>3. CASE Joke(r, p) # Nothing
    <3>1. Selected(r, p) \in all(S) /\ Selected(r, p).key = Joke(r, p)
      BY DEF Selected, Joke
    <3>2. Selected(r, p) \in kept(S)
      BY <2>3, <3>1
    <3>3. Selected(r, p)' = Selected(r, p)
      BY <1>3, <2>1 DEF Selected
    <3> HIDE DEF next, kept
    <3>4. Settled(next(kept(S))) = next(kept(S))
      BY <1>5, <3>2 DEF Settled
    <3> QED BY <1>4, <1>5, <3>2, <3>3, <3>4 DEF InHand
  <2> QED BY <2>2, <2>3
<1> QED BY <1>1, <1>3, <1>6 DEF Taken

\* Whoever has won the round keeps it until it is selected from.
LEMMA WonStays ==
  ASSUME DailyInv, [Next]_vars, \A v \in Jobs : ~Fault(v) /\ ~Crash(v),
         NEW r \in Rounds, NEW w \in Jobs, r \in job[w].won
  PROVE  r \in job'[w].won \/ Taken(r)'
<1>t. TypeDaily /\ job \in [Jobs -> JobType]
  BY TypeParts DEF DailyInv, JobsTyped
<1>1. CASE Selects(w)
  <2>1. PICK o \in job[w].won : SelectCandidates(w, o)
    BY <1>1 DEF Selects
  <2>2. CASE o = r
    BY <2>1, <2>2, SelectTakes
  <2>3. CASE o # r
    <3> DEFINE next(kept) == [job[w] EXCEPT !.won = job[w].won \ {o}, !.from = o, !.found = kept]
    <3>1. \E kept : Becomes(w, Settled(next(kept)))
      BY <2>1 DEF SelectCandidates
    <3>2. PICK kept : job'[w] = Settled(next(kept))
      BY <1>t, <3>1 DEF Becomes
    <3>3. next(kept).won = job[w].won \ {o}
      BY <1>t DEF JobType
    <3> HIDE DEF next
    <3>4. r \in next(kept).won
      BY <2>3, <3>3
    <3> QED BY <3>2, <3>4 DEF Settled
  <2> QED BY <2>2, <2>3
<1>2. CASE Saves(w)
  <2> DEFINE next(found) == [job[w] EXCEPT !.found = found]
  <2>1. \E found : Becomes(w, Settled(next(found)))
    <3>1. PICK c \in job[w].found : SaveCandidate(w, c)
      BY <1>2 DEF Saves
    <3>2. Becomes(w, Settled(next(job[w].found \ {c}))) \/ Becomes(w, Settled(next({})))
      BY <3>1 DEF SaveCandidate
    <3> HIDE DEF next
    <3> QED BY <3>2
  <2>2. PICK found : job'[w] = Settled(next(found))
    BY <1>t, <2>1 DEF Becomes
  <2>3. next(found).won = job[w].won
    BY <1>t DEF JobType
  <2> HIDE DEF next
  <2> QED BY <2>2, <2>3 DEF Settled
<1> QED BY <1>t, <1>1, <1>2, HandsKept

\* A step under which nothing fails or is removed keeps every final round in hand.
LEMMA QueueStep ==
  ASSUME DailyInv, DailyInv', RowsInv, QueueInv, [Next]_vars
  PROVE  QueueInv'
<1> SUFFICES ASSUME Clean'
             PROVE  /\ \A g \in Groups : group'[g] # Gone
                    /\ \A r \in Rounds : At(round, r)'.state = "final" =>
                         (\E w \in Jobs : r \in job'[w].won) \/ Taken(r)'
  BY DEF QueueInv
<1>t. TypeDaily /\ TypeDaily' /\ Vacant
  BY DEF DailyInv
<1>1. /\ Clean
      /\ \A g \in Groups : ~DeleteGroup(g)
      /\ \A r \in Rounds, p \in People : ~DeleteDailySubmission(r, p)
      /\ \A w \in Jobs : ~Fault(w) /\ ~Crash(w)
  BY <1>t, CleanStep
<1>2. \A g \in Groups : group'[g] # Gone
  BY <1>t, <1>1, NoneGone DEF QueueInv
<1>3. ASSUME NEW r \in Rounds, At(round, r)'.state = "final"
      PROVE  (\E w \in Jobs : r \in job'[w].won) \/ Taken(r)'
  <2>1. CASE At(round, r).state # "final"
    BY <1>t, <1>1, <1>3, <2>1, FinishedIsWon
  <2>2. CASE At(round, r).state = "final"
    <3>1. ASSUME NEW w \in Jobs, r \in job[w].won
          PROVE  (\E v \in Jobs : r \in job'[v].won) \/ Taken(r)'
      BY <1>1, <3>1, WonStays
    <3>2. CASE Taken(r)
      <4>1. PICK S \in SUBSET Popular(r) : Winning(r, S) /\ \A p \in S : InHand(r, p)
        BY <3>2 DEF Taken
      <4>2. SameRows(r)
        BY <1>t, <1>1, <2>2, FinalRowsStay
      <4>3. Popular(r)' = Popular(r) /\ Winning(r, S)'
        BY <4>1, <4>2, SameWinners
      <4>4. \A p \in S : InHand(r, p)'
        BY <1>1, <2>2, <4>1, <4>2, InHandStays DEF Popular
      <4> QED BY <4>1, <4>3, <4>4 DEF Taken
    <3> QED BY <1>1, <2>2, <3>1, <3>2 DEF QueueInv
  <2> QED BY <2>1, <2>2
<1> QED BY <1>2, <1>3

\* In every reachable state.
LEMMA QueueAlways == Spec => [](DailyInv /\ QueueInv)
<1>1. Init => QueueInv
  BY DEF Init, Empty, QueueInv, At, NoRound, Rounds, Unborn, Gone
<1>2. DailyInv /\ DailyInv' /\ RowsInv /\ QueueInv /\ [Next]_vars => QueueInv'
  BY QueueStep
<1> QED BY <1>1, <1>2, RowsAlways, PTL DEF Spec

\* Whoever finishes a round puts its best answers in the queue: as long as nothing
\* fails or is removed, an answer with enough votes is left out only for as many
\* others that have no fewer.
THEOREM BestAnswersAreQueued == Spec => []PopularAnswersAreQueued
<1>1. ASSUME DailyInv, QueueInv PROVE PopularAnswersAreQueued
  <2> SUFFICES ASSUME Clean, NEW r \in Rounds, At(round, r).state = "final", ~Harvesting(r),
                      NEW p \in Popular(r), Joke(r, p) # Nothing,
                      candidate[Joke(r, p)] = NoCandidate
               PROVE  Cardinality(NoWorse(r, p)) >= MaxPromoted
    BY DEF PopularAnswersAreQueued, Clean, Joke
  <2>1. PICK S \in SUBSET Popular(r) : Winning(r, S) /\ \A o \in S : InHand(r, o)
    BY <1>1 DEF QueueInv, Harvesting, Taken
  <2>2. p \notin S
    BY <2>1 DEF InHand, Harvesting
  <2>3. Cardinality(S) = MaxPromoted /\ S \subseteq NoWorse(r, p)
    <3>1. \A o \in S : Votes(r, p) <= Votes(r, o)
      BY <2>1, <2>2 DEF Winning
    <3>2. \A o \in People : Votes(r, o) \in Nat
      BY NamesAssumption, VotesAreNumbers
    <3> QED BY <2>1, <2>2, <3>1, <3>2 DEF Winning, NoWorse, Popular, Answers
  <2>4. IsFiniteSet(NoWorse(r, p))
    BY NamesAssumption, FS_Subset DEF NoWorse, Popular, Answers
  <2> QED BY <2>3, <2>4, FS_Subset, FS_CardinalityType, LimitAssumption
<1> QED BY <1>1, QueueAlways, PTL
=============================================================================
