-------------------------------- MODULE Daily --------------------------------
(***************************************************************************)
(* The daily game: backend/internal/daily (service.go, promote.go), its    *)
(* tables (migrations/004_daily_async.sql) and the queue of candidate      *)
(* cards it feeds (migrations/006, content/service.go, ReviewCandidate).   *)
(*                                                                         *)
(* A group plays one round per calendar day of its time zone: open for     *)
(* answers, then for votes, then final.  The background workers of all     *)
(* instances, the members who look at the day and the requests of members, *)
(* owners and administrators run side by side, in separate transactions.   *)
(* A statement is one action.  So is a transaction, unless another process *)
(* can take effect between two of its statements: then it is split where   *)
(* that can happen, and holds its row locks in between.                    *)
(*                                                                         *)
(* Time is in hours.  Days of 23 and 25 hours are left out.                *)
(***************************************************************************)
EXTENDS Integers, FiniteSets, Sequences, SequencesExt

CONSTANTS Groups, People, Workers,
          Views,       \* concurrent requests for the view of today
          Requests,    \* concurrent requests of members and owners
          Texts, Keys, \* what can be answered, and what NormalizeCandidateText leaves of it
          Key,         \* [Texts -> Keys \cup {Nothing}]
          Nothing,     \* no answer, no vote, no letters in a text
          Zones, Offset, \* time zones and the hours each is ahead of UTC
          Hours,       \* hours of the day an owner may ask for
          Day, DefaultHour, Window,
          MaxMembers, MinVotes, MaxPromoted,
          MaxTime,     \* bound: when the clock stops
          MaxLag,      \* bound: hours by which the now of a worker is late
          Bound        \* bound: how often each kind of event happens

\* "any" counts all.
Events == {"any", "create", "delete", "join", "edit", "submit", "vote", "view",
           "fault", "remove", "review"}

ASSUME ClockAssumption ==
  /\ Day \in Nat \ {0} /\ Window \in Nat \ {0} /\ MaxLag \in Nat
  /\ MaxTime \in Nat /\ Day <= MaxTime
  /\ Hours \subseteq 0..Day - 1 /\ DefaultHour \in Hours
  /\ Offset \in [Zones -> 0..Day - 1]
ASSUME NamesAssumption ==
  /\ IsFiniteSet(Groups) /\ IsFiniteSet(People)
  /\ Nothing \notin Texts \cup Keys \cup People
  /\ Key \in [Texts -> Keys \cup {Nothing}]
ASSUME LimitAssumption ==
  /\ MaxMembers \in Nat \ {0} /\ MinVotes \in Nat \ {0} /\ MaxPromoted \in Nat
  /\ Bound \in [Events -> Nat]
ASSUME ProcessAssumption ==
  IsFiniteSet(Requests) /\ Requests # {} /\ Workers \cap Views = {}

VARIABLES
  clock,
  \* The tables.
  group,      \* daily_groups: zone and hour
  members,    \* daily_memberships
  round,      \* daily_rounds: at most one for each date
  answer,     \* daily_submissions: at most one for each round and member
  vote,       \* daily_votes: whose answer each member votes for
  candidate,  \* card_candidates
  \* The processes.
  job,        \* background workers and views of today
  req,        \* requests
  used        \* events so far

settings == <<group, members>>
play == <<round, answer, vote>>
tables == <<settings, play, candidate>>
vars == <<clock, tables, job, req, used>>

Jobs == Workers \cup Views
Happens(k) ==
  /\ used[k] < Bound[k] /\ used["any"] < Bound["any"]
  /\ used' = [used EXCEPT ![k] = @ + 1, !["any"] = @ + 1]

-----------------------------------------------------------------------------
(* Time.                                                                   *)

DateAt(t, zone) == (t + Offset[zone]) \div Day
OpensAt(d, zone) == d * Day - Offset[zone]
\* A reveal at midnight would not come after the opening.
RevealAt(d, zone, hour) == OpensAt(d, zone) + IF hour = 0 THEN 1 ELSE hour
ClosesAt(r) == r.reveal + Window

Dates == 0..(MaxTime + Day) \div Day

-----------------------------------------------------------------------------
(* Rows.                                                                   *)

Unborn == [state |-> "unborn"]
Gone == [state |-> "gone"]
NoRound == [state |-> "none"]
NoCandidate == [status |-> "none"]

Exists(g) == group[g].state = "live"
Rounds == Groups \X Dates
At(f, r) == f[r[1]][r[2]]
Numbers(g) == {round[g][d].number : d \in {e \in Dates : round[g][e] # NoRound}}
Answers(r) == {p \in People : At(answer, r)[p] # Nothing}
Votes(r, p) == Cardinality({v \in People : At(vote, r)[v] = p})

\* A process of workers and views; a request.  pc is the next statement.
IdleJob == [pc |-> "idle", now |-> 0, scope |-> {}, todo |-> <<>>, number |-> 0,
            won |-> {}, from |-> <<>>, found |-> {}]
IdleReq == [pc |-> "idle"]

\* A worker between its two statements holds the lock of the group (FOR UPDATE),
\* and a request between its two that of the round (FOR UPDATE OF r).
Current(w) == Head(job[w].todo)
LockedAnyway(g) == FALSE
Locked(g) == \E w \in Jobs : job[w].pc = "insert" /\ Current(w).group = g
RoundLocked(r) == \E q \in Requests : req[q].pc \in {"submit", "vote"} /\ req[q].round = r

NewRound(number, d, zone, hour) ==
  [state |-> "open", number |-> number, reveal |-> RevealAt(d, zone, hour)]

Nobodys == [p \in People |-> Nothing]
NoRows == [d \in Dates |-> Nobodys]

-----------------------------------------------------------------------------
(* Groups.                                                                 *)

\* The owner is the first member.  The first round is made in the transaction.
CreateGroup(g, p, zone) ==
  /\ group[g] = Unborn /\ Happens("create")
  /\ group' = [group EXCEPT ![g] = [state |-> "live", zone |-> zone, hour |-> DefaultHour]]
  /\ members' = [members EXCEPT ![g] = {p}]
  /\ LET d == DateAt(clock, zone)
     IN round' = [round EXCEPT ![g][d] = NewRound(1, d, zone, DefaultHour)]
  /\ UNCHANGED <<clock, answer, vote, candidate, job, req>>

\* The count is a subquery of the statement that takes the lock: it is made on
\* the snapshot of that statement, from before it waits for the lock.
HasRoomForOneMore(g) == Cardinality(members[g]) <= MaxMembers
HasRoom(g) == Cardinality(members[g]) < MaxMembers
CountMembers(q, g, p) ==
  /\ req[q] = IdleReq /\ Exists(g) /\ p \notin members[g]
  /\ HasRoom(g)
  /\ Happens("join")
  /\ req' = [req EXCEPT ![q] = [pc |-> "join", group |-> g, who |-> p]]
  /\ UNCHANGED <<clock, tables, job>>

\* A group that has gone meanwhile is not found, and a name that was taken
\* meanwhile is refused.
JoinGroup(q) ==
  /\ req[q].pc = "join" /\ ~Locked(req[q].group)
  /\ LET g == req[q].group
         p == req[q].who
     IN members' = IF Exists(g) THEN [members EXCEPT ![g] = @ \cup {p}] ELSE members
  /\ req' = [req EXCEPT ![q] = IdleReq]
  /\ UNCHANGED <<clock, group, play, candidate, job, used>>

\* UpdateGroup reads the group (authorizeGroup) and merges what the owner asked
\* for into what it read, before its transaction.
ReadSettings(q, g, zones, hours) ==
  /\ req[q] = IdleReq /\ Exists(g) /\ Happens("edit")
  /\ \E zone \in zones \cup {group[g].zone}, hour \in hours \cup {group[g].hour} :
       req' = [req EXCEPT ![q] = [pc |-> "edit", group |-> g, zone |-> zone, hour |-> hour]]
  /\ UNCHANGED <<clock, tables, job>>

RetimedAlways(r) == At(round, r) # NoRound
Retimed(r) == At(round, r).state = "open"
\* A group that is gone has no rows to update.
UpdateGroup(q) ==
  LET g == req[q].group
      zone == req[q].zone
      hour == req[q].hour
      today == DateAt(clock, zone)
  IN /\ req[q].pc = "edit" /\ ~Locked(g) /\ ~RoundLocked(<<g, today>>)
     /\ group' = IF Exists(g)
                 THEN [group EXCEPT ![g].zone = zone, ![g].hour = hour] ELSE group
     /\ round' = IF Retimed(<<g, today>>)
                 THEN [round EXCEPT ![g][today].reveal = RevealAt(today, zone, hour)] ELSE round
     /\ req' = [req EXCEPT ![q] = IdleReq]
     /\ UNCHANGED <<clock, members, answer, vote, candidate, job, used>>

\* Mutated form: candidates whose source_round_id does not cascade.
Kept(g) == candidate
\* What is left of the candidates when the rounds of g are deleted.
Withdrawn(g) ==
  [k \in Keys |-> IF candidate[k] # NoCandidate /\ candidate[k].source[1] = g
                  THEN NoCandidate ELSE candidate[k]]
DeleteGroup(g) ==
  /\ Exists(g) /\ ~Locked(g) /\ \A d \in Dates : ~RoundLocked(<<g, d>>)
  /\ Happens("delete")
  /\ group' = [group EXCEPT ![g] = Gone]
  /\ members' = [members EXCEPT ![g] = {}]
  /\ round' = [round EXCEPT ![g] = [d \in Dates |-> NoRound]]
  /\ answer' = [answer EXCEPT ![g] = NoRows]
  /\ vote' = [vote EXCEPT ![g] = NoRows]
  /\ candidate' = Withdrawn(g)
  /\ UNCHANGED <<clock, job, req>>

-----------------------------------------------------------------------------
(* Answers and votes.  authorizeRoundTx reads the round and locks it.      *)

Begin(q, pc, r, p, what) ==
  /\ req[q] = IdleReq /\ p \in members[r[1]] /\ ~RoundLocked(r)
  /\ req' = [req EXCEPT ![q] = [pc |-> pc, round |-> r, who |-> p, what |-> what]]
  /\ UNCHANGED <<clock, tables, job>>

Submit(q, r, p, text) ==
  /\ At(round, r).state = "open" /\ clock < At(round, r).reveal
  /\ Happens("submit")
  /\ Begin(q, "submit", r, p, text)

\* The foreign key needs the row of the group, which a worker may have locked.
SaveAnswer(q) ==
  LET r == req[q].round
  IN /\ req[q].pc = "submit" /\ ~Locked(r[1])
     /\ answer' = [answer EXCEPT ![r[1]][r[2]][req[q].who] = req[q].what]
     /\ req' = [req EXCEPT ![q] = IdleReq]
     /\ UNCHANGED <<clock, settings, round, vote, candidate, job, used>>

Vote(q, r, p, author) ==
  /\ At(round, r).state = "voting" /\ clock < ClosesAt(At(round, r))
  /\ At(answer, r)[author] # Nothing /\ author # p
  /\ Happens("vote")
  /\ Begin(q, "vote", r, p, author)

\* The answer may have been removed since it was read: the foreign key fails.
SaveVote(q) ==
  LET r == req[q].round
  IN /\ req[q].pc = "vote" /\ ~Locked(r[1])
     /\ vote' = IF At(answer, r)[req[q].what] # Nothing
                THEN [vote EXCEPT ![r[1]][r[2]][req[q].who] = req[q].what] ELSE vote
     /\ req' = [req EXCEPT ![q] = IdleReq]
     /\ UNCHANGED <<clock, settings, round, answer, candidate, job, used>>

\* A statement of the request fails (a fault, a deadlock, a client that left):
\* the transaction is rolled back.
Abort(q) ==
  /\ req[q] # IdleReq /\ Happens("fault")
  /\ req' = [req EXCEPT ![q] = IdleReq]
  /\ UNCHANGED <<clock, tables, job>>

\* Mutated form: votes that do not go with the answer.
Votes0(r, p) == vote
\* The votes that are left when the answer of p goes.
VotesWithout(r, p) ==
  [vote EXCEPT ![r[1]][r[2]] = [v \in People |-> IF @[v] = p THEN Nothing ELSE @[v]]]
\* content/service.go: an administrator may do this at any time.
DeleteDailySubmission(r, p) ==
  /\ p \in Answers(r) /\ Happens("remove")
  /\ answer' = [answer EXCEPT ![r[1]][r[2]][p] = Nothing]
  /\ vote' = VotesWithout(r, p)
  /\ UNCHANGED <<clock, settings, round, candidate, job, req>>

-----------------------------------------------------------------------------
(* The workers (Tick) and the view of today (Today).                       *)

Listed(g) == [group |-> g, zone |-> group[g].zone, hour |-> group[g].hour]
Becomes(w, state) == job' = [job EXCEPT ![w] = state]
Stop(w) == Becomes(w, IdleJob)

\* The advisory lock lets one worker at a time in, and now is read once.
Ticking == \E w \in Workers : job[w].pc # "idle"
Tick(w) ==
  /\ w \in Workers /\ ~Ticking
  /\ Becomes(w, [IdleJob EXCEPT !.pc = "list", !.now = clock, !.scope = Groups])
  /\ UNCHANGED <<clock, tables, req, used>>

ListGroups(w) ==
  /\ job[w].pc = "list"
  /\ Becomes(w, [job[w] EXCEPT !.pc = "ensure",
       !.todo = SetToSeq({Listed(g) : g \in {h \in Groups : Exists(h)}})])
  /\ UNCHANGED <<clock, tables, req, used>>

\* A member's view does the same for one group; it reads the group before now.
Today(w, g) ==
  /\ w \in Views /\ job[w].pc = "idle" /\ Exists(g) /\ Happens("view")
  /\ Becomes(w, [IdleJob EXCEPT !.pc = "now", !.scope = {g}, !.todo = <<Listed(g)>>])
  /\ UNCHANGED <<clock, tables, req>>

ReadNow(w) ==
  /\ job[w].pc = "now"
  /\ Becomes(w, [job[w] EXCEPT !.pc = "ensure", !.now = clock])
  /\ UNCHANGED <<clock, tables, req, used>>

\* ensureRoundTx, up to the number: the lock of the group (none if it is gone),
\* what there is for the date, the next number.
DateOf(w) == DateAt(job[w].now, Current(w).zone)
\* Mutated form: a round that is there already is an error too.
FindsNoRound(w) ==
  /\ job[w].pc = "ensure" /\ job[w].todo # <<>> /\ ~Locked(Current(w).group)
  /\ Becomes(w, [job[w] EXCEPT !.pc = "insert",
                   !.number = Max(Numbers(Current(w).group) \cup {0}) + 1])
  /\ UNCHANGED <<clock, tables, req, used>>
FindRound(w) ==
  LET g == Current(w).group
  IN /\ job[w].pc = "ensure" /\ job[w].todo # <<>> /\ ~Locked(g)
     /\ IF round[g][DateOf(w)] # NoRound
        THEN Becomes(w, [job[w] EXCEPT !.todo = Tail(@)])
        ELSE Becomes(w, [job[w] EXCEPT !.pc = "insert",
                           !.number = Max(Numbers(g) \cup {0}) + 1])
     /\ UNCHANGED <<clock, tables, req, used>>

\* A missing group or a date or number that is taken is an error, and an error
\* ends the tick.
CanInsert(w) ==
  LET g == Current(w).group
  IN Exists(g) /\ round[g][DateOf(w)] = NoRound /\ job[w].number \notin Numbers(g)
InsertRound(w) ==
  /\ job[w].pc = "insert"
  /\ IF CanInsert(w)
     THEN /\ round' = [round EXCEPT ![Current(w).group][DateOf(w)] =
                         NewRound(job[w].number, DateOf(w), Current(w).zone, Current(w).hour)]
          /\ Becomes(w, [job[w] EXCEPT !.pc = "ensure", !.todo = Tail(@)])
     ELSE round' = round /\ Stop(w)
  /\ UNCHANGED <<clock, settings, answer, vote, candidate, req, used>>

\* One UPDATE for all rounds that are due; it waits for those that are locked.
Moved(due, state) ==
  round' = [g \in Groups |-> [d \in Dates |->
             IF <<g, d>> \in due THEN [round[g][d] EXCEPT !.state = state] ELSE round[g][d]]]
InScope(w) == {r \in Rounds : r[1] \in job[w].scope}

ToReveal(w) ==
  {r \in InScope(w) : At(round, r).state = "open" /\ At(round, r).reveal <= job[w].now}
Reveal(w) ==
  /\ job[w].pc = "ensure" /\ job[w].todo = <<>>
  /\ \A r \in ToReveal(w) : ~RoundLocked(r)
  /\ Moved(ToReveal(w), "voting")
  /\ Becomes(w, [job[w] EXCEPT !.pc = "finalize"])
  /\ UNCHANGED <<clock, settings, answer, vote, candidate, req, used>>

\* Mutated form: a worker that waits for more.
Unsettled(j) == j
\* A job with nothing left to harvest is over.
Settled(j) == IF j.won = {} /\ j.found = {} THEN IdleJob ELSE j
ToFinish(w) ==
  {r \in InScope(w) : At(round, r).state = "voting" /\ ClosesAt(At(round, r)) <= job[w].now}
\* Mutated form: a member's view finishes rounds, but leaves their harvest.
HarvestedByWorkers(w) == IF w \in Workers THEN ToFinish(w) ELSE {}
\* Whoever finishes a round harvests it, and nobody else will.
Harvested(w) == ToFinish(w)
FinalizeRounds(w) ==
  /\ job[w].pc = "finalize"
  /\ \A r \in ToFinish(w) : ~RoundLocked(r)
  /\ Moved(ToFinish(w), "final")
  /\ Becomes(w, Settled([job[w] EXCEPT !.pc = "promote", !.won = Harvested(w)]))
  /\ UNCHANGED <<clock, settings, answer, vote, candidate, req, used>>

\* promoteRoundCandidates: the answers are selected in one statement, and each
\* is saved in one of its own.
Popular(r) == {p \in Answers(r) : Votes(r, p) >= MinVotes}
Winning(r, S) ==
  /\ S \subseteq Popular(r) /\ Cardinality(S) <= MaxPromoted
  /\ Cardinality(S) = MaxPromoted \/ S = Popular(r)
  /\ \A p \in S, o \in Popular(r) \ S : Votes(r, o) <= Votes(r, p)
SelectCandidates(w, r) ==
  /\ job[w].pc = "promote" /\ job[w].found = {} /\ r \in job[w].won
  /\ \E S \in SUBSET Popular(r) :
       /\ Winning(r, S)
       /\ LET found == {[key |-> Key[At(answer, r)[p]], votes |-> Votes(r, p)] : p \in S}
          IN Becomes(w, Settled([job[w] EXCEPT !.won = @ \ {r}, !.from = r,
                                  !.found = {c \in found : c.key # Nothing}]))
  /\ UNCHANGED <<clock, tables, req, used>>

\* Mutated form: every new win is up for review again.
MergedAlways(old, new) == [old EXCEPT !.status = "pending"]
\* ON CONFLICT: a pending candidate keeps the larger count.
Merged(old, new) ==
  IF old.status = "pending" /\ new.votes > old.votes
  THEN [old EXCEPT !.votes = new.votes] ELSE old
SaveCandidate(w, c) ==
  LET r == job[w].from
      fresh == [status |-> "pending", votes |-> c.votes, source |-> r]
  IN /\ job[w].pc = "promote" /\ c \in job[w].found
     /\ \A o \in job[w].found : o.votes <= c.votes
     /\ IF candidate[c.key] # NoCandidate
        THEN /\ candidate' = [candidate EXCEPT ![c.key] = Merged(@, c)]
             /\ Becomes(w, Settled([job[w] EXCEPT !.found = @ \ {c}]))
        ELSE IF At(round, r) # NoRound
        THEN /\ candidate' = [candidate EXCEPT ![c.key] = fresh]
             /\ Becomes(w, Settled([job[w] EXCEPT !.found = @ \ {c}]))
        ELSE /\ candidate' = candidate
             /\ Becomes(w, Settled([job[w] EXCEPT !.found = {}]))
     /\ UNCHANGED <<clock, settings, play, req, used>>

\* A statement fails: a tick or a view ends, but a promotion only skips the
\* rest of its round.
Fault(w) ==
  /\ job[w].pc # "idle" /\ Happens("fault")
  /\ IF job[w].found # {} THEN Becomes(w, Settled([job[w] EXCEPT !.found = {}]))
     ELSE IF job[w].won # {}
     THEN \E r \in job[w].won : Becomes(w, Settled([job[w] EXCEPT !.won = @ \ {r}]))
     ELSE Stop(w)
  /\ UNCHANGED <<clock, tables, req>>

\* The process ends: its transactions are rolled back and its locks are free.
Crash(w) ==
  /\ job[w].pc # "idle" /\ Happens("fault")
  /\ Stop(w)
  /\ UNCHANGED <<clock, tables, req>>

\* content/service.go, ReviewCandidate.
ReviewCandidate(k, decision) ==
  /\ candidate[k] # NoCandidate /\ candidate[k].status = "pending"
  /\ Happens("review")
  /\ candidate' = [candidate EXCEPT ![k].status = decision]
  /\ UNCHANGED <<clock, settings, play, job, req>>

-----------------------------------------------------------------------------

PassTime ==
  /\ clock < MaxTime
  /\ \A w \in Jobs : job[w].pc \in {"idle", "now"} \/ clock < job[w].now + MaxLag
  /\ clock' = clock + 1
  /\ UNCHANGED <<tables, job, req, used>>

\* No tables yet, and nobody at work.
Empty ==
  /\ clock = Day
  /\ group = [g \in Groups |-> Unborn]
  /\ members = [g \in Groups |-> {}]
  /\ round = [g \in Groups |-> [d \in Dates |-> NoRound]]
  /\ answer = [g \in Groups |-> NoRows] /\ vote = [g \in Groups |-> NoRows]
  /\ candidate = [k \in Keys |-> NoCandidate]
  /\ job = [w \in Jobs |-> IdleJob] /\ req = [q \in Requests |-> IdleReq]
Init == Empty /\ used = [k \in Events |-> 0]

Works(w) ==
  \/ Tick(w) \/ ListGroups(w) \/ ReadNow(w) \/ FindRound(w) \/ InsertRound(w)
  \/ Reveal(w) \/ FinalizeRounds(w)
  \/ \E r \in job[w].won : SelectCandidates(w, r)
  \/ \E c \in job[w].found : SaveCandidate(w, c)

Finishes(q) == JoinGroup(q) \/ UpdateGroup(q) \/ SaveAnswer(q) \/ SaveVote(q)

Next ==
  \/ PassTime
  \/ \E g \in Groups, p \in People, zone \in Zones : CreateGroup(g, p, zone)
  \/ \E g \in Groups : DeleteGroup(g)
  \/ \E q \in Requests, g \in Groups :
       \/ \E p \in People : CountMembers(q, g, p)
       \/ ReadSettings(q, g, Zones, Hours)
  \/ \E q \in Requests, r \in Rounds, p \in People :
       \/ \E text \in Texts : Submit(q, r, p, text)
       \/ \E author \in People : Vote(q, r, p, author)
  \/ \E q \in Requests : Finishes(q) \/ Abort(q)
  \/ \E r \in Rounds, p \in People : DeleteDailySubmission(r, p)
  \/ \E w \in Views, g \in Groups : Today(w, g)
  \/ \E w \in Jobs : Works(w) \/ Fault(w) \/ Crash(w)
  \/ \E k \in Keys, decision \in {"approved", "rejected"} : ReviewCandidate(k, decision)

Spec == Init /\ [][Next]_vars

-----------------------------------------------------------------------------
(* What the view of today shows beside the round.                          *)

\* groupStreak, at time t.
Played(g) == {d \in Dates : round[g][d].state = "final" /\ Cardinality(Answers(<<g, d>>)) >= 2}
Streak(g, t) ==
  LET last == Max(Played(g))
  IN IF Played(g) = {} \/ last < DateAt(t, group[g].zone) - 1 THEN 0
     ELSE Max({n \in 1..last + 1 : last - n + 1..last \subseteq Played(g)})

-----------------------------------------------------------------------------

JobType ==
  [pc : {"idle", "list", "now", "ensure", "insert", "finalize", "promote"}, now : Nat,
   scope : SUBSET Groups, todo : Seq([group : Groups, zone : Zones, hour : Hours]),
   number : Nat, won : SUBSET Rounds, from : Rounds \cup {<<>>},
   found : SUBSET [key : Keys, votes : Nat]]
AtWork(j) ==
  /\ j.pc = "idle" => j = IdleJob
  /\ j.pc = "insert" => j.todo # <<>>
  /\ j.found # {} => j.from # <<>>
  /\ j.pc = "promote" <=> ~(j.won = {} /\ j.found = {})
ReqType ==
  {IdleReq} \cup [pc : {"join"}, group : Groups, who : People]
  \cup [pc : {"edit"}, group : Groups, zone : Zones, hour : Hours]
  \cup [pc : {"submit"}, round : Rounds, who : People, what : Texts]
  \cup [pc : {"vote"}, round : Rounds, who : People, what : People]

\* Every variable has the type of the column or field it stands for, and whoever
\* is at work has something left to do.
TypeDaily ==
  /\ clock \in 0..MaxTime
  /\ group \in [Groups -> {Unborn, Gone} \cup [state : {"live"}, zone : Zones, hour : Hours]]
  /\ members \in [Groups -> SUBSET People]
  /\ round \in [Groups -> [Dates -> {NoRound} \cup
        [state : {"open", "voting", "final"}, number : Nat, reveal : Int]]]
  /\ answer \in [Groups -> [Dates -> [People -> Texts \cup {Nothing}]]]
  /\ vote \in [Groups -> [Dates -> [People -> People \cup {Nothing}]]]
  /\ candidate \in [Keys -> {NoCandidate} \cup
        [status : {"pending", "approved", "rejected"}, votes : Nat, source : Rounds]]
  /\ job \in [Jobs -> JobType]
  /\ \A w \in Jobs : AtWork(job[w])
  /\ req \in [Requests -> ReqType]
  /\ used \in [Events -> Nat]

\* Each round is open, then in voting, then final, and takes answers and votes
\* only in its time, whatever workers, views, owners and administrators do
\* meanwhile (the row locks of authorizeRoundTx against Tick's UPDATEs).
Life == INSTANCE DailyRounds
  WITH Round <- Rounds, stage <- [r \in Rounds |-> At(round, r).state],
       entry <- [r \in Rounds |-> At(answer, r)], ballot <- [r \in Rounds |-> At(vote, r)]
KeepsRoundLife == Life!RoundsSpec

\* A revealed round keeps its number and deadlines: owners who move the hour
\* leave it alone, because players have seen it (service.go, UpdateGroup).
RevealedIsLeftAlone ==
  [][\A r \in Rounds : At(round, r).state \in {"voting", "final"} /\ At(round, r)' # NoRound =>
       /\ At(round, r)'.reveal = At(round, r).reveal
       /\ At(round, r)'.number = At(round, r).number]_vars

\* The rounds of a group are numbered from 1 without gaps or repetitions, and a
\* worker about to insert one meets no other: the lock of the group is enough.
InsertsNeverConflict ==
  /\ \A g \in Groups :
       Numbers(g) = 1..Cardinality({d \in Dates : round[g][d] # NoRound})
  /\ \A w \in Jobs : job[w].pc = "insert" /\ Exists(Current(w).group) => CanInsert(w)

\* A vote counts for an answer that is there and not the voter's own, in a round
\* that has been revealed; voters and authors are members (cascades and checks).
VotesAreSound ==
  \A r \in Rounds, p \in People :
    LET v == At(vote, r)[p] IN
      /\ v # Nothing => /\ v # p /\ At(answer, r)[v] # Nothing
                        /\ At(round, r).state \in {"voting", "final"}
                        /\ p \in members[r[1]]
      /\ p \in Answers(r) => p \in members[r[1]] /\ At(round, r) # NoRound

\* A candidate comes from a final round that still exists, with the votes it
\* takes, and is withdrawn with its group (docs/CONTENT_PLATFORM.md).
CandidatesAreEarned ==
  \A k \in Keys : candidate[k] # NoCandidate =>
    /\ candidate[k].votes >= MinVotes
    /\ At(round, candidate[k].source).state = "final"

\* Whoever finishes a round puts its best answers in the queue, for nobody harvests
\* it twice (finalizeRounds): as long as nothing fails or is removed, an answer with
\* enough votes is left out only for as many others that have no fewer.
Harvesting(r) ==
  \E w \in Jobs : r \in job[w].won \/ (job[w].from = r /\ job[w].found # {})
NoWorse(r, p) == {o \in Popular(r) \ {p} : Votes(r, o) >= Votes(r, p)}
PopularAnswersAreQueued ==
  used["fault"] = 0 /\ used["delete"] = 0 /\ used["remove"] = 0 =>
    \A r \in Rounds : At(round, r).state = "final" /\ ~Harvesting(r) =>
      \A p \in Popular(r) : LET k == Key[At(answer, r)[p]] IN
        k # Nothing /\ candidate[k] = NoCandidate => Cardinality(NoWorse(r, p)) >= MaxPromoted

\* Joins that overlap each count without the others, so a group can outgrow its
\* limit, but by no more than the requests that ran beside one (JoinGroup).
OverfullOnlyByOverlap ==
  \A g \in Groups : Cardinality(members[g]) < MaxMembers + Cardinality(Requests)

\* What an administrator has decided stays decided, however often the joke comes
\* back, until its group is deleted (promoteRoundCandidates, ON CONFLICT).
ReviewIsFinal ==
  [][\A k \in Keys :
       candidate[k] # NoCandidate /\ candidate[k].status # "pending" =>
         candidate'[k] = candidate[k] \/ group'[candidate[k].source[1]] = Gone]_vars

\* Members are scheduled, workers tick again and again, and what runs gets on.
Fairness ==
  /\ \A w \in Jobs : WF_vars(Works(w))
  /\ \A q \in Requests : WF_vars(Finishes(q))
FairSpec == Spec /\ Fairness

\* The workers catch up again and again, after whatever errors, crashes and
\* deleted groups they meet: no round stays open or in voting beyond its time.
Overdue(r) ==
  At(round, r).state \in {"open", "voting"} /\ ClosesAt(At(round, r)) <= clock
WorkersCatchUp == []<>(\A r \in Rounds : ~Overdue(r))

\* docs/DAILY_ENGINE.md: a streak counts consecutive finalized calendar days with
\* at least two submissions.  It is not broken while the days since the last such
\* one are still played, with two submissions in those that take no more.
InPlay(r) ==
  /\ At(round, r) # NoRound /\ clock < ClosesAt(At(round, r))
  /\ clock < At(round, r).reveal \/ Cardinality(Answers(r)) >= 2
StreakCounts ==
  \A g \in Groups :
    /\ Exists(g) /\ Played(g) # {}
    /\ \A d \in Max(Played(g)) + 1..DateAt(clock, group[g].zone) : InPlay(<<g, d>>)
    => Streak(g, clock) > 0
=============================================================================
