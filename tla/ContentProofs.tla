---------------------------- MODULE ContentProofs ----------------------------
(***************************************************************************)
(* Reports retire a card in time and for cause, for any numbers of cards,  *)
(* reporters and concurrent reports.                                       *)
(***************************************************************************)
EXTENDS Content, FiniteSetTheorems, TLAPS

Status == {"approved", "retired"}
Filed == [pc : {"filed"}, card : Cards, who : Reporters]
CountedFilings ==
  [pc : {"counted"}, card : Cards, who : Reporters, open : Nat, overtaken : BOOLEAN]
RulingType == [pc : {"marked"}, card : Cards, rows : SUBSET Reporters, to : Status]

ContentTypes ==
  /\ status \in [Cards -> Status]
  /\ report \in [Cards -> [Reporters -> {"none", "open", "resolved"}]]
  /\ filing \in [Filings -> {NoFiling} \cup Filed \cup CountedFilings]
  /\ ruling \in {NoRuling} \cup RulingType

\* Reports that have been counted, will add to the open ones and not retire the card.
Adders(c) ==
  {q \in Filings : /\ filing[q].pc = "counted" /\ filing[q].card = c
                   /\ report[c][filing[q].who] = "none" /\ ~Enough(filing[q].open)}

\* The newest of the reports on c was counted when no more than threshold - 2 were
\* open; all that it did not see were under way beside it.
OverlapInv ==
  \A c \in Cards \ restored : status[c] = "approved" =>
    Cardinality(Open(c)) + Cardinality(Adders(c)) <= autoRetireThreshold + Cardinality(Filings) - 2

\* What a report has counted is still open when nobody has resolved it.
CountInv ==
  \A q \in Filings : filing[q].pc = "counted" /\ ~filing[q].overtaken => filing[q].open <= Seen(q)

LEMMA FinitePeople ==
  /\ IsFiniteSet(Filings) /\ Cardinality(Filings) \in Nat \ {0}
  /\ autoRetireThreshold \in Nat \ {0}
  /\ \A S \in SUBSET Reporters : IsFiniteSet(S) /\ Cardinality(S) \in Nat
  /\ \A S \in SUBSET Filings : /\ IsFiniteSet(S) /\ Cardinality(S) \in Nat
                               /\ Cardinality(S) <= Cardinality(Filings)
<1>1. Cardinality(Filings) # 0
  BY ContentAssumption, FS_EmptySet
<1> QED
  BY <1>1, ContentAssumption, FS_Subset, FS_CardinalityType

LEMMA OpenFinite == ASSUME NEW c PROVE IsFiniteSet(Open(c)) /\ Cardinality(Open(c)) \in Nat
BY FinitePeople DEF Open

LEMMA AddersFinite ==
  ASSUME NEW c
  PROVE  /\ IsFiniteSet(Adders(c)) /\ Cardinality(Adders(c)) \in Nat
         /\ Cardinality(Adders(c)) <= Cardinality(Filings)
BY FinitePeople DEF Adders

\* A smaller set of reports and adders.
LEMMA Fewer ==
  ASSUME NEW c, Open(c)' \subseteq Open(c), Adders(c)' \subseteq Adders(c)
  PROVE  Cardinality(Open(c)') + Cardinality(Adders(c)') <= Cardinality(Open(c)) + Cardinality(Adders(c))
<1>1. Cardinality(Open(c)') \in Nat /\ Cardinality(Open(c)') <= Cardinality(Open(c))
  BY OpenFinite, FS_Subset, FS_CardinalityType
<1>2. Cardinality(Adders(c)') \in Nat /\ Cardinality(Adders(c)') <= Cardinality(Adders(c))
  BY AddersFinite, FS_Subset, FS_CardinalityType
<1> QED BY <1>1, <1>2, OpenFinite, AddersFinite

CInv == ContentTypes /\ OverlapInv /\ CountInv

LEMMA TypesStep ==
  ASSUME ContentTypes, [ContentNext]_contentVars
  PROVE  ContentTypes'
<1>1. CASE UNCHANGED contentVars
  BY <1>1 DEF contentVars, ContentTypes
<1>2. ASSUME NEW q \in Filings, NEW c \in Cards, NEW r \in Reporters, FileReport(q, c, r)
      PROVE  ContentTypes'
  BY <1>2 DEF FileReport, ContentTypes, Filed
<1>3. ASSUME NEW q \in Filings, CountReports(q)
      PROVE  ContentTypes'
  <2>1. filing[q] \in Filed
    BY <1>3 DEF CountReports, ContentTypes, NoFiling, CountedFilings, Filed
  <2>2. Seen(q) \in Nat
    <3>1. Open(filing[q].card) \cup (IF report[filing[q].card][filing[q].who] = "none" THEN {filing[q].who} ELSE {})
            \subseteq Reporters
      BY <2>1 DEF Open, Filed
    <3> QED BY <3>1, FinitePeople DEF Seen
  <2> QED BY <1>3, <2>1, <2>2 DEF CountReports, ContentTypes, Filed, CountedFilings
<1>4. ASSUME NEW q \in Filings, CommitReport(q)
      PROVE  ContentTypes'
  <2>1. filing[q] \in CountedFilings
    BY <1>4 DEF CommitReport, ContentTypes, NoFiling, CountedFilings, Filed
  <2> QED BY <1>4, <2>1 DEF CommitReport, ContentTypes, CountedFilings, Status
<1>5. ASSUME NEW q \in Filings, AbortReport(q)
      PROVE  ContentTypes'
  BY <1>5 DEF AbortReport, ContentTypes
<1>6. ASSUME NEW c \in Cards, NEW s \in Status, ResolveReports(c, s)
      PROVE  ContentTypes'
  BY <1>6 DEF ResolveReports, ContentTypes, RulingType, Open
<1>7. ASSUME NEW c \in Cards, NEW s \in Status, SetCardStatus(c, s)
      PROVE  ContentTypes'
  BY <1>7 DEF SetCardStatus, ContentTypes
<1>8. CASE CommitRuling
  <2>1. ruling \in RulingType
    BY <1>8 DEF CommitRuling, ContentTypes
  <2>2. filing' \in [Filings -> {NoFiling} \cup Filed \cup CountedFilings]
    <3> SUFFICES ASSUME NEW q \in Filings
                 PROVE  filing'[q] \in {NoFiling} \cup Filed \cup CountedFilings
      BY <1>8 DEF CommitRuling
    <3>1. CASE filing[q].pc = "counted" /\ filing[q].card = ruling.card
      <4>1. filing[q] \in CountedFilings
        BY <3>1 DEF ContentTypes, NoFiling, Filed
      <4>2. filing'[q] = [filing[q] EXCEPT !.overtaken = TRUE]
        BY <1>8, <3>1 DEF CommitRuling
      <4> QED BY <4>1, <4>2 DEF CountedFilings
    <3>2. CASE ~(filing[q].pc = "counted" /\ filing[q].card = ruling.card)
      BY <1>8, <3>2 DEF CommitRuling, ContentTypes
    <3> QED BY <3>1, <3>2
  <2> QED BY <1>8, <2>1, <2>2 DEF CommitRuling, ContentTypes, RulingType
<1>9. CASE AbortRuling
  BY <1>9 DEF AbortRuling, ContentTypes
<1>10. CASE RefreshDeck
  BY <1>10 DEF RefreshDeck, ContentTypes
<1> QED BY <1>1, <1>2, <1>3, <1>4, <1>5, <1>6, <1>7, <1>8, <1>9, <1>10 DEF ContentNext, Status

\* What OverlapInv says of a card about which nothing is added.
LEMMA OverlapKept ==
  ASSUME OverlapInv, NEW c \in Cards \ restored, status[c] = "approved",
         Open(c)' \subseteq Open(c), Adders(c)' \subseteq Adders(c)
  PROVE  Cardinality(Open(c)') + Cardinality(Adders(c)') <= autoRetireThreshold + Cardinality(Filings) - 2
<1>1. Cardinality(Open(c)) + Cardinality(Adders(c)) <= autoRetireThreshold + Cardinality(Filings) - 2
  BY DEF OverlapInv
<1>2. /\ IsFiniteSet(Open(c)') /\ Cardinality(Open(c)') \in Nat
      /\ IsFiniteSet(Adders(c)') /\ Cardinality(Adders(c)') \in Nat
  BY OpenFinite, AddersFinite, FS_Subset, FS_CardinalityType
<1>3. autoRetireThreshold + Cardinality(Filings) - 2 \in Int
  BY FinitePeople
<1> QED BY <1>1, <1>2, <1>3, Fewer, OpenFinite, AddersFinite

LEMMA OverlapStep ==
  ASSUME ContentTypes, OverlapInv, [ContentNext]_contentVars
  PROVE  OverlapInv'
<1> SUFFICES ASSUME NEW c \in Cards \ restored', status'[c] = "approved"
             PROVE  Cardinality(Open(c)') + Cardinality(Adders(c)')
                      <= autoRetireThreshold + Cardinality(Filings) - 2
  BY DEF OverlapInv
<1> DEFINE Kept == /\ c \in Cards \ restored /\ status[c] = "approved"
                   /\ Open(c)' \subseteq Open(c) /\ Adders(c)' \subseteq Adders(c)
<1>k. SUFFICES ASSUME ~Kept
               PROVE  Cardinality(Open(c)') + Cardinality(Adders(c)')
                        <= autoRetireThreshold + Cardinality(Filings) - 2
  BY OverlapKept
<1>1. CASE UNCHANGED contentVars
  BY <1>1, <1>k DEF contentVars, Open, Adders
<1>2. ASSUME NEW q \in Filings, NEW k \in Cards, NEW r \in Reporters, FileReport(q, k, r)
      PROVE  FALSE
  <2>1. Adders(c)' \subseteq Adders(c)
    BY <1>2 DEF FileReport, Adders, ContentTypes
  <2> QED BY <1>2, <2>1, <1>k DEF FileReport, Open
<1>3. ASSUME NEW q \in Filings, CountReports(q)
      PROVE  Cardinality(Open(c)') + Cardinality(Adders(c)')
               <= autoRetireThreshold + Cardinality(Filings) - 2
  <2> DEFINE r == filing[q].who
  <2>1. filing[q] \in Filed
    BY <1>3 DEF CountReports, ContentTypes, NoFiling, CountedFilings
  <2>2. Open(c)' = Open(c) /\ c \in Cards \ restored /\ status[c] = "approved"
    BY <1>3 DEF CountReports, Open
  <2>3. Adders(c)' \subseteq Adders(c) \cup {q}
    BY <1>3 DEF CountReports, Adders, ContentTypes
  <2>4. q \in Adders(c)'
    BY <2>2, <2>3, <1>k
  <2>5. /\ filing'[q].card = c /\ filing'[q].who = r /\ filing[q].card = c
        /\ filing'[q].open = Seen(q) /\ report[c][r] = "none" /\ ~Enough(Seen(q))
    BY <1>3, <2>4 DEF CountReports, Adders, ContentTypes
  <2>6. Seen(q) = Cardinality(Open(c) \cup {r}) /\ r \notin Open(c)
    BY <2>5 DEF Seen, Open
  <2>7. Seen(q) = Cardinality(Open(c)) + 1
    BY <2>6, OpenFinite, FS_AddElement
  <2>8. Cardinality(Open(c)) <= autoRetireThreshold - 2
    BY <2>5, <2>7, OpenFinite, FinitePeople DEF Enough
  <2>9. Cardinality(Adders(c)') <= Cardinality(Filings) /\ Cardinality(Adders(c)') \in Nat
    <3>1. Adders(c)' \subseteq Filings
      BY DEF Adders
    <3> QED BY <3>1, FinitePeople
  <2> QED BY <2>2, <2>8, <2>9, OpenFinite, FinitePeople
<1>4. ASSUME NEW q \in Filings, CommitReport(q)
      PROVE  Cardinality(Open(c)') + Cardinality(Adders(c)')
               <= autoRetireThreshold + Cardinality(Filings) - 2
  <2> DEFINE r == filing[q].who
  <2>1. filing[q] \in CountedFilings /\ filing[q].pc = "counted"
    BY <1>4 DEF CommitReport, ContentTypes, NoFiling, Filed
  <2>2. c \in Cards \ restored /\ status[c] = "approved"
    BY <1>4 DEF CommitReport, ContentTypes, Status
  <2>3. \A o \in Filings : o # q => filing'[o] = filing[o]
    BY <1>4 DEF CommitReport, ContentTypes
  <2>4. filing'[q].pc = "idle"
    BY <1>4 DEF CommitReport, ContentTypes, NoFiling
  <2>5. \A k \in Cards, o \in Reporters :
          report'[k][o] = IF k = filing[q].card /\ o = r /\ report[k][o] = "none" THEN "open" ELSE report[k][o]
    BY <1>4, <2>1 DEF CommitReport, ContentTypes, CountedFilings
  <2>6. Adders(c)' \subseteq Adders(c) \ {q}
    <3> SUFFICES ASSUME NEW o \in Adders(c)' PROVE o \in Adders(c) \ {q}
      OBVIOUS
    <3>1. o \in Filings /\ o # q /\ filing'[o].pc = "counted"
      BY <2>4 DEF Adders
    <3>2. filing[o] \in CountedFilings /\ filing'[o] = filing[o]
      BY <2>3, <3>1 DEF ContentTypes, NoFiling, Filed
    <3>3. report[c][filing[o].who] = "none"
      BY <2>5, <3>2 DEF Adders, CountedFilings
    <3> QED BY <3>1, <3>2, <3>3 DEF Adders
  <2>7. CASE filing[q].card = c /\ report[c][r] = "none"
    <3>1. ~Enough(filing[q].open)
      BY <1>4, <2>7 DEF CommitReport, ContentTypes
    <3>2. q \in Adders(c)
      BY <2>1, <2>7, <3>1 DEF Adders
    <3>3. Open(c)' = Open(c) \cup {r} /\ r \notin Open(c)
      BY <2>1, <2>5, <2>7 DEF Open, CountedFilings
    <3>4. Cardinality(Open(c)') = Cardinality(Open(c)) + 1
      BY <3>3, OpenFinite, FS_AddElement
    <3>5. /\ IsFiniteSet(Adders(c) \ {q}) /\ Cardinality(Adders(c) \ {q}) = Cardinality(Adders(c)) - 1
      BY <3>2, AddersFinite, FS_RemoveElement
    <3>6. Cardinality(Adders(c)') <= Cardinality(Adders(c)) - 1 /\ Cardinality(Adders(c)') \in Nat
      BY <2>6, <3>5, FS_Subset, FS_CardinalityType
    <3>7. Cardinality(Open(c)) + Cardinality(Adders(c)) <= autoRetireThreshold + Cardinality(Filings) - 2
      BY <2>2 DEF OverlapInv
    <3> QED BY <3>4, <3>6, <3>7, OpenFinite, AddersFinite, FinitePeople
  <2>8. CASE ~(filing[q].card = c /\ report[c][r] = "none")
    <3>1. Open(c)' = Open(c)
      BY <2>5, <2>8 DEF Open
    <3> QED BY <3>1, <2>2, <2>6, <1>k
  <2> QED BY <2>7, <2>8
<1>5. ASSUME NEW q \in Filings, AbortReport(q)
      PROVE  FALSE
  <2>1. Adders(c)' \subseteq Adders(c)
    BY <1>5 DEF AbortReport, Adders, ContentTypes, NoFiling
  <2> QED BY <1>5, <2>1, <1>k DEF AbortReport, Open
<1>6. ASSUME NEW k \in Cards, NEW s \in Status, ResolveReports(k, s)
      PROVE  FALSE
  BY <1>6, <1>k DEF ResolveReports, Open, Adders
<1>7. ASSUME NEW k \in Cards, NEW s \in Status, SetCardStatus(k, s)
      PROVE  FALSE
  <2>1. c \in Cards \ restored /\ status[c] = "approved"
    BY <1>7 DEF SetCardStatus, Restores, ContentTypes, Status
  <2> QED BY <1>7, <2>1, <1>k DEF SetCardStatus, Open, Adders
<1>8. CASE CommitRuling
  <2>1. ruling \in RulingType
    BY <1>8 DEF CommitRuling, ContentTypes
  <2>2. c # ruling.card /\ c \in Cards \ restored
    BY <1>8, <2>1 DEF CommitRuling, Restores, ContentTypes, RulingType, Status
  <2>3. status[c] = "approved" /\ report'[c] = report[c]
    BY <1>8, <2>2 DEF CommitRuling, ContentTypes
  <2>4. Adders(c)' \subseteq Adders(c)
    BY <1>8, <2>2, <2>3 DEF CommitRuling, Adders
  <2> QED BY <2>2, <2>3, <2>4, <1>k DEF Open
<1>9. CASE AbortRuling
  BY <1>9, <1>k DEF AbortRuling, Open, Adders
<1>10. CASE RefreshDeck
  BY <1>10, <1>k DEF RefreshDeck, Open, Adders
<1> QED BY <1>1, <1>2, <1>3, <1>4, <1>5, <1>6, <1>7, <1>8, <1>9, <1>10 DEF ContentNext, Status

\* What a report sees is finite, and what adds to it does not make it less.
LEMMA SeesMore ==
  ASSUME ContentTypes, NEW q \in Filings, filing[q] \in CountedFilings,
         filing'[q].card = filing[q].card, filing'[q].who = filing[q].who,
         Open(filing[q].card) \subseteq Open(filing[q].card)',
         report'[filing[q].card][filing[q].who] \in {report[filing[q].card][filing[q].who], "open"}
  PROVE  Seen(q) <= Seen(q)' /\ Seen(q) \in Nat /\ Seen(q)' \in Nat
<1> DEFINE c == filing[q].card
           r == filing[q].who
           Now == Open(c) \cup (IF report[c][r] = "none" THEN {r} ELSE {})
           Then == Open(c)' \cup (IF report'[c][r] = "none" THEN {r} ELSE {})
<1>1. c \in Cards /\ r \in Reporters
  BY DEF CountedFilings
<1>2. Now \subseteq Reporters /\ Then \subseteq Reporters
  BY <1>1 DEF Open
<1>3. Now \subseteq Then
  BY <1>1 DEF Open
<1>4. IsFiniteSet(Then) /\ Cardinality(Now) \in Nat /\ Cardinality(Then) \in Nat
  BY <1>2, FinitePeople
<1>5. Cardinality(Now) <= Cardinality(Then)
  BY <1>3, <1>4, FS_Subset
<1>6. Seen(q) = Cardinality(Now)
  BY DEF Seen
<1>7. Seen(q)' = Cardinality(Then)
  BY DEF Seen, Open
<1> QED BY <1>4, <1>5, <1>6, <1>7

LEMMA CountKept ==
  ASSUME ContentTypes, CountInv, NEW q \in Filings,
         filing[q] \in CountedFilings, filing'[q] = filing[q], ~filing[q].overtaken,
         Open(filing[q].card) \subseteq Open(filing[q].card)',
         report'[filing[q].card][filing[q].who] \in {report[filing[q].card][filing[q].who], "open"}
  PROVE  filing'[q].open <= Seen(q)'
<1>1. filing[q].open <= Seen(q) /\ filing[q].open \in Nat
  BY DEF CountInv, CountedFilings
<1> QED BY <1>1, SeesMore

LEMMA CountStep ==
  ASSUME ContentTypes, ContentTypes', CountInv, [ContentNext]_contentVars
  PROVE  CountInv'
<1> SUFFICES ASSUME NEW q \in Filings, filing'[q].pc = "counted", ~filing'[q].overtaken
             PROVE  filing'[q].open <= Seen(q)'
  BY DEF CountInv
<1>t. filing'[q] \in CountedFilings
  BY DEF ContentTypes, NoFiling, Filed
<1> DEFINE c == filing[q].card
           r == filing[q].who
<1>k. ASSUME filing'[q] = filing[q], report' = report
      PROVE  filing'[q].open <= Seen(q)'
  BY <1>t, <1>k, CountKept DEF Open
<1>1. CASE UNCHANGED contentVars
  BY <1>1, <1>k DEF contentVars
<1>2. ASSUME NEW o \in Filings, NEW k \in Cards, NEW p \in Reporters, FileReport(o, k, p)
      PROVE  filing'[q].open <= Seen(q)'
  BY <1>2, <1>k DEF FileReport, ContentTypes
<1>3. ASSUME NEW o \in Filings, CountReports(o)
      PROVE  filing'[q].open <= Seen(q)'
  <2>1. CASE o # q
    BY <1>3, <1>k, <2>1 DEF CountReports, ContentTypes
  <2>2. CASE o = q
    <3>1. filing'[q].card = c /\ filing'[q].who = r /\ filing'[q].open = Seen(q)
      BY <1>3, <2>2 DEF CountReports, ContentTypes
    <3>2. Seen(q)' = Seen(q)
      BY <1>3, <3>1 DEF CountReports, Seen, Open
    <3>3. filing'[q].open \in Nat
      BY <1>t DEF CountedFilings
    <3> QED BY <3>1, <3>2, <3>3
  <2> QED BY <2>1, <2>2
<1>4. ASSUME NEW o \in Filings, CommitReport(o)
      PROVE  filing'[q].open <= Seen(q)'
  <2>1. o # q
    BY <1>4 DEF CommitReport, ContentTypes, NoFiling
  <2>2. filing'[q] = filing[q] /\ filing[q] \in CountedFilings
    BY <1>4, <1>t, <2>1 DEF CommitReport, ContentTypes
  <2>3. filing[o] \in CountedFilings
    BY <1>4 DEF CommitReport, ContentTypes, NoFiling, Filed
  <2>4. \A k \in Cards, p \in Reporters :
          /\ report'[k][p] \in {report[k][p], "open"}
          /\ report[k][p] = "open" => report'[k][p] = "open"
    BY <1>4, <2>3 DEF CommitReport, ContentTypes, CountedFilings
  <2>5. c \in Cards /\ r \in Reporters
    BY <2>2 DEF CountedFilings
  <2>6. Open(c) \subseteq Open(c)'
    BY <2>2, <2>4, <2>5 DEF Open
  <2> QED BY <2>2, <2>4, <2>5, <2>6, CountKept
<1>5. ASSUME NEW o \in Filings, AbortReport(o)
      PROVE  filing'[q].open <= Seen(q)'
  BY <1>5, <1>k DEF AbortReport, ContentTypes, NoFiling
<1>6. ASSUME NEW k \in Cards, NEW s \in Status, ResolveReports(k, s)
      PROVE  filing'[q].open <= Seen(q)'
  BY <1>6, <1>k DEF ResolveReports
<1>7. ASSUME NEW k \in Cards, NEW s \in Status, SetCardStatus(k, s)
      PROVE  filing'[q].open <= Seen(q)'
  BY <1>7, <1>k DEF SetCardStatus
<1>8. CASE CommitRuling
  <2>1. ruling \in RulingType
    BY <1>8 DEF CommitRuling, ContentTypes
  <2>2. CASE filing[q].pc = "counted" /\ filing[q].card = ruling.card
    <3>1. filing[q] \in CountedFilings
      BY <2>2 DEF ContentTypes, NoFiling, Filed
    <3>2. filing'[q] = [filing[q] EXCEPT !.overtaken = TRUE]
      BY <1>8, <2>2 DEF CommitRuling
    <3>3. filing'[q].overtaken = TRUE
      BY <3>1, <3>2 DEF CountedFilings
    <3> QED BY <3>3
  <2>3. CASE ~(filing[q].pc = "counted" /\ filing[q].card = ruling.card)
    <3>1. filing'[q] = filing[q]
      BY <1>8, <2>3 DEF CommitRuling
    <3>2. c # ruling.card /\ c \in Cards /\ r \in Reporters /\ filing[q] \in CountedFilings
      BY <1>t, <2>3, <3>1 DEF CountedFilings
    <3>3. report'[c] = report[c]
      BY <1>8, <2>1, <3>2 DEF CommitRuling, ContentTypes
    <3>4. Open(c)' = Open(c)
      BY <3>1, <3>3 DEF Open
    <3> QED BY <3>1, <3>2, <3>3, <3>4, CountKept
  <2> QED BY <2>2, <2>3
<1>9. CASE AbortRuling
  BY <1>9, <1>k DEF AbortRuling
<1>10. CASE RefreshDeck
  BY <1>10, <1>k DEF RefreshDeck
<1> QED BY <1>1, <1>2, <1>3, <1>4, <1>5, <1>6, <1>7, <1>8, <1>9, <1>10 DEF ContentNext, Status

-----------------------------------------------------------------------------

LEMMA CInvInit == ContentInit => CInv
<1> SUFFICES ASSUME ContentInit PROVE CInv
  OBVIOUS
<1>1. ContentTypes /\ CountInv
  BY DEF ContentInit, ContentTypes, CountInv, NoFiling, NoRuling, Status
<1>2. \A c \in Cards : Open(c) = {} /\ Adders(c) = {}
  BY DEF ContentInit, Open, Adders, NoFiling
<1>3. 0 + 0 <= autoRetireThreshold + Cardinality(Filings) - 2
  BY FinitePeople
<1>4. OverlapInv
  BY <1>2, <1>3, FS_EmptySet DEF OverlapInv
<1> QED BY <1>1, <1>4 DEF CInv

LEMMA CInvStep == CInv /\ [ContentNext]_contentVars => CInv'
BY TypesStep, OverlapStep, CountStep DEF CInv

\* A card that was never put back is retired before more reports are open than the
\* threshold and the calls of Report that run beside one.
THEOREM RetiredSoonEnough == ContentSpec => []RetiredInTime
<1>1. CInv => RetiredInTime
  <2> SUFFICES ASSUME CInv, NEW c \in Cards \ restored, status[c] = "approved"
               PROVE  Cardinality(Open(c)) < autoRetireThreshold + Cardinality(Filings) - 1
    BY DEF RetiredInTime
  <2> QED BY OpenFinite, AddersFinite, FinitePeople DEF CInv, OverlapInv
<1> QED BY <1>1, CInvInit, CInvStep, PTL DEF ContentSpec

\* A report that retires a card does so with enough reports open, unless they were
\* resolved after it had counted them.
THEOREM RetiredWithCause == ContentSpec => RetiredForCause
<1> DEFINE ForCause ==
      \A c \in Cards, q \in Filings :
        filing[q].pc = "counted" /\ filing[q].card = c /\ filing'[q] = NoFiling
        /\ status[c] = "approved" /\ status'[c] = "retired" =>
          filing[q].overtaken \/ Cardinality(Open(c)') >= autoRetireThreshold
<1>1. CInv /\ [ContentNext]_contentVars => [ForCause]_contentVars
  <2> SUFFICES ASSUME CInv, [ContentNext]_contentVars, NEW c \in Cards, NEW q \in Filings,
                      filing[q].pc = "counted", filing[q].card = c, filing'[q] = NoFiling,
                      status[c] = "approved", status'[c] = "retired", ~filing[q].overtaken
               PROVE  Cardinality(Open(c)') >= autoRetireThreshold
    OBVIOUS
  <2> USE DEF CInv
  <2>1. filing[q] \in CountedFilings
    BY DEF ContentTypes, NoFiling, Filed
  <2>2. PICK o \in Filings : CommitReport(o)
    <3>1. filing'[q] # filing[q]
      BY DEF NoFiling
    <3>2. ~CommitRuling
      BY <2>1, <3>1 DEF CommitRuling, NoFiling
    <3> QED
      BY <3>1, <3>2 DEF ContentNext, contentVars, FileReport, CountReports, AbortReport,
                        ResolveReports, SetCardStatus, AbortRuling, RefreshDeck
  <2>3. o = q
    BY <2>1, <2>2 DEF CommitReport, ContentTypes, NoFiling, CountedFilings
  <2> DEFINE r == filing[q].who
             Sees == Open(c) \cup (IF report[c][r] = "none" THEN {r} ELSE {})
  <2>4. filing[q].open >= autoRetireThreshold
    BY <2>1, <2>2, <2>3 DEF CommitReport, Enough
  <2>5. Open(c)' = Sees
    BY <2>1, <2>2, <2>3 DEF CommitReport, Open, ContentTypes, CountedFilings
  <2>6. filing[q].open <= Cardinality(Sees)
    BY <2>1 DEF CountInv, Seen
  <2>7. Sees \subseteq Reporters /\ filing[q].open \in Nat
    BY <2>1 DEF CountedFilings, Open
  <2>8. Cardinality(Sees) \in Nat
    BY <2>7, FinitePeople
  <2>9. Cardinality(Sees) >= autoRetireThreshold
    BY <2>4, <2>6, <2>7, <2>8, FinitePeople
  <2> QED BY <2>5, <2>9
<1> QED BY <1>1, CInvInit, CInvStep, PTL DEF ContentSpec, RetiredForCause
=============================================================================
