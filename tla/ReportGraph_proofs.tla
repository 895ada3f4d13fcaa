-------------------------- MODULE ReportGraph_proofs --------------------------
(***************************************************************************)
(* What a report task publishes and stores, and how it talks to the model, *)
(* for any number of runs, any accounts, calls and faults.                 *)
(***************************************************************************)
EXTENDS ReportGraph, FiniteSetTheorems, WellFoundedInduction, TLAPS

Names == {"concentration", "sector", "correlation", "earnings", "stress"}
CardSet == [score : Int, quality : {"low", "medium", "high"}]
CardsSet == [concentration : CardSet, sector : CardSet, correlation : CardSet, earnings : CardSet, stress : CardSet]

\* Each card counts for at most its weight, and the weights sum up to one: the overall
\* score never reaches the threshold of the second level.
LEMMA OverallIsSmall ==
    ASSUME NEW c \in CardsSet
    PROVE  Overall(c) <= 60000 /\ Overall(c) \in Int
<1>2. /\ c.concentration.score \in Int /\ c.sector.score \in Int /\ c.correlation.score \in Int
      /\ c.earnings.score \in Int /\ c.stress.score \in Int
  BY DEF CardsSet, CardSet
<1> HIDE DEF CardsSet
<1> DEFINE a1 == AtMost(25, c.concentration.score)
           a2 == AtMost(20, c.sector.score)
           a3 == AtMost(20, c.correlation.score)
           a4 == AtMost(15, c.earnings.score)
           a5 == AtMost(4000, c.stress.score)
<1>3. /\ a1 \in Int /\ a1 <= 25 /\ a2 \in Int /\ a2 <= 20 /\ a3 \in Int /\ a3 <= 20
      /\ a4 \in Int /\ a4 <= 15 /\ a5 \in Int /\ a5 <= 4000
  <2>1. a1 \in Int /\ a1 <= 25
    BY <1>2 DEF AtMost
  <2>2. a2 \in Int /\ a2 <= 20
    BY <1>2 DEF AtMost
  <2>3. a3 \in Int /\ a3 <= 20
    BY <1>2 DEF AtMost
  <2>4. a4 \in Int /\ a4 <= 15
    BY <1>2 DEF AtMost
  <2>5. a5 \in Int /\ a5 <= 4000
    BY <1>2 DEF AtMost
  <2> HIDE DEF a1, a2, a3, a4, a5
  <2> QED BY <2>1, <2>2, <2>3, <2>4, <2>5
<1>4. Overall(c) = 720 * a1 + 600 * a2 + 600 * a3 + 400 * a4 + 3 * a5
  BY DEF Overall
<1> HIDE DEF a1, a2, a3, a4, a5
<1> QED BY <1>3, <1>4

\* The published level says only whether two cards are guesses.
THEOREM PublishedLevel ==
    ASSUME NEW c \in CardsSet
    PROVE  ReportLevel(c) = IF Guessed(c) >= 2 THEN "medium" ELSE "low"
<1>1. Overall(c) <= 60000 /\ Overall(c) \in Int
  BY OverallIsSmall
<1>2. Level(Overall(c)) = "low"
  BY <1>1 DEF Level
<1> QED BY <1>2 DEF ReportLevel

\* Two cards of low quality are enough.
LEMMA TwoGuesses ==
    ASSUME NEW c \in CardsSet, NEW x \in Names, NEW y \in Names, x # y,
           c[x].quality = "low", c[y].quality = "low"
    PROVE  Guessed(c) >= 2 /\ Guessed(c) \in Nat
<1> DEFINE G == {n \in DOMAIN c : c[n].quality = "low"}
<1>1. DOMAIN c = Names
  BY DEF CardsSet, Names
<1>2. IsFiniteSet(Names)
  <2>1. /\ IsFiniteSet({}) /\ Names = ((((({} \cup {"concentration"}) \cup {"sector"}) \cup {"correlation"})
                                      \cup {"earnings"}) \cup {"stress"})
    BY FS_EmptySet DEF Names
  <2>2. \A S, e : IsFiniteSet(S) => IsFiniteSet(S \cup {e})
    BY FS_AddElement
  <2> QED BY <2>1, <2>2
<1>3. IsFiniteSet(G)
  <2>1. G \subseteq Names
    BY <1>1
  <2> QED BY <1>2, <2>1, FS_Subset
<1>4. {x, y} \subseteq G
  BY <1>1
<1>5. Cardinality({x, y}) = 2
  <2>1. IsFiniteSet({x}) /\ Cardinality({x}) = 1
    BY FS_Singleton
  <2>2. y \notin {x}
    OBVIOUS
  <2>3. Cardinality({x} \cup {y}) = IF y \in {x} THEN Cardinality({x}) ELSE Cardinality({x}) + 1
    BY ONLY <2>1, FS_AddElement
  <2>4. {x, y} = {x} \cup {y}
    OBVIOUS
  <2> QED BY <2>1, <2>2, <2>3, <2>4
<1>6. Cardinality({x, y}) <= Cardinality(G) /\ Cardinality(G) \in Nat
  BY <1>3, <1>4, FS_Subset, FS_CardinalityType
<1> HIDE DEF G
<1>7. Guessed(c) = Cardinality(G)
  BY DEF Guessed, G
<1> QED BY <1>5, <1>6, <1>7

----------------------------------------------------------------------------
(* What a runner holds *)

Holding == {"persist", "resave", "finalize", "verdict"}

\* A run that is not done reports something, and what it is about to save or to give a
\* verdict on is its own.
HoldInv ==
    /\ DOMAIN pc = Runs /\ DOMAIN held = Runs
    /\ \A r \in Runs :
         /\ pc[r] # "done" => kind[r] \in {"daily", "trade", "risk"}
         /\ pc[r] \in Holding => held[r].by = r /\ held[r].kind = kind[r]

Gathering == {"select", "symbols", "pack", "evidence", "context", "analyses", "compose"}

\* Gathering neither saves nor ends.
LEMMA GatherMoves ==
    ASSUME NEW r, Gather(r)
    PROVE  /\ pc[r] \in Gathering \cup {"load"}
           /\ \E s \in Gathering : pc' = [pc EXCEPT ![r] = s]
           /\ UNCHANGED <<faults, reportVars>>
<1>0. UNCHANGED <<faults, reportVars>>
  BY DEF Gather
<1>1. PICK i \in 1..Len(Nodes[kind[r]]) - 1 :
        pc[r] = Nodes[kind[r]][i] /\ pc' = [pc EXCEPT ![r] = Nodes[kind[r]][i + 1]]
  BY DEF Gather, At, Go
<1>2. kind[r] \in {"daily", "trade"}
  BY DEF Gather, Nodes, TradeNodes
<1>3. CASE kind[r] = "daily"
  <2>1. Nodes[kind[r]] = <<"load", "select", "symbols", "pack">>
    BY <1>3 DEF Nodes
  <2>2. i \in 1..3
    BY <1>1, <2>1
  <2>3. Nodes[kind[r]][i] \in Gathering \cup {"load"} /\ Nodes[kind[r]][i + 1] \in Gathering
    BY <2>1, <2>2 DEF Gathering
  <2> QED BY <1>1, <1>0, <2>3
<1>4. CASE kind[r] = "trade"
  <2>1. Nodes[kind[r]] = <<"load", "evidence", "context", "analyses", "compose">>
    BY <1>4 DEF Nodes, TradeNodes
  <2>2. i \in 1..4
    BY <1>1, <2>1
  <2>3. Nodes[kind[r]][i] \in Gathering \cup {"load"} /\ Nodes[kind[r]][i + 1] \in Gathering
    BY <2>1, <2>2 DEF Gathering
  <2> QED BY <1>1, <1>0, <2>3
<1> QED BY <1>2, <1>3, <1>4

\* A document that a run makes, composed or conservative, names the run and its kind.
LEMMA DocumentsAreOnesOwn ==
    /\ \A r, id, status : /\ Document(r, id, status).by = r /\ Document(r, id, status).kind = kind[r]
                          /\ Document(r, id, status).id = id /\ Document(r, id, status).status = status
                          /\ Document(r, id, status).level = "unknown"
    /\ \A r : /\ Conservative(r).by = r /\ Conservative(r).kind = kind[r] /\ Conservative(r).status = "failed"
              /\ Conservative(r).level \in {"unknown", "medium"}
              /\ kind[r] = "risk" => Conservative(r).id = <<"fallback", r>>
BY DEF Document, Conservative

\* At the start nothing is held, and every run reports something.
LEMMA HoldInit == Init => HoldInv
BY ReportAssumption DEF Init, HoldInv, Holding

\* No step changes the kind of a run, or makes it hold something else than a document.
LEMMA HoldNext == HoldInv /\ [Next]_vars => HoldInv'
<1> SUFFICES ASSUME HoldInv, [Next]_vars PROVE HoldInv'
  OBVIOUS
<1>1. CASE UNCHANGED vars
  BY <1>1 DEF HoldInv, vars, reportVars
<1>2. ASSUME NEW r \in Runs, Step(r) PROVE HoldInv'
  <2>1. ASSUME NEW s, s \notin Holding, pc[r] # "done", pc' = [pc EXCEPT ![r] = s], UNCHANGED <<kind, held>>
        PROVE  HoldInv'
    BY <2>1 DEF HoldInv
  <2>2. ASSUME NEW s, NEW d, pc[r] # "done", pc' = [pc EXCEPT ![r] = s], UNCHANGED kind,
               held' = [held EXCEPT ![r] = d], d.by = r, d.kind = kind[r]
        PROVE  HoldInv'
    BY <2>2 DEF HoldInv
  <2>3. ASSUME NEW s, pc[r] \in Holding, pc' = [pc EXCEPT ![r] = s], UNCHANGED <<kind, held>>
        PROVE  HoldInv'
    BY <2>3 DEF HoldInv, Holding
  <2>4. CASE Gather(r)
    <3>1. PICK s \in Gathering : pc' = [pc EXCEPT ![r] = s]
      BY <2>4, GatherMoves
    <3>2. UNCHANGED <<kind, held>> /\ pc[r] # "done" /\ s \notin Holding
      BY <2>4, GatherMoves DEF reportVars, Gathering, Holding
    <3> QED BY <2>1, <3>1, <3>2
  <2>5. CASE BuildPack(r) \/ BuildFacts(r) \/ MakeCards(r) \/ StressTest(r)
    BY <2>1, <2>5 DEF BuildPack, BuildFacts, MakeCards, StressTest, At, Go, Holding
  <2>6. CASE Compose(r) \/ Ask(r)
    BY <2>6 DEF Compose, Ask, reportVars, HoldInv
  <2>7. CASE Composed(r)
    <3>1. PICK id, status : held' = [held EXCEPT ![r] = Document(r, id, status)]
      BY <2>7 DEF Composed
    <3>2. pc[r] = "compose" /\ pc' = [pc EXCEPT ![r] = "persist"] /\ kind' = kind
      BY <2>7 DEF Composed, At, Go
    <3>3. Document(r, id, status).by = r /\ Document(r, id, status).kind = kind[r]
      BY DocumentsAreOnesOwn
    <3> QED BY <2>2, <3>1, <3>2, <3>3
  <2>8. CASE Report(r)
    <3>1. CASE facts[r] = <<>>
      BY <2>1, <2>8, <3>1 DEF Report, At, Go, Holding
    <3>2. CASE facts[r] # <<>>
      <4> DEFINE d == [Document(r, <<"uuid", r>>, "success") EXCEPT !.level = ReportLevel(cards[r])]
      <4>1. d.by = r /\ d.kind = kind[r]
        BY DEF Document
      <4>2. held' = [held EXCEPT ![r] = d] /\ pc' = [pc EXCEPT ![r] = "persist"] /\ pc[r] = "report" /\ kind' = kind
        BY <2>8, <3>2 DEF Report, At, Go
      <4> HIDE DEF d
      <4> QED BY <2>2, <4>1, <4>2
    <3> QED BY <3>1, <3>2
  <2>9. CASE Persist(r) \/ Resave(r) \/ Finalize(r) \/ Verdict(r)
    <3>1. pc[r] \in Holding /\ UNCHANGED <<kind, held>>
      BY <2>9 DEF Persist, Resave, Finalize, Verdict, At, Holding
    <3>2. \E s : pc' = [pc EXCEPT ![r] = s]
      BY <2>9 DEF Persist, Resave, Finalize, Verdict, Go
    <3> QED BY <2>3, <3>1, <3>2
  <2>10. CASE StoreFallback(r)
    <3>1. /\ held' = [held EXCEPT ![r] = Conservative(r)] /\ pc[r] = "fallback" /\ kind' = kind
          /\ \E s : pc' = [pc EXCEPT ![r] = s]
      BY <2>10 DEF StoreFallback, At, Go
    <3> QED BY <2>2, <3>1, DocumentsAreOnesOwn
  <2> QED BY <1>2, <2>4, <2>5, <2>6, <2>7, <2>8, <2>9, <2>10 DEF Step
<1> QED BY <1>1, <1>2 DEF Next

----------------------------------------------------------------------------
(* The level of a stored assessment *)

Early == {"load", "cards"}
Levels == {"unknown", "low", "medium"}

\* Where a low level may come from.
Justified(r) == facts[r] # <<>> /\ reached[r].companies # {} /\ reached[r].calendars # {}

\* A card that nobody answered for is of low quality.
CardsTellQuality(r) ==
    /\ cards[r].correlation.quality = "low"
    /\ cards[r].sector.quality # "low" => reached[r].companies # {}
    /\ cards[r].earnings.quality # "low" => reached[r].calendars # {}

ReportTypeOK ==
    /\ kind \in [Runs -> {"daily", "trade", "risk", "none"}]
    /\ DOMAIN pc = Runs /\ DOMAIN held = Runs /\ DOMAIN verdict = Runs /\ DOMAIN reached = Runs
    /\ faults \in [Runs -> Nat]
    /\ facts \in [Runs -> {<<>>} \cup {<<Facts(account)>> : account \in Accounts}]
    /\ cards \in [Runs -> CardsSet]
    /\ \A r \in Runs : reached[r].themed \in BOOLEAN

LevelInv ==
    /\ ReportTypeOK
    /\ \A r \in Runs :
         /\ CardsTellQuality(r)
         /\ pc[r] \in Early => cards[r] = Guess /\ held[r] = Nothing
         /\ held[r].level \in Levels
         /\ held[r].level = "low" => Justified(r)
    /\ \A d \in docs :
         /\ d.by \in Runs /\ pc[d.by] \notin Early
         /\ d.level \in Levels
         /\ d.level = "low" => Justified(d.by)

\* The cards of the fallbacks are cards of low quality.
LEMMA GuessIsTyped == Guess \in CardsSet /\ Guess.correlation.quality = "low"
                        /\ Guess.sector.quality = "low" /\ Guess.earnings.quality = "low"
BY DEF Guess, CardsSet, CardSet, Card

\* Nothing is stored and nothing is gathered at the start.
LEMMA LevelInit == Init => LevelInv
<1> SUFFICES ASSUME Init PROVE LevelInv
  OBVIOUS
<1>1. ReportTypeOK
  BY GuessIsTyped, ReportAssumption DEF Init, ReportTypeOK, NothingReached
<1>2. \A r \in Runs : CardsTellQuality(r) /\ cards[r] = Guess /\ held[r] = Nothing
  BY GuessIsTyped DEF Init, CardsTellQuality
<1>3. Nothing.level = "unknown"
  BY DEF Nothing
<1> QED BY <1>1, <1>2, <1>3 DEF Init, LevelInv, Levels

\* The published level is low only if fewer than two cards were guessed.
LEMMA LowIsJustified ==
    ASSUME NEW r \in Runs, LevelInv, facts[r] # <<>>, ReportLevel(cards[r]) = "low"
    PROVE  Justified(r)
<1>1. cards[r] \in CardsSet /\ CardsTellQuality(r)
  BY DEF LevelInv, ReportTypeOK
<1>2. ~(Guessed(cards[r]) >= 2)
  BY <1>1, PublishedLevel
<1>3. cards[r].sector.quality # "low"
  BY <1>1, <1>2, TwoGuesses DEF Names, CardsTellQuality
<1>4. cards[r].earnings.quality # "low"
  BY <1>1, <1>2, TwoGuesses DEF Names, CardsTellQuality
<1> QED BY <1>1, <1>3, <1>4 DEF CardsTellQuality, Justified

\* A step that leaves the report alone and does not go back to the start.
LEMMA QuietStep ==
    ASSUME LevelInv, NEW r \in Runs, NEW s, s \notin Early, pc' = [pc EXCEPT ![r] = s],
           UNCHANGED <<kind, facts, reached, cards, held, docs>>, DOMAIN verdict' = Runs, faults' \in [Runs -> Nat]
    PROVE  LevelInv'
<1>1. ReportTypeOK'
  BY DEF LevelInv, ReportTypeOK
<1>2. \A q \in Runs : pc'[q] \in Early => pc[q] \in Early
  BY DEF LevelInv, ReportTypeOK
<1>3. \A q \in Runs : pc[q] \notin Early => pc'[q] \notin Early
  BY DEF LevelInv, ReportTypeOK
<1> QED BY <1>1, <1>2, <1>3 DEF LevelInv, CardsTellQuality, Justified

\* A step that stores a document of the level that the runner holds, or none.
LEMMA SavingStep ==
    ASSUME LevelInv, NEW r \in Runs, NEW s, s \notin Early, pc[r] \notin Early, pc' = [pc EXCEPT ![r] = s],
           NEW d, d.by = r, d.level \in Levels, d.level = "low" => Justified(r),
           docs' \in {docs, Put(d)}, held' \in {held, [held EXCEPT ![r] = d]},
           UNCHANGED <<kind, facts, reached, cards, verdict>>, faults' \in [Runs -> Nat]
    PROVE  LevelInv'
<1>1. ReportTypeOK'
  BY DEF LevelInv, ReportTypeOK
<1>2. \A q \in Runs : pc'[q] \in Early => pc[q] \in Early /\ q # r
  BY DEF LevelInv, ReportTypeOK
<1>3. \A q \in Runs : pc[q] \notin Early => pc'[q] \notin Early
  BY DEF LevelInv, ReportTypeOK
<1>4. \A q \in Runs : Justified(q)' = Justified(q) /\ CardsTellQuality(q)' = CardsTellQuality(q)
  BY DEF Justified, CardsTellQuality
<1>5. docs' \subseteq docs \cup {d}
  BY DEF Put
<1>6. \A q \in Runs : held'[q] = held[q] \/ (q = r /\ held'[q] = d)
  BY DEF LevelInv, ReportTypeOK
<1>7. \A q \in Runs :
         /\ CardsTellQuality(q)'
         /\ pc'[q] \in Early => cards'[q] = Guess /\ held'[q] = Nothing
         /\ held'[q].level \in Levels
         /\ held'[q].level = "low" => Justified(q)'
  <2> TAKE q \in Runs
  <2>1. CardsTellQuality(q) /\ (pc[q] \in Early => cards[q] = Guess /\ held[q] = Nothing)
        /\ held[q].level \in Levels /\ (held[q].level = "low" => Justified(q))
    BY DEF LevelInv
  <2>2. pc'[q] \in Early => cards'[q] = Guess /\ held'[q] = Nothing
    BY <2>1, <1>2, <1>6
  <2>3. held'[q].level \in Levels /\ (held'[q].level = "low" => Justified(q))
    BY <2>1, <1>6
  <2> QED BY <2>1, <2>2, <2>3, <1>4
<1>8. \A e \in docs' : e.by \in Runs /\ pc'[e.by] \notin Early /\ e.level \in Levels /\ (e.level = "low" => Justified(e.by)')
  <2> TAKE e \in docs'
  <2>1. CASE e = d
    <3>1. pc'[r] \notin Early
      BY <1>3
    <3>2. Justified(r)' = Justified(r)
      BY <1>4
    <3> QED BY <2>1, <3>1, <3>2
  <2>2. CASE e \in docs
    <3>1. e.by \in Runs /\ pc[e.by] \notin Early /\ e.level \in Levels /\ (e.level = "low" => Justified(e.by))
      BY <2>2 DEF LevelInv
    <3>2. Justified(e.by)' = Justified(e.by) /\ pc'[e.by] \notin Early
      BY <3>1, <1>3, <1>4
    <3> QED BY <3>1, <3>2
  <2> QED BY <1>5, <2>1, <2>2
<1> QED BY <1>1, <1>7, <1>8 DEF LevelInv

\* Faults are counted.
LEMMA FaultsAreNumbers ==
    ASSUME ReportTypeOK, NEW r, May(r) \/ Fine
    PROVE  faults' \in [Runs -> Nat]
BY DEF ReportTypeOK, May, Fine

\* The facts of an account arrive before a card is made of them.
LEMMA FactsStep == ASSUME LevelInv, NEW r \in Runs, BuildFacts(r) PROVE LevelInv'
<1>1. faults' \in [Runs -> Nat]
  BY FaultsAreNumbers DEF LevelInv, BuildFacts
<1>2. ReportTypeOK'
  <2>1. facts' \in [Runs -> {<<>>} \cup {<<Facts(account)>> : account \in Accounts}]
    <3>1. facts \in [Runs -> {<<>>} \cup {<<Facts(account)>> : account \in Accounts}]
      BY DEF LevelInv, ReportTypeOK
    <3>2. \E v \in {<<>>} \cup {<<Facts(account)>> : account \in Accounts} :
            facts' = [facts EXCEPT ![r] = v] \/ facts' = facts
      BY DEF BuildFacts
    <3> QED BY <3>1, <3>2
  <2> QED BY <1>1, <2>1 DEF LevelInv, ReportTypeOK, BuildFacts, Go
<1>3. pc[r] = "load" /\ pc' = [pc EXCEPT ![r] = "cards"] /\ UNCHANGED <<kind, reached, cards, held, docs>>
  BY DEF BuildFacts, At, Go
<1>4. \A q \in Runs : q # r => facts'[q] = facts[q] /\ pc'[q] = pc[q]
  BY <1>3 DEF LevelInv, ReportTypeOK, BuildFacts
<1>5. held[r] = Nothing /\ cards[r] = Guess /\ Nothing.level = "unknown"
  BY <1>3 DEF LevelInv, Early, Nothing
<1>6. \A d \in docs : d.by \in Runs /\ d.by # r
  BY <1>3 DEF LevelInv, Early
<1>7. \A q \in Runs :
         /\ CardsTellQuality(q)'
         /\ pc'[q] \in Early => cards'[q] = Guess /\ held'[q] = Nothing
         /\ held'[q].level \in Levels
         /\ held'[q].level = "low" => Justified(q)'
  BY <1>3, <1>4, <1>5 DEF LevelInv, CardsTellQuality, Justified, Levels
<1>8. \A d \in docs' : d.by \in Runs /\ pc'[d.by] \notin Early /\ d.level \in Levels /\ (d.level = "low" => Justified(d.by)')
  BY <1>3, <1>4, <1>6 DEF LevelInv, Justified
<1> QED BY <1>2, <1>7, <1>8 DEF LevelInv

\* The cards of an account are made, or remain those of the fallbacks.
LEMMA CardsStep == ASSUME LevelInv, NEW r \in Runs, MakeCards(r) PROVE LevelInv'
<1>1. faults' \in [Runs -> Nat]
  BY FaultsAreNumbers DEF LevelInv, MakeCards
<1>2. pc[r] = "cards" /\ pc' = [pc EXCEPT ![r] = "stress"] /\ UNCHANGED <<kind, facts, held, docs, verdict>>
  BY DEF MakeCards, At, Go
<1>3. CASE facts[r] = <<>>
  <2>1. UNCHANGED <<reached, cards>>
    BY <1>3 DEF MakeCards
  <2> QED BY <1>1, <1>2, <2>1, QuietStep DEF Early, LevelInv, ReportTypeOK
<1>4. CASE facts[r] # <<>>
  <2> DEFINE s == facts[r][1]
  <2>1. PICK companies \in SUBSET CompaniesAsked(s), calendars \in SUBSET CalendarsAsked(s), failed \in SUBSET {"sector", "earnings"} :
          /\ reached' = [reached EXCEPT ![r] =
               [companies |-> IF "sector" \in failed THEN {} ELSE companies,
                calendars |-> IF "earnings" \in failed THEN {} ELSE calendars,
                themed    |-> "sector" \notin failed]]
          /\ cards' = [cards EXCEPT ![r] = Made(@, s, companies, calendars, failed)]
    BY <1>4 DEF MakeCards
  <2>2. \E account \in Accounts : s = Facts(account)
    BY <1>4 DEF LevelInv, ReportTypeOK
  <2>3. /\ Concentration(s) \in CardSet
        /\ Sector(s, companies) \in CardSet /\ (Sector(s, companies).quality # "low" => companies # {})
        /\ Correlation(s) \in CardSet /\ Correlation(s).quality = "low"
        /\ Earnings(s, calendars) \in CardSet /\ (Earnings(s, calendars).quality # "low" => calendars # {})
    <3>1. /\ Concentration(s).score \in Int /\ Correlation(s).score \in Int
          /\ Sector(s, companies).score \in Int /\ Earnings(s, calendars).score \in Int
      BY <2>2, ScoreAssumption
    <3>2. \A n, quality : Card(n, quality).score = n /\ Card(n, quality).quality = quality
                          /\ (n \in Int /\ quality \in {"low", "medium", "high"} => Card(n, quality) \in CardSet)
      BY DEF Card, CardSet
    <3> HIDE DEF s
    <3>3. \E n : Concentration(s) = Card(n, "high")
      BY DEF Concentration
    <3>4. \E n : Correlation(s) = Card(n, "low")
      BY DEF Correlation
    <3>5. \E n : Sector(s, companies) = Card(n, IF companies # {} THEN "medium" ELSE "low")
      BY DEF Sector
    <3>6. \E n : Earnings(s, calendars) = Card(n, IF calendars # {} THEN "medium" ELSE "low")
      BY DEF Earnings
    <3> QED BY <3>1, <3>2, <3>3, <3>4, <3>5, <3>6
  <2> HIDE DEF s
  <2>4. cards[r] = Guess /\ held[r] = Nothing
    BY <1>2 DEF LevelInv, Early
  <2> DEFINE c == Made(Guess, s, companies, calendars, failed)
  <2>5. cards' = [cards EXCEPT ![r] = c]
    BY <2>1, <2>4
  <2>6. /\ c \in CardsSet /\ c.correlation.quality = "low"
        /\ c.sector.quality # "low" => "sector" \notin failed /\ companies # {}
        /\ c.earnings.quality # "low" => "earnings" \notin failed /\ calendars # {}
    BY <2>3, GuessIsTyped DEF CardsSet, Made
  <2> HIDE DEF c
  <2>7. ReportTypeOK'
    <3>1. \A q \in Runs : reached'[q].themed \in BOOLEAN
      BY <2>1 DEF LevelInv, ReportTypeOK
    <3> QED BY <1>1, <1>2, <2>1, <2>5, <2>6, <3>1 DEF LevelInv, ReportTypeOK
  <2>8. /\ cards'[r] = c
        /\ reached'[r].companies = (IF "sector" \in failed THEN {} ELSE companies)
        /\ reached'[r].calendars = (IF "earnings" \in failed THEN {} ELSE calendars)
    BY <2>1, <2>5 DEF LevelInv, ReportTypeOK
  <2>9. \A q \in Runs : q # r => cards'[q] = cards[q] /\ reached'[q] = reached[q] /\ pc'[q] = pc[q]
    BY <1>2, <2>1, <2>5 DEF LevelInv, ReportTypeOK
  <2>10. pc'[r] \notin Early /\ Nothing.level = "unknown" /\ \A d \in docs : d.by \in Runs /\ d.by # r
    BY <1>2 DEF LevelInv, ReportTypeOK, Early, Nothing
  <2>11. CardsTellQuality(r)'
    BY <2>6, <2>8 DEF CardsTellQuality
  <2>12. \A q \in Runs : q # r => CardsTellQuality(q)' = CardsTellQuality(q) /\ Justified(q)' = Justified(q)
    BY <1>2, <2>9 DEF CardsTellQuality, Justified
  <2>13. \A q \in Runs :
           /\ CardsTellQuality(q)'
           /\ pc'[q] \in Early => cards'[q] = Guess /\ held'[q] = Nothing
           /\ held'[q].level \in Levels
           /\ held'[q].level = "low" => Justified(q)'
    <3> TAKE q \in Runs
    <3>1. CASE q = r
      BY <3>1, <1>2, <2>4, <2>10, <2>11 DEF Levels
    <3>2. CASE q # r
      <4>1. CardsTellQuality(q) /\ (pc[q] \in Early => cards[q] = Guess /\ held[q] = Nothing)
            /\ held[q].level \in Levels /\ (held[q].level = "low" => Justified(q))
        BY DEF LevelInv
      <4> QED BY <4>1, <3>2, <1>2, <2>9, <2>12
    <3> QED BY <3>1, <3>2
  <2>14. \A d \in docs' : d.by \in Runs /\ pc'[d.by] \notin Early /\ d.level \in Levels /\ (d.level = "low" => Justified(d.by)')
    BY <1>2, <2>9, <2>10, <2>12 DEF LevelInv
  <2> QED BY <2>7, <2>13, <2>14 DEF LevelInv
<1> QED BY <1>3, <1>4

\* The stress card says nothing of what was asked.
LEMMA StressStep == ASSUME LevelInv, NEW r \in Runs, StressTest(r) PROVE LevelInv'
<1>1. /\ pc[r] = "stress" /\ pc' = [pc EXCEPT ![r] = "report"]
      /\ UNCHANGED <<kind, facts, reached, held, docs, verdict, faults>>
  BY DEF StressTest, At, Go, Fine
<1>2. CASE facts[r] = <<>>
  <2>1. cards' = cards
    BY <1>2 DEF StressTest
  <2> QED BY <1>1, <2>1, QuietStep DEF Early, LevelInv, ReportTypeOK
<1>3. CASE facts[r] # <<>>
  <2> DEFINE s == facts[r][1]
             st == Stress(s, reached[r].themed)
  <2>1. cards' = [cards EXCEPT ![r].stress = st]
    BY <1>3 DEF StressTest
  <2>2. \E account \in Accounts : s = Facts(account)
    BY <1>3 DEF LevelInv, ReportTypeOK
  <2> HIDE DEF s
  <2>3. reached[r].themed \in BOOLEAN
    BY DEF LevelInv, ReportTypeOK
  <2>4. st.score \in Int
    BY <2>2, <2>3, ScoreAssumption
  <2>5. st \in CardSet
    <3>1. st = [score |-> st.score, quality |-> "high"]
      BY DEF Stress, Card
    <3> HIDE DEF st
    <3> QED BY <3>1, <2>4 DEF CardSet
  <2> HIDE DEF st
  <2>6. cards[r] \in CardsSet
    BY DEF LevelInv, ReportTypeOK
  <2>7. /\ cards'[r] \in CardsSet /\ cards'[r].correlation = cards[r].correlation
        /\ cards'[r].sector = cards[r].sector /\ cards'[r].earnings = cards[r].earnings
    BY <2>1, <2>5, <2>6 DEF CardsSet, LevelInv, ReportTypeOK
  <2>8. \A q \in Runs : q # r => cards'[q] = cards[q] /\ pc'[q] = pc[q]
    BY <1>1, <2>1 DEF LevelInv, ReportTypeOK
  <2>9. cards' \in [Runs -> CardsSet]
    BY <2>1, <2>7, <2>8 DEF LevelInv, ReportTypeOK
  <2>10. ReportTypeOK'
    BY <1>1, <2>9 DEF LevelInv, ReportTypeOK
  <2>11. pc[r] \notin Early /\ pc'[r] \notin Early
    BY <1>1 DEF LevelInv, ReportTypeOK, Early
  <2>12. \A q \in Runs : CardsTellQuality(q)' /\ Justified(q)' = Justified(q)
    BY <1>1, <2>7, <2>8 DEF LevelInv, CardsTellQuality, Justified
  <2>13. \A q \in Runs : pc'[q] \in Early => pc[q] \in Early /\ q # r
    BY <2>8, <2>11
  <2>14. \A q \in Runs : pc[q] \notin Early => pc'[q] \notin Early
    BY <2>8, <2>11
  <2> QED BY <1>1, <2>8, <2>10, <2>12, <2>13, <2>14 DEF LevelInv
<1> QED BY <1>2, <1>3

\* Every step preserves the invariant.
LEMMA LevelNext == HoldInv /\ LevelInv /\ [Next]_vars => LevelInv'
<1> SUFFICES ASSUME HoldInv, LevelInv, [Next]_vars PROVE LevelInv'
  OBVIOUS
<1>1. CASE UNCHANGED vars
  BY <1>1 DEF LevelInv, ReportTypeOK, CardsTellQuality, Justified, vars, reportVars
<1>2. ASSUME NEW r \in Runs, Step(r) PROVE LevelInv'
  <2>0. ReportTypeOK /\ DOMAIN verdict = Runs /\ faults \in [Runs -> Nat]
    BY DEF LevelInv, ReportTypeOK
  <2>1. CASE Gather(r)
    <3>1. PICK s \in Gathering : pc' = [pc EXCEPT ![r] = s]
      BY <2>1, GatherMoves
    <3>2. UNCHANGED <<faults, kind, facts, reached, cards, held, docs, verdict>>
      BY <2>1, GatherMoves DEF reportVars
    <3>3. s \notin Early
      BY DEF Gathering, Early
    <3> QED BY <2>0, <3>1, <3>2, <3>3, QuietStep
  <2>2. CASE BuildPack(r)
    <3>1. pc' = [pc EXCEPT ![r] = "compose"] /\ UNCHANGED <<kind, facts, reached, cards, held, docs, verdict>>
      BY <2>2 DEF BuildPack, Go
    <3>2. faults' \in [Runs -> Nat]
      BY <2>0, <2>2, FaultsAreNumbers DEF BuildPack
    <3> QED BY <2>0, <3>1, <3>2, QuietStep DEF Early
  <2>3. CASE Compose(r) \/ Ask(r)
    <3>1. UNCHANGED <<pc, faults, kind, facts, reached, cards, held, docs, verdict>>
      BY <2>3 DEF Compose, Ask, reportVars
    <3> QED BY <3>1 DEF LevelInv, ReportTypeOK, CardsTellQuality, Justified
  <2>4. CASE Composed(r)
    <3>1. PICK id, status : held' = [held EXCEPT ![r] = Document(r, id, status)]
      BY <2>4 DEF Composed
    <3>2. /\ pc[r] = "compose" /\ pc' = [pc EXCEPT ![r] = "persist"]
          /\ UNCHANGED <<kind, facts, reached, cards, docs, verdict, faults>>
      BY <2>4 DEF Composed, At, Go, Fine
    <3>3. pc[r] \notin Early /\ "persist" \notin Early /\ "unknown" \in Levels
      BY <3>2 DEF Early, Levels
    <3> DEFINE d == Document(r, id, status)
    <3>4. d.by = r /\ d.level \in Levels /\ d.level # "low"
      BY DocumentsAreOnesOwn DEF Levels
    <3>5. docs' \in {docs, Put(d)} /\ held' \in {held, [held EXCEPT ![r] = d]} /\ faults' \in [Runs -> Nat]
      BY <2>0, <3>1, <3>2
    <3> HIDE DEF d
    <3> QED BY <3>2, <3>3, <3>4, <3>5, SavingStep
  <2>5. CASE BuildFacts(r)
    BY <2>5, FactsStep
  <2>6. CASE MakeCards(r)
    BY <2>6, CardsStep
  <2>7. CASE StressTest(r)
    BY <2>7, StressStep
  <2>8. CASE Report(r)
    <3>1. pc[r] = "report" /\ UNCHANGED <<kind, facts, reached, cards, docs, verdict, faults>>
      BY <2>8 DEF Report, At, Fine
    <3>2. CASE facts[r] = <<>>
      <4>1. pc' = [pc EXCEPT ![r] = "fallback"] /\ held' = held
        BY <2>8, <3>2 DEF Report, Go
      <4> QED BY <2>0, <3>1, <4>1, QuietStep DEF Early
    <3>3. CASE facts[r] # <<>>
      <4> DEFINE d == [Document(r, <<"uuid", r>>, "success") EXCEPT !.level = ReportLevel(cards[r])]
      <4>1. held' = [held EXCEPT ![r] = d] /\ pc' = [pc EXCEPT ![r] = "persist"]
        BY <2>8, <3>3 DEF Report, Go
      <4>2. d.by = r /\ d.level = ReportLevel(cards[r])
        BY DEF Document
      <4>3. ReportLevel(cards[r]) \in Levels
        BY <2>0, PublishedLevel DEF ReportTypeOK, Levels
      <4> HIDE DEF d
      <4>4. d.level = "low" => Justified(r)
        BY <3>3, <4>2, LowIsJustified
      <4>5. docs' \in {docs, Put(d)} /\ held' \in {held, [held EXCEPT ![r] = d]} /\ faults' \in [Runs -> Nat]
        BY <2>0, <3>1, <4>1
      <4>6. "persist" \notin Early /\ pc[r] \notin Early
        BY <3>1 DEF Early
      <4>7. d.by = r /\ d.level \in Levels
        BY <4>2, <4>3
      <4> QED BY <3>1, <4>1, <4>4, <4>5, <4>6, <4>7, SavingStep
    <3> QED BY <3>2, <3>3
  <2>9. CASE Persist(r) \/ Resave(r) \/ Finalize(r)
    <3>1. docs' \in {docs, Put(held[r])} /\ faults' \in [Runs -> Nat]
      <4>1. Saved(held[r]) \/ Refused(r, held[r])
        BY <2>9 DEF Persist, Resave, Finalize
      <4> QED BY <2>0, <4>1, FaultsAreNumbers DEF Saved, Refused
    <3>2. pc[r] \in Holding /\ UNCHANGED <<kind, facts, reached, cards, held, verdict>>
      BY <2>9 DEF Persist, Resave, Finalize, At, Holding
    <3>3. kind[r] \in {"daily", "trade", "risk"} /\ held[r].by = r
      BY <3>2 DEF HoldInv, Holding
    <3>4. PICK s : s \notin Early /\ pc' = [pc EXCEPT ![r] = s]
      BY <2>9, <3>3 DEF Persist, Resave, Finalize, Go, AfterSave, Early
    <3>5. pc[r] \notin Early /\ held[r].level \in Levels /\ (held[r].level = "low" => Justified(r))
      BY <3>2 DEF LevelInv, Holding, Early
    <3> QED BY <3>1, <3>2, <3>3, <3>4, <3>5, SavingStep
  <2>10. CASE StoreFallback(r)
    <3>1. docs' \in {docs, Put(Conservative(r))} /\ faults' \in [Runs -> Nat]
      <4>1. Saved(Conservative(r)) \/ Refused(r, Conservative(r))
        BY <2>10 DEF StoreFallback
      <4> QED BY <2>0, <4>1, FaultsAreNumbers DEF Saved, Refused
    <3>2. /\ pc[r] = "fallback" /\ held' = [held EXCEPT ![r] = Conservative(r)]
          /\ UNCHANGED <<kind, facts, reached, cards, verdict>>
      BY <2>10 DEF StoreFallback, At
    <3>3. PICK s : s \notin Early /\ pc' = [pc EXCEPT ![r] = s]
      <4> DEFINE t == IF kind[r] = "risk" THEN "verdict" ELSE "finalize"
      <4>1. pc' = [pc EXCEPT ![r] = t]
        BY <2>10 DEF StoreFallback, Go
      <4>2. t \notin Early
        BY DEF Early
      <4> HIDE DEF t
      <4> QED BY <4>1, <4>2
    <3>4. Conservative(r).by = r /\ Conservative(r).level \in Levels /\ Conservative(r).level # "low"
      BY DocumentsAreOnesOwn DEF Levels
    <3> QED BY <3>1, <3>2, <3>3, <3>4, SavingStep DEF Early
  <2>11. CASE Verdict(r)
    <3>1. /\ pc' = [pc EXCEPT ![r] = "done"] /\ DOMAIN verdict' = Runs
          /\ UNCHANGED <<kind, facts, reached, cards, held, docs, faults>>
      BY <2>0, <2>11 DEF Verdict, Go
    <3> QED BY <2>0, <3>1, QuietStep DEF Early
  <2> QED BY <1>2, <2>1, <2>2, <2>3, <2>4, <2>5, <2>6, <2>7, <2>8, <2>9, <2>10, <2>11 DEF Step
<1> QED BY <1>1, <1>2 DEF Next

\* What nobody could look up never counts as safe, whatever the account is and however
\* many sources fail.
THEOREM UnknownIsNeverLow == Spec => []LowNeedsAnswers
<1>1. LevelInv => LowNeedsAnswers
  BY DEF LevelInv, LowNeedsAnswers, Justified
<1> QED BY HoldInit, HoldNext, LevelInit, LevelNext, <1>1, PTL DEF Spec

\* No assessment is ever stored with a level above medium: the score of the composer is
\* a fraction, the thresholds of its levels are per cents.
THEOREM NeverHigh == Spec => [](\A d \in docs : d.level \in {"unknown", "low", "medium"})
<1>1. LevelInv => \A d \in docs : d.level \in {"unknown", "low", "medium"}
  BY DEF LevelInv, Levels
<1> QED BY HoldInit, HoldNext, LevelInit, LevelNext, <1>1, PTL DEF Spec

----------------------------------------------------------------------------
(* What is stored, and what the task says of it *)

Present(r) == \E d \in docs : d.kind = kind[r] /\ d.id = held[r].id
Agree(r) == \A d \in docs : d.by = r /\ d.id = held[r].id => d.status = held[r].status
Kept(r) == Present(r) /\ Agree(r)

\* A verdict may be given on the document that the runner holds.
Told(r) ==
    IF kind[r] = "risk" THEN Agree(r) /\ (held[r].status = "success" => Present(r))
                        ELSE Kept(r) \/ faults[r] >= 3

\* What is known of a run: at the start nothing of it is stored but, of an assessment,
\* documents under its own id; after its first write, that the document it holds is
\* stored, or that enough calls have raised.
RunInv(r) ==
    /\ pc[r] # "done" \/ kind[r] = "none" => verdict[r] = "open"
    /\ pc[r] \in {"cards", "stress", "report"} => kind[r] = "risk"
    /\ pc[r] \in {"resave", "finalize"} => kind[r] # "risk"
    /\ kind[r] = "risk" /\ pc[r] = "persist" => held[r].id = <<"uuid", r>>
    /\ kind[r] = "risk" /\ pc[r] \notin {"verdict", "done"} => \A d \in docs : d.by = r => d.id = <<"uuid", r>>
    /\ kind[r] # "risk" /\ pc[r] = "fallback" => faults[r] >= 1
    /\ pc[r] = "resave" => Kept(r)
    /\ pc[r] = "finalize" => Kept(r) \/ faults[r] >= 2
    /\ pc[r] = "verdict" \/ verdict[r] # "open" => Told(r)
    /\ verdict[r] # "open" =>
         (verdict[r] = "completed" <=> (kind[r] = "trade" \/ held[r].status = "success"))

StoreInv ==
    /\ \A d \in docs : d.by \in Runs /\ d.kind = kind[d.by]
    /\ \A r \in Runs : RunInv(r)

\* The write of a document leaves it stored, and a document of another run that it
\* replaces is replaced by one under the same id.
LEMMA SavedIsKept ==
    ASSUME StoreInv, NEW r \in Runs, NEW d, d.by = r, d.kind = kind[r],
           kind' = kind, held'[r] = d, docs' = Put(d)
    PROVE  Kept(r)'
BY DEF StoreInv, Kept, Present, Agree, Put

\* A refused write leaves what the run has stored as it was.
LEMMA KeptWhenRefused ==
    ASSUME StoreInv, NEW r \in Runs, NEW d, d.by = r, d.kind = kind[r], held[r] = d, Kept(r),
           kind' = kind, held'[r] = d, docs' \in {docs, Put(d)}
    PROVE  Kept(r)'
<1>1. CASE docs' = Put(d)
  BY <1>1, SavedIsKept
<1>2. CASE docs' = docs
  BY <1>2 DEF Kept, Present, Agree
<1> QED BY <1>1, <1>2

\* A write leaves what the other runs have stored, or replaces it by a document under the
\* same id.
LEMMA OthersKeep ==
    ASSUME StoreInv, NEW r \in Runs, NEW d, d.by = r, d.kind = kind[r], docs' \in {docs, Put(d)}, kind' = kind,
           \A q \in Runs : q # r => /\ pc'[q] = pc[q] /\ held'[q] = held[q]
                                    /\ verdict'[q] = verdict[q] /\ faults'[q] = faults[q]
    PROVE  /\ \A e \in docs' : e.by \in Runs /\ e.kind = kind'[e.by]
           /\ \A q \in Runs : q # r => RunInv(q)'
<1>1. docs' \subseteq docs \cup {d}
  BY DEF Put
<1>2. \A e \in docs' : e.by \in Runs /\ e.kind = kind'[e.by]
  BY <1>1 DEF StoreInv
<1>3. ASSUME NEW q \in Runs, q # r PROVE RunInv(q)'
  <2>1. Agree(q) => Agree(q)'
    BY <1>1, <1>3 DEF Agree
  <2>2. Present(q) => Present(q)'
    BY <1>3 DEF Present, Put
  <2>3. (Kept(q) => Kept(q)') /\ (Told(q) => Told(q)')
    BY <1>3, <2>1, <2>2 DEF Kept, Told
  <2>4. \A e \in docs' : e.by = q => e \in docs
    BY <1>1, <1>3
  <2>5. RunInv(q)
    BY DEF StoreInv
  <2> QED BY <1>3, <2>3, <2>4, <2>5 DEF RunInv
<1> QED BY <1>2, <1>3

\* A step that neither saves nor approaches the end.
LEMMA QuietRun ==
    ASSUME StoreInv, ReportTypeOK, NEW r \in Runs, NEW s,
           s \notin {"persist", "resave", "finalize", "verdict", "done", "fallback"},
           s \in {"cards", "stress", "report"} => kind[r] = "risk",
           pc[r] \notin {"verdict", "done"}, pc' = [pc EXCEPT ![r] = s], UNCHANGED <<kind, held, docs, verdict>>,
           \A q \in Runs : q # r => faults'[q] = faults[q]
    PROVE  StoreInv'
<1>1. \A q \in Runs : q # r => pc'[q] = pc[q]
  BY DEF ReportTypeOK
<1>2. /\ \A e \in docs' : e.by \in Runs /\ e.kind = kind'[e.by]
      /\ \A q \in Runs : q # r => RunInv(q)'
  BY <1>1, DocumentsAreOnesOwn, OthersKeep
<1>3. pc'[r] = s /\ RunInv(r)
  BY DEF ReportTypeOK, StoreInv
<1>4. RunInv(r)'
  BY <1>3 DEF RunInv
<1> QED BY <1>2, <1>4 DEF StoreInv

\* No run has ended at the start.
LEMMA StoreInit == Init => StoreInv
BY DEF Init, StoreInv, RunInv

\* The fallback of the runner, stored or not.
LEMMA FallbackRun ==
    ASSUME StoreInv, HoldInv, ReportTypeOK, NEW r \in Runs, StoreFallback(r)
    PROVE  RunInv(r)'
<1> DEFINE c == Conservative(r)
           t == IF kind[r] = "risk" THEN "verdict" ELSE "finalize"
<1>1. /\ pc[r] = "fallback" /\ pc' = [pc EXCEPT ![r] = t] /\ held' = [held EXCEPT ![r] = c]
      /\ UNCHANGED <<kind, verdict>> /\ (Saved(c) \/ Refused(r, c))
  BY DEF StoreFallback, At, Go
<1>2. /\ c.by = r /\ c.kind = kind[r] /\ c.status = "failed" /\ (kind[r] = "risk" => c.id = <<"fallback", r>>)
  BY DocumentsAreOnesOwn
<1> HIDE DEF c
<1>3. pc'[r] = t /\ held'[r] = c /\ RunInv(r) /\ faults[r] \in Nat
  BY <1>1 DEF ReportTypeOK, StoreInv
<1>4. verdict'[r] = "open" /\ kind[r] # "none"
  BY <1>1, <1>3 DEF RunInv, HoldInv
<1>5. CASE Saved(c)
  <2>1. Kept(r)'
    BY <1>1, <1>2, <1>3, <1>5, SavedIsKept DEF Saved
  <2> QED BY <1>1, <1>3, <1>4, <2>1 DEF RunInv, Told, Kept
<1>6. CASE Refused(r, c)
  <2>1. faults'[r] = faults[r] + 1 /\ docs' \subseteq docs \cup {c}
    BY <1>6 DEF Refused, May, Put, ReportTypeOK
  <2>2. CASE kind[r] # "risk"
    <3>1. faults'[r] >= 2
      BY <1>1, <1>3, <2>1, <2>2 DEF RunInv
    <3> QED BY <1>1, <1>3, <1>4, <2>2, <3>1 DEF RunInv
  <2>3. CASE kind[r] = "risk"
    <3>1. \A d \in docs : d.by = r => d.id # c.id
      BY <1>1, <1>2, <1>3, <2>3 DEF RunInv
    <3>2. Agree(r)'
      BY <1>3, <2>1, <3>1 DEF Agree
    <3>3. Told(r)'
      BY <1>1, <1>2, <1>3, <2>3, <3>2 DEF Told
    <3> QED BY <1>1, <1>3, <1>4, <2>3, <3>3 DEF RunInv
  <2> QED BY <2>2, <2>3
<1> QED BY <1>1, <1>5, <1>6

\* The persist node.
LEMMA PersistRun ==
    ASSUME StoreInv, HoldInv, ReportTypeOK, NEW r \in Runs, Persist(r)
    PROVE  RunInv(r)'
<1>1. /\ pc[r] = "persist" /\ UNCHANGED <<kind, held, verdict>>
      /\ \/ Saved(held[r]) /\ pc' = [pc EXCEPT ![r] = AfterSave(r)]
         \/ Refused(r, held[r]) /\ pc' = [pc EXCEPT ![r] = "fallback"]
  BY DEF Persist, At, Go
<1>2. /\ held[r].by = r /\ held[r].kind = kind[r] /\ kind[r] \in {"daily", "trade", "risk"}
      /\ RunInv(r) /\ held'[r] = held[r] /\ faults[r] \in Nat
  BY <1>1 DEF HoldInv, Holding, StoreInv, ReportTypeOK
<1>3. verdict'[r] = "open"
  BY <1>1, <1>2 DEF RunInv
<1>4. CASE Saved(held[r]) /\ pc' = [pc EXCEPT ![r] = AfterSave(r)]
  <2>1. Kept(r)'
    BY <1>1, <1>2, <1>4, SavedIsKept DEF Saved
  <2>2. pc'[r] = AfterSave(r)
    BY <1>4 DEF ReportTypeOK
  <2>3. AfterSave(r) = (IF kind[r] = "daily" THEN "resave" ELSE IF kind[r] = "trade" THEN "finalize" ELSE "verdict")
    BY <1>2 DEF AfterSave
  <2> QED BY <1>1, <1>2, <1>3, <2>1, <2>2, <2>3 DEF RunInv, Told, Kept
<1>5. CASE Refused(r, held[r]) /\ pc' = [pc EXCEPT ![r] = "fallback"]
  <2>1. faults'[r] = faults[r] + 1 /\ docs' \subseteq docs \cup {held[r]} /\ pc'[r] = "fallback"
    BY <1>5 DEF Refused, May, Put, ReportTypeOK
  <2>2. kind[r] = "risk" => \A d \in docs' : d.by = r => d.id = <<"uuid", r>>
    BY <1>1, <1>2, <2>1 DEF RunInv
  <2>3. faults'[r] >= 1
    BY <1>2, <2>1
  <2> QED BY <1>1, <1>3, <2>1, <2>2, <2>3 DEF RunInv
<1> QED BY <1>1, <1>4, <1>5

\* Storing the document again.
LEMMA AgainRun ==
    ASSUME StoreInv, HoldInv, ReportTypeOK, NEW r \in Runs, Resave(r) \/ Finalize(r)
    PROVE  RunInv(r)'
<1> DEFINE t == IF pc[r] = "resave" THEN "finalize" ELSE "verdict"
<1>1. /\ pc[r] \in {"resave", "finalize"} /\ UNCHANGED <<kind, held, verdict>>
      /\ pc' = [pc EXCEPT ![r] = t] /\ (Saved(held[r]) \/ Refused(r, held[r]))
  BY DEF Resave, Finalize, At, Go
<1>2. /\ held[r].by = r /\ held[r].kind = kind[r]
      /\ RunInv(r) /\ held'[r] = held[r] /\ pc'[r] = t /\ faults[r] \in Nat
  BY <1>1 DEF HoldInv, Holding, StoreInv, ReportTypeOK
<1>3. verdict'[r] = "open" /\ kind[r] # "risk"
  BY <1>1, <1>2 DEF RunInv
<1>4. CASE Saved(held[r])
  <2>1. Kept(r)'
    BY <1>1, <1>2, <1>4, SavedIsKept DEF Saved
  <2> QED BY <1>1, <1>2, <1>3, <2>1 DEF RunInv, Told
<1>5. CASE Refused(r, held[r])
  <2>1. faults'[r] = faults[r] + 1 /\ docs' \in {docs, Put(held[r])}
    BY <1>5 DEF Refused, May, ReportTypeOK
  <2>2. Kept(r) => Kept(r)'
    BY <1>1, <1>2, <2>1, KeptWhenRefused
  <2>3. CASE Kept(r)
    BY <1>1, <1>2, <1>3, <2>2, <2>3 DEF RunInv, Told
  <2>4. CASE ~Kept(r)
    <3>1. pc[r] = "finalize" /\ faults[r] >= 2
      BY <1>1, <1>2, <2>4 DEF RunInv
    <3>2. faults'[r] >= 3
      BY <1>2, <2>1, <3>1
    <3> QED BY <1>1, <1>2, <1>3, <3>1, <3>2 DEF RunInv, Told
  <2> QED BY <2>3, <2>4
<1> QED BY <1>1, <1>4, <1>5

\* Every step preserves the invariant.
LEMMA StoreNext == HoldInv /\ LevelInv /\ StoreInv /\ [Next]_vars => StoreInv'
<1> SUFFICES ASSUME HoldInv, LevelInv, StoreInv, [Next]_vars PROVE StoreInv'
  OBVIOUS
<1>0. ReportTypeOK
  BY DEF LevelInv
<1>1. CASE UNCHANGED vars
  BY <1>1 DEF StoreInv, RunInv, Told, Kept, Present, Agree, vars, reportVars
<1>2. ASSUME NEW r \in Runs, Step(r) PROVE StoreInv'
  <2>1. ASSUME NEW d, d.by = r, d.kind = kind[r], docs' \in {docs, Put(d)}, kind' = kind, RunInv(r)',
               \A q \in Runs : q # r => /\ pc'[q] = pc[q] /\ held'[q] = held[q]
                                        /\ verdict'[q] = verdict[q] /\ faults'[q] = faults[q]
        PROVE  StoreInv'
    BY <2>1, OthersKeep DEF StoreInv
  <2>2. May(r) \/ Fine => \A q \in Runs : q # r => faults'[q] = faults[q]
    BY <1>0 DEF May, Fine, ReportTypeOK
  <2>3. CASE Gather(r)
    <3>1. PICK s \in Gathering : pc' = [pc EXCEPT ![r] = s]
      BY <2>3, GatherMoves
    <3>2. UNCHANGED <<faults, kind, held, docs, verdict>> /\ pc[r] \in Gathering \cup {"load"}
      BY <2>3, GatherMoves DEF reportVars
    <3>3. s \notin {"persist", "resave", "finalize", "verdict", "done", "fallback", "cards", "stress", "report"}
      BY DEF Gathering
    <3>4. pc[r] \notin {"verdict", "done"}
      BY <3>2 DEF Gathering
    <3> QED BY <1>0, <3>1, <3>2, <3>3, <3>4, QuietRun
  <2>4. CASE BuildPack(r)
    <3>1. /\ pc[r] = "pack" /\ pc' = [pc EXCEPT ![r] = "compose"] /\ UNCHANGED <<kind, held, docs, verdict>>
          /\ May(r) \/ Fine
      BY <2>4 DEF BuildPack, At, Go
    <3> QED BY <1>0, <2>2, <3>1, QuietRun
  <2>5. CASE Compose(r) \/ Ask(r)
    <3>1. UNCHANGED <<pc, faults, kind, held, docs, verdict>>
      BY <2>5 DEF Compose, Ask, reportVars
    <3> QED BY <3>1 DEF StoreInv, RunInv, Told, Kept, Present, Agree
  <2>6. CASE BuildFacts(r)
    <3>1. /\ pc[r] = "load" /\ kind[r] = "risk" /\ pc' = [pc EXCEPT ![r] = "cards"]
          /\ UNCHANGED <<kind, held, docs, verdict>> /\ (May(r) \/ Fine)
      BY <2>6 DEF BuildFacts, At, Go
    <3> QED BY <1>0, <2>2, <3>1, QuietRun
  <2>7. CASE MakeCards(r)
    <3>1. /\ pc[r] = "cards" /\ pc' = [pc EXCEPT ![r] = "stress"]
          /\ UNCHANGED <<kind, held, docs, verdict>> /\ (May(r) \/ Fine)
      BY <2>7 DEF MakeCards, At, Go
    <3>2. kind[r] = "risk"
      BY <3>1 DEF StoreInv, RunInv
    <3> QED BY <1>0, <2>2, <3>1, <3>2, QuietRun
  <2>8. CASE StressTest(r)
    <3>1. /\ pc[r] = "stress" /\ pc' = [pc EXCEPT ![r] = "report"]
          /\ UNCHANGED <<kind, held, docs, verdict>> /\ (May(r) \/ Fine)
      BY <2>8 DEF StressTest, At, Go
    <3>2. kind[r] = "risk"
      BY <3>1 DEF StoreInv, RunInv
    <3> QED BY <1>0, <2>2, <3>1, <3>2, QuietRun
  <2>9. CASE Composed(r)
    <3>1. PICK status : held' = [held EXCEPT ![r] =
                          Document(r, IF kind[r] = "daily" THEN <<"date">> ELSE <<"uuid", r>>, status)]
      BY <2>9 DEF Composed
    <3>2. pc[r] = "compose" /\ pc' = [pc EXCEPT ![r] = "persist"] /\ UNCHANGED <<kind, docs, verdict, faults>>
      BY <2>9 DEF Composed, At, Go, Fine
    <3>3. /\ pc'[r] = "persist" /\ RunInv(r) /\ (kind[r] # "daily" => held'[r].id = <<"uuid", r>>)
          /\ \A q \in Runs : q # r => pc'[q] = pc[q] /\ held'[q] = held[q]
      BY <1>0, <3>1, <3>2, DocumentsAreOnesOwn DEF ReportTypeOK, StoreInv
    <3>4. RunInv(r)'
      BY <3>2, <3>3 DEF RunInv
    <3> QED BY <2>1, <3>2, <3>3, <3>4, DocumentsAreOnesOwn
  <2>10. CASE Report(r)
    <3>1. pc[r] = "report" /\ UNCHANGED <<kind, docs, verdict, faults>> /\ RunInv(r)
      BY <2>10 DEF Report, At, Fine, StoreInv
    <3>2. CASE facts[r] = <<>>
      <4>1. pc' = [pc EXCEPT ![r] = "fallback"] /\ held' = held
        BY <2>10, <3>2 DEF Report, Go
      <4>2. pc'[r] = "fallback" /\ \A q \in Runs : q # r => pc'[q] = pc[q]
        BY <1>0, <4>1 DEF ReportTypeOK
      <4>3. RunInv(r)'
        BY <3>1, <4>1, <4>2 DEF RunInv
      <4> QED BY <2>1, <3>1, <4>1, <4>2, <4>3, DocumentsAreOnesOwn
    <3>3. CASE facts[r] # <<>>
      <4> DEFINE d == [Document(r, <<"uuid", r>>, "success") EXCEPT !.level = ReportLevel(cards[r])]
      <4>1. held' = [held EXCEPT ![r] = d] /\ pc' = [pc EXCEPT ![r] = "persist"]
        BY <2>10, <3>3 DEF Report, Go
      <4>2. d.id = <<"uuid", r>>
        BY DEF Document
      <4> HIDE DEF d
      <4>3. /\ pc'[r] = "persist" /\ held'[r] = d
            /\ \A q \in Runs : q # r => pc'[q] = pc[q] /\ held'[q] = held[q]
        BY <1>0, <4>1 DEF ReportTypeOK
      <4>4. RunInv(r)'
        BY <3>1, <4>2, <4>3 DEF RunInv
      <4> QED BY <2>1, <3>1, <4>3, <4>4, DocumentsAreOnesOwn
    <3> QED BY <3>2, <3>3
  <2>11. CASE Persist(r) \/ Resave(r) \/ Finalize(r)
    <3>1. RunInv(r)'
      BY <1>0, <2>11, PersistRun, AgainRun
    <3>2. Saved(held[r]) \/ Refused(r, held[r])
      BY <2>11 DEF Persist, Resave, Finalize
    <3>3. docs' \in {docs, Put(held[r])} /\ (May(r) \/ Fine)
      BY <3>2 DEF Saved, Refused
    <3>4. pc[r] \in Holding /\ UNCHANGED <<kind, held, verdict>> /\ \E s : pc' = [pc EXCEPT ![r] = s]
      BY <2>11 DEF Persist, Resave, Finalize, At, Go, Holding
    <3>5. held[r].by = r /\ held[r].kind = kind[r]
      BY <3>4 DEF HoldInv
    <3>6. \A q \in Runs : q # r => pc'[q] = pc[q] /\ held'[q] = held[q] /\ verdict'[q] = verdict[q] /\ faults'[q] = faults[q]
      BY <1>0, <2>2, <3>3, <3>4 DEF ReportTypeOK
    <3> QED BY <2>1, <3>1, <3>3, <3>4, <3>5, <3>6
  <2>12. CASE StoreFallback(r)
    <3>1. RunInv(r)'
      BY <1>0, <2>12, FallbackRun
    <3>2. Saved(Conservative(r)) \/ Refused(r, Conservative(r))
      BY <2>12 DEF StoreFallback
    <3>3. docs' \in {docs, Put(Conservative(r))} /\ (May(r) \/ Fine)
      BY <3>2 DEF Saved, Refused
    <3>4. UNCHANGED <<kind, verdict>> /\ held' = [held EXCEPT ![r] = Conservative(r)] /\ \E s : pc' = [pc EXCEPT ![r] = s]
      BY <2>12 DEF StoreFallback, Go
    <3>5. \A q \in Runs : q # r => pc'[q] = pc[q] /\ held'[q] = held[q] /\ verdict'[q] = verdict[q] /\ faults'[q] = faults[q]
      BY <1>0, <2>2, <3>3, <3>4 DEF ReportTypeOK
    <3> QED BY <2>1, <3>1, <3>3, <3>4, <3>5, DocumentsAreOnesOwn
  <2>13. CASE Verdict(r)
    <3> DEFINE v == IF kind[r] = "trade" \/ held[r].status = "success" THEN "completed" ELSE "failed"
    <3>1. /\ pc[r] = "verdict" /\ pc' = [pc EXCEPT ![r] = "done"] /\ verdict' = [verdict EXCEPT ![r] = v]
          /\ UNCHANGED <<kind, held, docs, faults>>
      BY <2>13 DEF Verdict, At, Go
    <3>2. (v = "completed" <=> (kind[r] = "trade" \/ held[r].status = "success")) /\ v # "open"
      OBVIOUS
    <3> HIDE DEF v
    <3>3. /\ pc'[r] = "done" /\ verdict'[r] = v /\ RunInv(r) /\ kind[r] # "none"
          /\ \A q \in Runs : q # r => pc'[q] = pc[q] /\ verdict'[q] = verdict[q]
      BY <1>0, <3>1 DEF ReportTypeOK, StoreInv, HoldInv
    <3>4. Told(r)'
      BY <3>1, <3>3 DEF RunInv, Told, Kept, Present, Agree
    <3>5. RunInv(r)'
      BY <3>1, <3>2, <3>3, <3>4 DEF RunInv
    <3> QED BY <2>1, <3>1, <3>3, <3>5, DocumentsAreOnesOwn
  <2> QED BY <1>2, <2>3, <2>4, <2>5, <2>6, <2>7, <2>8, <2>9, <2>10, <2>11, <2>12, <2>13 DEF Step
<1> QED BY <1>1, <1>2 DEF Next

\* What a task says of its report is true of what is stored, for any number of runs that
\* overlap in any way, as long as no more than two calls of a run raise.
THEOREM VerdictsAreTrue == Spec => []VerdictMatchesStore
<1>1. StoreInv /\ ReportTypeOK => VerdictMatchesStore
  <2> SUFFICES ASSUME StoreInv, ReportTypeOK, NEW r \in Runs, faults[r] <= 2
               PROVE  /\ verdict[r] = "completed" => \E d \in docs : d.kind = kind[r] /\ d.id = held[r].id
                      /\ \A d \in docs :
                           d.by = r /\ d.kind \in {"daily", "risk"} /\ d.id = held[r].id /\ verdict[r] # "open"
                             => (verdict[r] = "completed" <=> d.status = "success")
    BY DEF VerdictMatchesStore
  <2>1. RunInv(r) /\ faults[r] \in Nat /\ \A d \in docs : d.by = r => d.kind = kind[r]
    BY DEF StoreInv, ReportTypeOK
  <2>2. verdict[r] # "open" => Agree(r) /\ (kind[r] # "risk" \/ held[r].status = "success" => Present(r))
    BY <2>1 DEF RunInv, Told, Kept
  <2> QED BY <2>1, <2>2 DEF RunInv, Agree, Present
<1>2. LevelInv => ReportTypeOK
  BY DEF LevelInv
<1> QED BY HoldInit, HoldNext, LevelInit, LevelNext, StoreInit, StoreNext, <1>1, <1>2, PTL DEF Spec

----------------------------------------------------------------------------
(* The conversation with the model *)

\* A set of numbers that is not empty has a least one: with it a fact is proved of all
\* numbers by looking at the least for which it fails.
LEMMA LeastNumber == ASSUME NEW T, T \subseteq Nat, T # {} PROVE \E n \in T : \A m \in T : n <= m
<1> DEFINE Less == {p \in Nat \X Nat : p[1] < p[2]}
<1>1. IsWellFoundedOn(Less, Nat)
  BY NatLessThanWellFounded DEF OpToRel
<1> HIDE DEF Less
<1>2. PICK n \in T : \A m \in T : ~ (<<m, n>> \in Less)
  BY <1>1, WFMin
<1>3. ASSUME NEW m \in T PROVE n <= m
  <2>1. n \in Nat /\ m \in Nat
    OBVIOUS
  <2>2. <<m, n>> \in Less <=> m < n
    BY <2>1 DEF Less
  <2>3. ~ (m < n)
    BY <1>2, <2>2
  <2> QED BY <2>1, <2>3
<1> QED BY <1>3

Numbers(n) == [i \in 1 .. n |-> i]

\* Only one sequence of n different numbers up to n is ordered.
LEMMA OrderedIsNumbers ==
    ASSUME NEW n \in Nat, NEW t \in [1 .. n -> 1 .. n],
           \A i, j \in 1 .. n : i < j => t[i] < t[j]
    PROVE  t = Numbers(n)
<1>1. ASSUME NEW i \in 1 .. n PROVE i <= t[i]
  <2> DEFINE T == {k \in 1 .. n : t[k] < k}
  <2>0. T \subseteq Nat
    OBVIOUS
  <2>1. ASSUME T # {} PROVE FALSE
    <3> HIDE DEF T
    <3>1. PICK k \in T : \A m \in T : k <= m
      BY <2>0, <2>1, LeastNumber
    <3> USE DEF T
    <3>2. k \in 1 .. n /\ t[k] < k /\ t[k] \in 1 .. n
      OBVIOUS
    <3>3. k - 1 \in 1 .. n /\ ~ (k <= k - 1)
      BY <3>2
    <3>4. k - 1 \notin T
      BY <3>1, <3>3
    <3>5. t[k - 1] \in 1 .. n /\ t[k - 1] >= k - 1 /\ t[k - 1] < t[k]
      BY <3>2, <3>3, <3>4
    <3> QED BY <3>2, <3>5
  <2> QED BY <2>1
<1>2. ASSUME NEW i \in 1 .. n PROVE t[i] <= i
  <2> DEFINE T == {k \in 0 .. n - 1 : t[n - k] > n - k}
  <2>0. T \subseteq Nat
    OBVIOUS
  <2>1. ASSUME T # {} PROVE FALSE
    <3> HIDE DEF T
    <3>1. PICK k \in T : \A m \in T : k <= m
      BY <2>0, <2>1, LeastNumber
    <3> USE DEF T
    <3>2. k \in 0 .. n - 1 /\ n - k \in 1 .. n /\ t[n - k] > n - k /\ t[n - k] \in 1 .. n
      OBVIOUS
    <3>3. k - 1 \in 0 .. n - 1 /\ ~ (k <= k - 1)
      BY <3>2
    <3>4. k - 1 \notin T
      BY <3>1, <3>3
    <3>5. n - (k - 1) \in 1 .. n /\ n - (k - 1) = n - k + 1 /\ n - k < n - (k - 1)
      BY <3>2, <3>3
    <3>6. t[n - (k - 1)] \in 1 .. n /\ t[n - (k - 1)] <= n - (k - 1) /\ t[n - k] < t[n - (k - 1)]
      BY <3>2, <3>3, <3>4, <3>5
    <3> QED BY <3>2, <3>5, <3>6
  <2>2. n - i \in 0 .. n - 1 /\ n - (n - i) = i
    OBVIOUS
  <2>3. n - i \notin T
    BY <2>1
  <2>4. ~ (t[i] > i)
    BY <2>2, <2>3
  <2> QED BY <2>4
<1>3. ASSUME NEW i \in 1 .. n PROVE t[i] = i
  <2>1. t[i] \in 1 .. n
    OBVIOUS
  <2> QED BY <1>1, <1>2, <2>1
<1> QED BY <1>3 DEF Numbers

Talks == Seq([role : {"assistant", "tool"}, ids : Seq(Nat)])

\* The first k messages of a conversation answer each of their calls, in order.
Answered(talk, k) ==
    \A i \in 1 .. k : talk[i].role = "assistant" =>
       /\ i + Len(talk[i].ids) <= k
       /\ \A j \in DOMAIN talk[i].ids : talk[i + j] = Tool(talk[i].ids[j])
       /\ i + Len(talk[i].ids) < k => talk[i + Len(talk[i].ids) + 1].role = "assistant"

\* While tools run, what precedes the last message is answered; the calls that have
\* ended are as many as they are different.
Running(l, n, m) ==
    /\ n \in Nat /\ m \in Nat
    /\ Len(l.talk) > 0 /\ Answered(l.talk, Len(l.talk) - 1)
    /\ l.talk[Len(l.talk)] = Assistant(Numbers(n)) /\ l.calls = Numbers(m)
    /\ ~l.bad => m = n
    /\ l.arrived \in Seq(1 .. m) /\ Cardinality(Range(l.arrived)) = Len(l.arrived)

TalkOK(l) ==
    /\ DOMAIN l = DOMAIN Off
    /\ l.talk \in Talks
    /\ l.at \in {"ask", "synthesis"} => Answered(l.talk, Len(l.talk))
    /\ l.at = "tools" => \E n, m : Running(l, n, m)

TalkInv == loop = [r \in Runs |-> loop[r]] /\ \A r \in Runs : TalkOK(loop[r])

\* The tools have all ended: sorted, the executions are those of the message.
LEMMA AllInOrder ==
    ASSUME NEW r, NEW n, NEW m, Running(loop[r], n, m), Ended(r)
    PROVE  InOrder(r) = Numbers(m)
<1> DEFINE l == loop[r]
<1>1. m \in Nat /\ l.calls = Numbers(m) /\ l.arrived \in Seq(1 .. m)
      /\ Cardinality(Range(l.arrived)) = Len(l.arrived) /\ Len(l.arrived) = Len(l.calls)
  BY DEF Running, Ended
<1> HIDE DEF l
<1>2. Len(l.calls) = m /\ DOMAIN l.calls = 1 .. m /\ \A i \in 1 .. m : l.calls[i] = i
  BY <1>1 DEF Numbers
<1>3. DOMAIN l.arrived = 1 .. m
  BY <1>1, <1>2
<1>4. Range(l.arrived) = 1 .. m
  <2>1. IsFiniteSet(1 .. m) /\ Cardinality(1 .. m) = m
    <3>1. m \in Int /\ 1 \in Int
      BY <1>1
    <3>2. IsFiniteSet(1 .. m) /\ Cardinality(1 .. m) = IF 1 > m THEN 0 ELSE m - 1 + 1
      BY <3>1, FS_Interval
    <3> QED BY <1>1, <3>2
  <2>2. Range(l.arrived) \in SUBSET (1 .. m)
    BY <1>1, <1>3 DEF Range
  <2>3. Cardinality(Range(l.arrived)) = Cardinality(1 .. m)
    BY <1>1, <1>2, <2>1
  <2> QED BY <2>1, <2>2, <2>3, FS_Subset
<1>5. ASSUME NEW i \in 1 .. m PROVE Place(r, i) = i
  <2>1. Place(r, i) = CHOOSE k \in DOMAIN l.calls : l.calls[k] = i
    BY DEF Place, l
  <2> QED BY <1>2, <2>1
<1> DEFINE Sorted(s) == /\ Range(s) = Range(l.arrived)
                        /\ \A i, j \in DOMAIN s : i < j => Place(r, s[i]) < Place(r, s[j])
           S == [DOMAIN l.arrived -> Range(l.arrived)]
<1>6. InOrder(r) = CHOOSE s \in S : Sorted(s)
  BY DEF InOrder, l
<1>7. Numbers(m) \in S /\ Sorted(Numbers(m))
  <2>1. DOMAIN Numbers(m) = 1 .. m /\ \A i \in 1 .. m : Numbers(m)[i] = i
    BY DEF Numbers
  <2>2. Numbers(m) \in S
    BY <1>3, <1>4 DEF Numbers
  <2>3. Range(Numbers(m)) = 1 .. m
    BY <2>1 DEF Range
  <2>4. ASSUME NEW i \in 1 .. m, NEW j \in 1 .. m, i < j PROVE Place(r, Numbers(m)[i]) < Place(r, Numbers(m)[j])
    BY <1>5, <2>1, <2>4
  <2> QED BY <1>4, <2>1, <2>2, <2>3, <2>4
<1> HIDE DEF S, Sorted
<1>8. InOrder(r) \in S /\ Sorted(InOrder(r))
  BY <1>6, <1>7
<1> DEFINE t == InOrder(r)
<1>9. t \in [1 .. m -> 1 .. m]
  BY <1>3, <1>4, <1>8 DEF S
<1>10. ASSUME NEW i \in 1 .. m, NEW j \in 1 .. m, i < j PROVE t[i] < t[j]
  <2> HIDE DEF t
  <2>1. t[i] \in 1 .. m /\ t[j] \in 1 .. m /\ DOMAIN t = 1 .. m
    BY <1>9
  <2>2. Place(r, t[i]) < Place(r, t[j])
    BY <1>8, <1>10, <2>1 DEF Sorted, t
  <2> QED BY <1>5, <2>1, <2>2
<1> HIDE DEF t
<1>11. t = Numbers(m)
  BY <1>1, <1>9, <1>10, OrderedIsNumbers
<1> QED BY <1>11 DEF t

LEMMA FieldsOfALoop ==
    DOMAIN Off = {"at", "tools", "round", "rounds", "talk", "calls", "arrived", "bad", "valid", "repairs", "answer"}
BY DEF Off

LEMMA OneTalk ==
    ASSUME TalkInv, NEW r \in Runs, NEW l, TalkOK(l), loop' = [loop EXCEPT ![r] = l]
    PROVE  TalkInv'
<1>1. loop' = [q \in Runs |-> IF q = r THEN l ELSE loop[q]]
  BY DEF TalkInv
<1>2. ASSUME NEW q \in Runs PROVE TalkOK(loop'[q])
  BY <1>1 DEF TalkInv
<1>3. loop' = [q \in Runs |-> loop'[q]]
  BY <1>1
<1> QED BY <1>2, <1>3 DEF TalkInv

\* A loop that starts, or is over, has nothing to answer.
LEMMA NewTalk ==
    ASSUME NEW tools, NEW rounds, NEW repairs
    PROVE  TalkOK(Off) /\ TalkOK(Open(tools, rounds, repairs))
<1>1. DOMAIN Off = DOMAIN Open(tools, rounds, repairs) /\ Off.at = "off" /\ Off.talk = <<>>
      /\ Open(tools, rounds, repairs).at = "ask" /\ Open(tools, rounds, repairs).talk = <<>>
  BY DEF Off, Open
<1>2. <<>> \in Talks /\ Answered(<<>>, Len(<<>>))
  BY DEF Talks, Answered
<1> QED BY <1>1, <1>2 DEF TalkOK

LEMMA MessageTalk ==
    ASSUME NEW t \in Talks, NEW i \in 1 .. Len(t)
    PROVE  t[i].ids \in Seq(Nat) /\ DOMAIN t[i].ids = 1 .. Len(t[i].ids) /\ Len(t[i].ids) \in Nat
<1> DEFINE M == [role : {"assistant", "tool"}, ids : Seq(Nat)]
<1>1. t \in Seq(M)
  BY DEF Talks
<1> HIDE DEF M
<1>2. t[i] \in M
  BY <1>1
<1>3. t[i].ids \in Seq(Nat)
  BY <1>2 DEF M
<1> QED BY <1>3

\* Of a message with calls the tools are about to run; the conversation before it is
\* answered, and goes on with a message of the assistant.
LEMMA CalledTalk ==
    ASSUME NEW old, TalkOK(old), old.at = "ask", NEW n \in 1 .. MaxCalls, NEW bad \in BOOLEAN
    PROVE  TalkOK([old EXCEPT !.at = "tools", !.talk = Append(@, Assistant(Numbers(n))), !.arrived = <<>>,
                              !.calls = IF bad THEN Front(Numbers(n)) ELSE Numbers(n), !.bad = bad])
<1> DEFINE l == [old EXCEPT !.at = "tools", !.talk = Append(@, Assistant(Numbers(n))), !.arrived = <<>>,
                            !.calls = IF bad THEN Front(Numbers(n)) ELSE Numbers(n), !.bad = bad]
           m == IF bad THEN n - 1 ELSE n
<1>1. /\ DOMAIN l = DOMAIN Off /\ l.at = "tools" /\ l.talk = Append(old.talk, Assistant(Numbers(n)))
      /\ l.arrived = <<>> /\ l.calls = (IF bad THEN Front(Numbers(n)) ELSE Numbers(n)) /\ l.bad = bad
  BY FieldsOfALoop DEF TalkOK
<1> HIDE DEF l
<1>2. old.talk \in Talks /\ Answered(old.talk, Len(old.talk))
  BY DEF TalkOK
<1>3. n \in Nat /\ m \in Nat /\ (~bad => m = n)
  BY LoopAssumption
<1>4. Assistant(Numbers(n)) \in [role : {"assistant", "tool"}, ids : Seq(Nat)]
  <2>1. Numbers(n) \in Seq(Nat)
    BY <1>3 DEF Numbers
  <2> QED BY <2>1 DEF Assistant
<1>5. /\ l.talk \in Talks /\ Len(old.talk) \in Nat /\ Len(l.talk) = Len(old.talk) + 1
      /\ \A i \in 1 .. Len(old.talk) : l.talk[i] = old.talk[i]
      /\ l.talk[Len(old.talk) + 1] = Assistant(Numbers(n))
  <2> HIDE DEF m
  <2> QED BY <1>1, <1>2, <1>4 DEF Talks
<1>6. l.calls = Numbers(m)
  <2>1. CASE bad
    <3>1. Numbers(n) \in Seq(Nat) /\ Len(Numbers(n)) = n
      BY <1>3 DEF Numbers
    <3>2. Front(Numbers(n)) = [i \in 1 .. n - 1 |-> Numbers(n)[i]]
      BY <1>3, <3>1 DEF Front
    <3>3. \A i \in 1 .. n - 1 : Numbers(n)[i] = i
      BY <1>3 DEF Numbers
    <3> QED BY <1>1, <2>1, <3>2, <3>3 DEF Numbers
  <2> QED BY <1>1, <2>1
<1>7. Answered(l.talk, Len(l.talk) - 1)
  <2> DEFINE k == Len(old.talk)
  <2>1. k \in Nat /\ Len(l.talk) - 1 = k
    BY <1>5
  <2>2. \A i \in 1 .. k : l.talk[i] = old.talk[i]
    BY <1>5
  <2> HIDE DEF k
  <2> SUFFICES ASSUME NEW i \in 1 .. k, l.talk[i].role = "assistant"
               PROVE  /\ i + Len(l.talk[i].ids) <= k
                      /\ \A j \in DOMAIN l.talk[i].ids : l.talk[i + j] = Tool(l.talk[i].ids[j])
                      /\ i + Len(l.talk[i].ids) < k => l.talk[i + Len(l.talk[i].ids) + 1].role = "assistant"
    BY <2>1 DEF Answered
  <2> DEFINE ids == old.talk[i].ids
  <2>3. /\ i + Len(ids) <= k
        /\ \A j \in DOMAIN ids : old.talk[i + j] = Tool(ids[j])
        /\ i + Len(ids) < k => old.talk[i + Len(ids) + 1].role = "assistant"
    BY <1>2, <2>2 DEF Answered, k
  <2>4. ids \in Seq(Nat) /\ DOMAIN ids = 1 .. Len(ids) /\ Len(ids) \in Nat /\ l.talk[i].ids = ids
    BY <1>2, <2>2, MessageTalk DEF k
  <2> HIDE DEF ids
  <2>5. ASSUME NEW j \in DOMAIN ids PROVE l.talk[i + j] = Tool(ids[j])
    <3>1. i + j \in 1 .. k
      BY <2>1, <2>3, <2>4
    <3> QED BY <2>2, <2>3, <3>1
  <2>6. ASSUME i + Len(ids) < k PROVE l.talk[i + Len(ids) + 1].role = "assistant"
    <3>1. i + Len(ids) + 1 \in 1 .. k
      BY <2>1, <2>4, <2>6
    <3> QED BY <2>2, <2>3, <2>6, <3>1
  <2> QED BY <2>3, <2>4, <2>5, <2>6
<1>8. l.arrived \in Seq(1 .. m) /\ Cardinality(Range(l.arrived)) = Len(l.arrived)
  <2>1. Range(<<>>) = {} /\ Len(<<>>) = 0
    BY DEF Range
  <2>2. Cardinality({}) = 0
    BY FS_EmptySet
  <2>3. <<>> \in Seq(1 .. m)
    OBVIOUS
  <2>4. Cardinality(Range(<<>>)) = Len(<<>>)
    BY <2>1, <2>2
  <2> QED BY <1>1, <2>3, <2>4
<1>9. Running(l, n, m)
  <2> HIDE DEF m
  <2>1. Len(l.talk) > 0 /\ l.talk[Len(l.talk)] = Assistant(Numbers(n))
    BY <1>5
  <2> QED BY <1>1, <1>3, <1>6, <1>7, <1>8, <2>1 DEF Running
<1>10. TalkOK(l)
  BY <1>1, <1>5, <1>9 DEF TalkOK
<1> QED BY <1>10 DEF l

\* One more call has ended.
LEMMA ArrivedTalk ==
    ASSUME NEW old, TalkOK(old), old.at = "tools", NEW call \in Range(old.calls) \ Range(old.arrived)
    PROVE  TalkOK([old EXCEPT !.arrived = Append(@, call)])
<1> DEFINE l == [old EXCEPT !.arrived = Append(@, call)]
<1>1. /\ DOMAIN l = DOMAIN Off /\ l.at = "tools" /\ l.talk = old.talk /\ l.bad = old.bad /\ l.calls = old.calls
      /\ l.arrived = Append(old.arrived, call)
  BY FieldsOfALoop DEF TalkOK
<1> HIDE DEF l
<1>2. PICK n, m : Running(old, n, m)
  BY DEF TalkOK
<1>3. m \in Nat /\ old.arrived \in Seq(1 .. m) /\ old.calls = Numbers(m)
      /\ Cardinality(Range(old.arrived)) = Len(old.arrived)
  BY <1>2 DEF Running
<1>4. call \in 1 .. m
  BY <1>3 DEF Range, Numbers
<1>5. l.arrived \in Seq(1 .. m) /\ Len(l.arrived) = Len(old.arrived) + 1
  BY <1>1, <1>3, <1>4
<1>6. Range(l.arrived) = Range(old.arrived) \cup {call}
  <2> DEFINE k == Len(old.arrived)
  <2>1. k \in Nat /\ DOMAIN old.arrived = 1 .. k /\ DOMAIN l.arrived = 1 .. k + 1
    BY <1>3, <1>5
  <2>2. l.arrived[k + 1] = call /\ \A i \in 1 .. k : l.arrived[i] = old.arrived[i]
    BY <1>1, <1>3, <1>4
  <2> HIDE DEF k
  <2>3. 1 .. k + 1 = (1 .. k) \cup {k + 1}
    BY <2>1
  <2> QED BY <2>1, <2>2, <2>3 DEF Range
<1>7. Cardinality(Range(l.arrived)) = Len(l.arrived)
  <2>1. IsFiniteSet(Range(old.arrived))
    <3>1. Range(old.arrived) \in SUBSET (1 .. m)
      BY <1>3 DEF Range
    <3>2. IsFiniteSet(1 .. m)
      BY <1>3, FS_Interval
    <3> QED BY <3>1, <3>2, FS_Subset
  <2>2. Cardinality(Range(old.arrived) \cup {call}) = Cardinality(Range(old.arrived)) + 1
    BY <2>1, FS_AddElement
  <2> QED BY <1>3, <1>5, <1>6, <2>2
<1>8. Running(l, n, m)
  BY <1>1, <1>2, <1>5, <1>7 DEF Running
<1>9. TalkOK(l)
  BY <1>1, <1>8 DEF TalkOK
<1> QED BY <1>9 DEF l

\* The results complete the conversation.
LEMMA CollectedTalk ==
    ASSUME NEW r \in Runs, TalkOK(loop[r]), loop[r].at = "tools", Ended(r), ~loop[r].bad
    PROVE  TalkOK([loop[r] EXCEPT !.at = "ask", !.round = @ + 1, !.calls = <<>>, !.arrived = <<>>,
                                  !.talk = @ \o [i \in DOMAIN InOrder(r) |-> Tool(InOrder(r)[i])]])
<1> DEFINE old == loop[r]
           l == [loop[r] EXCEPT !.at = "ask", !.round = @ + 1, !.calls = <<>>, !.arrived = <<>>,
                                !.talk = @ \o [i \in DOMAIN InOrder(r) |-> Tool(InOrder(r)[i])]]
           results == [i \in DOMAIN InOrder(r) |-> Tool(InOrder(r)[i])]
           k == Len(old.talk)
<1>1. DOMAIN l = DOMAIN Off /\ l.at = "ask" /\ l.talk = old.talk \o results
  BY FieldsOfALoop DEF TalkOK
<1> HIDE DEF l
<1>2. PICK n, m : Running(loop[r], n, m)
  BY DEF TalkOK
<1>3. /\ n \in Nat /\ k > 0 /\ Answered(old.talk, k - 1) /\ old.talk[k] = Assistant(Numbers(n)) /\ m = n
  BY <1>2 DEF Running
<1>4. InOrder(r) = Numbers(n)
  BY <1>2, <1>3, AllInOrder
<1>5. results = [i \in 1 .. n |-> Tool(i)]
  BY <1>4 DEF Numbers
<1> HIDE DEF results
<1>6. old.talk \in Talks /\ k \in Nat
  BY DEF TalkOK, Talks
<1>7. results \in Talks /\ Len(results) = n
  <2> DEFINE M == [role : {"assistant", "tool"}, ids : Seq(Nat)]
  <2>1. ASSUME NEW i \in 1 .. n PROVE Tool(i) \in M
    BY <1>3 DEF Tool
  <2> HIDE DEF M
  <2>2. results \in Seq(M) /\ Len(results) = n
    BY <1>3, <1>5, <2>1
  <2> QED BY <2>2 DEF Talks, M
<1>8. /\ l.talk \in Talks /\ Len(l.talk) = k + n
      /\ \A i \in 1 .. k : l.talk[i] = old.talk[i]
      /\ \A i \in 1 .. n : l.talk[k + i] = Tool(i)
  <2> DEFINE M == [role : {"assistant", "tool"}, ids : Seq(Nat)]
  <2>1. old.talk \in Seq(M) /\ results \in Seq(M)
    BY <1>6, <1>7 DEF Talks
  <2> HIDE DEF M
  <2>2. old.talk \o results \in Seq(M) /\ Len(old.talk \o results) = k + n
    BY <1>7, <2>1
  <2>3. \A i \in 1 .. k : (old.talk \o results)[i] = old.talk[i]
    BY <1>7, <2>1
  <2>4. \A i \in 1 .. n : (old.talk \o results)[k + i] = results[i]
    BY <1>3, <1>6, <1>7, <2>1
  <2>5. \A i \in 1 .. n : results[i] = Tool(i)
    BY <1>5
  <2> QED BY <1>1, <2>2, <2>3, <2>4, <2>5 DEF Talks, M
<1> HIDE DEF k, old
<1>9. Answered(l.talk, k + n)
  <2> SUFFICES ASSUME NEW i \in 1 .. k + n, l.talk[i].role = "assistant"
               PROVE  /\ i + Len(l.talk[i].ids) <= k + n
                      /\ \A j \in DOMAIN l.talk[i].ids : l.talk[i + j] = Tool(l.talk[i].ids[j])
                      /\ i + Len(l.talk[i].ids) < k + n => l.talk[i + Len(l.talk[i].ids) + 1].role = "assistant"
    BY DEF Answered
  <2> DEFINE ids == l.talk[i].ids
  <2>0. DOMAIN ids = 1 .. Len(ids) /\ Len(ids) \in Nat
    BY <1>8, MessageTalk
  <2>1. CASE i < k
    <3>1. i \in 1 .. k - 1 /\ i \in 1 .. k /\ l.talk[i] = old.talk[i]
      BY <1>3, <1>6, <1>8, <2>1
    <3>2. /\ i + Len(ids) <= k - 1
          /\ \A j \in DOMAIN ids : old.talk[i + j] = Tool(ids[j])
          /\ i + Len(ids) < k - 1 => old.talk[i + Len(ids) + 1].role = "assistant"
      BY <1>3, <3>1 DEF Answered
    <3> HIDE DEF ids
    <3>3. ASSUME NEW j \in DOMAIN ids PROVE l.talk[i + j] = Tool(ids[j])
      <4>1. i + j \in 1 .. k
        BY <1>6, <2>0, <3>1, <3>2
      <4> QED BY <1>8, <3>2, <4>1
    <3>4. l.talk[i + Len(ids) + 1].role = "assistant"
      <4>1. i + Len(ids) + 1 \in 1 .. k
        BY <1>6, <2>0, <3>1, <3>2
      <4>2. CASE i + Len(ids) < k - 1
        BY <1>8, <3>2, <4>1, <4>2
      <4>3. CASE i + Len(ids) = k - 1
        <5>1. i + Len(ids) + 1 = k
          BY <1>6, <2>0, <4>3
        <5>2. k \in 1 .. k
          BY <1>3, <1>6
        <5>3. l.talk[k] = Assistant(Numbers(n))
          BY <1>3, <1>8, <5>2
        <5>4. l.talk[k].role = "assistant"
          BY <5>3 DEF Assistant
        <5> QED BY <5>1, <5>4
      <4> QED BY <1>6, <2>0, <3>2, <4>2, <4>3
    <3>5. i + Len(ids) <= k + n
      BY <1>3, <1>6, <2>0, <3>1, <3>2
    <3> QED BY <3>3, <3>4, <3>5 DEF ids
  <2>2. CASE i = k
    <3>1. k \in 1 .. k /\ l.talk[i] = Assistant(Numbers(n))
      BY <1>3, <1>6, <1>8, <2>2
    <3>2. ids = Numbers(n) /\ Len(ids) = n /\ DOMAIN ids = 1 .. n /\ \A j \in 1 .. n : ids[j] = j
      <4>1. ids = Numbers(n)
        BY <3>1 DEF Assistant
      <4> QED BY <1>3, <4>1 DEF Numbers
    <3>3. \A j \in DOMAIN ids : l.talk[i + j] = Tool(ids[j])
      BY <1>8, <2>2, <3>2
    <3>4. ~(i + Len(ids) < k + n) /\ i + Len(ids) <= k + n
      BY <1>3, <1>6, <2>2, <3>2
    <3> QED BY <3>3, <3>4
  <2>3. CASE i > k
    <3>1. i - k \in 1 .. n /\ k + (i - k) = i
      BY <1>3, <1>6, <2>3
    <3>2. l.talk[i] = Tool(i - k)
      BY <1>8, <3>1
    <3> QED BY <3>2 DEF Tool
  <2> QED BY <1>6, <2>1, <2>2, <2>3
<1>10. TalkOK(l)
  BY <1>1, <1>8, <1>9 DEF TalkOK
<1> QED BY <1>10 DEF l

\* The other steps of a loop leave the conversation alone, or end it.
LEMMA SameTalk ==
    ASSUME NEW old, TalkOK(old), NEW l, DOMAIN l = DOMAIN Off, l.talk = old.talk,
           \/ l.at \notin {"ask", "synthesis", "tools"}
           \/ old.at \in {"ask", "synthesis"} /\ l.at # "tools"
    PROVE  TalkOK(l)
BY DEF TalkOK

LEMMA LoopStepTalks == ASSUME TalkInv, NEW r \in Runs, LoopStep(r) PROVE TalkInv'
<1> DEFINE old == loop[r]
<1>1. TalkOK(old) /\ DOMAIN old = DOMAIN Off
  BY DEF TalkInv, TalkOK
<1>2. ASSUME NEW l, TalkOK(l), Become(r, l) PROVE TalkInv'
  BY <1>2, OneTalk DEF Become
<1>3. ASSUME NEW at, at # "tools", old.at = "ask" \/ at \notin {"ask", "synthesis"}
      PROVE  TalkOK([loop[r] EXCEPT !.at = at])
  <2> DEFINE l == [loop[r] EXCEPT !.at = at]
  <2>1. DOMAIN l = DOMAIN Off /\ l.talk = old.talk /\ l.at = at
    BY <1>1, FieldsOfALoop
  <2> HIDE DEF l
  <2>2. TalkOK(l)
    BY <1>1, <1>3, <2>1, SameTalk
  <2> QED BY <2>2 DEF l
<1>4. ASSUME NEW valid PROVE TalkOK([loop[r] EXCEPT !.at = "answer", !.valid = valid])
  <2> DEFINE l == [loop[r] EXCEPT !.at = "answer", !.valid = valid]
  <2>1. DOMAIN l = DOMAIN Off /\ l.talk = old.talk /\ l.at = "answer"
    BY <1>1, FieldsOfALoop
  <2> HIDE DEF l
  <2>2. TalkOK(l)
    BY <1>1, <2>1, SameTalk
  <2> QED BY <2>2 DEF l
<1>5. ASSUME NEW answer PROVE TalkOK([loop[r] EXCEPT !.at = "done", !.answer = answer])
  <2> DEFINE l == [loop[r] EXCEPT !.at = "done", !.answer = answer]
  <2>1. DOMAIN l = DOMAIN Off /\ l.talk = old.talk /\ l.at = "done"
    BY <1>1, FieldsOfALoop
  <2> HIDE DEF l
  <2>2. TalkOK(l)
    BY <1>1, <2>1, SameTalk
  <2> QED BY <2>2 DEF l
<1>6. CASE Raise(r)
  <2>1. old.at = "ask" /\ \E at \in {"synthesis", "raised"} : Become(r, [loop[r] EXCEPT !.at = at])
    BY <1>6 DEF Raise, LoopAt
  <2> QED BY <1>2, <1>3, <2>1
<1>7. CASE Answer(r) \/ Synthesize(r)
  <2>1. \/ \E valid : Become(r, [loop[r] EXCEPT !.at = "answer", !.valid = valid])
        \/ Become(r, [loop[r] EXCEPT !.at = "raised"])
    BY <1>7 DEF Answer, Synthesize
  <2> QED BY <1>2, <1>3, <1>4, <2>1
<1>8. CASE Call(r)
  <2>1. PICK calls \in Messages, bad \in BOOLEAN :
          Become(r, IF Final(r) THEN [loop[r] EXCEPT !.at = "synthesis"]
                    ELSE [loop[r] EXCEPT !.at = "tools", !.talk = Append(@, Assistant(calls)), !.arrived = <<>>,
                                         !.calls = IF bad THEN Front(calls) ELSE calls, !.bad = bad])
    BY <1>8 DEF Call
  <2>2. PICK n \in 1 .. MaxCalls : calls = Numbers(n)
    BY DEF Messages, Numbers
  <2>3. old.at = "ask"
    BY <1>8 DEF Call, LoopAt
  <2>4. CASE Final(r)
    BY <1>2, <1>3, <2>1, <2>3, <2>4
  <2>5. CASE ~Final(r)
    <3> DEFINE l == [old EXCEPT !.at = "tools", !.talk = Append(@, Assistant(Numbers(n))), !.arrived = <<>>,
                                !.calls = IF bad THEN Front(Numbers(n)) ELSE Numbers(n), !.bad = bad]
    <3>1. TalkOK(l)
      BY <1>1, <2>3, CalledTalk
    <3>2. Become(r, l)
      BY <2>1, <2>2, <2>5
    <3> HIDE DEF l
    <3> QED BY <1>2, <3>1, <3>2
  <2> QED BY <2>4, <2>5
<1>9. CASE ToolEnds(r)
  <2>1. PICK call \in Range(old.calls) \ Range(old.arrived) : Become(r, [old EXCEPT !.arrived = Append(@, call)])
    BY <1>9 DEF ToolEnds
  <2>2. TalkOK([old EXCEPT !.arrived = Append(@, call)])
    BY <1>1, <1>9, ArrivedTalk DEF ToolEnds, LoopAt
  <2> QED BY <1>2, <2>1, <2>2
<1>10. CASE Collect(r)
  <2>1. old.at = "tools" /\ Ended(r)
    BY <1>10 DEF Collect, LoopAt
  <2>2. CASE old.bad
    <3>1. Become(r, [loop[r] EXCEPT !.at = "raised"])
      BY <1>10, <2>2 DEF Collect
    <3> QED BY <1>2, <1>3, <3>1
  <2>3. CASE ~old.bad
    <3> DEFINE l == [loop[r] EXCEPT !.at = "ask", !.round = @ + 1, !.calls = <<>>, !.arrived = <<>>,
                                    !.talk = @ \o [i \in DOMAIN InOrder(r) |-> Tool(InOrder(r)[i])]]
    <3>1. Become(r, l)
      BY <1>10, <2>3 DEF Collect
    <3>2. TalkOK(l)
      BY <1>1, <2>1, <2>3, CollectedTalk
    <3> HIDE DEF l
    <3> QED BY <1>2, <3>1, <3>2
  <2> QED BY <2>2, <2>3
<1>11. CASE Accept(r) \/ Replace(r)
  <2>1. \E answer : Become(r, [loop[r] EXCEPT !.at = "done", !.answer = answer])
    BY <1>11 DEF Accept, Replace
  <2> QED BY <1>2, <1>5, <2>1
<1>12. CASE Repair(r)
  <2>1. PICK valid : Become(r, [loop[r] EXCEPT !.repairs = @ - 1, !.valid = valid])
    BY <1>12 DEF Repair
  <2> DEFINE l == [loop[r] EXCEPT !.repairs = @ - 1, !.valid = valid]
  <2>2. DOMAIN l = DOMAIN Off /\ l.talk = old.talk /\ l.at = "answer"
    BY <1>1, <1>12, FieldsOfALoop DEF Repair, LoopAt
  <2> HIDE DEF l
  <2>3. TalkOK(l)
    BY <1>1, <2>2, SameTalk
  <2> QED BY <1>2, <2>1, <2>3 DEF l
<1> QED BY <1>6, <1>7, <1>8, <1>9, <1>10, <1>11, <1>12 DEF LoopStep

LEMMA TalkInit == Init => TalkInv
<1> SUFFICES ASSUME Init PROVE TalkInv
  OBVIOUS
<1>1. loop = [r \in Runs |-> Off]
  BY DEF Init, LoopInit
<1>2. TalkOK(Off)
  BY NewTalk
<1> QED BY <1>1, <1>2 DEF TalkInv

LEMMA TalkNext == TalkInv /\ [Next]_vars => TalkInv'
<1> SUFFICES ASSUME TalkInv, [Next]_vars PROVE TalkInv'
  OBVIOUS
<1>0. ASSUME UNCHANGED loop PROVE TalkInv'
  BY <1>0 DEF TalkInv
<1>1. CASE UNCHANGED vars
  BY <1>0, <1>1 DEF vars
<1>2. ASSUME NEW r \in Runs, Step(r) PROVE TalkInv'
  <2>1. CASE Compose(r)
    <3>1. PICK tools, rounds, repairs : Become(r, Open(tools, rounds, repairs))
      BY <2>1 DEF Compose
    <3> QED BY <3>1, NewTalk, OneTalk DEF Become
  <2>2. CASE Composed(r)
    BY <2>2, NewTalk, OneTalk DEF Composed
  <2>3. CASE Ask(r)
    BY <2>3, LoopStepTalks DEF Ask
  <2>4. CASE Gather(r) \/ BuildPack(r) \/ BuildFacts(r) \/ MakeCards(r) \/ StressTest(r) \/ Report(r)
    BY <1>0, <2>4 DEF Gather, BuildPack, BuildFacts, MakeCards, StressTest, Report
  <2>5. CASE Persist(r) \/ StoreFallback(r) \/ Resave(r) \/ Finalize(r) \/ Verdict(r)
    BY <1>0, <2>5 DEF Persist, StoreFallback, Resave, Finalize, Verdict
  <2> QED BY <1>2, <2>1, <2>2, <2>3, <2>4, <2>5 DEF Step
<1> QED BY <1>1, <1>2 DEF Next

\* Whenever the model is asked, each of its calls has been answered once, directly after
\* the message that makes it and in the order of the calls: for any number of calls in a
\* message and of messages, in whatever order the tools end.
THEOREM EveryCallIsAnswered == Spec => []CallsAnswered
<1>1. TalkInv => CallsAnswered
  <2> SUFFICES ASSUME TalkInv, NEW r \in Runs, loop[r].at \in {"ask", "synthesis"}, NEW i \in DOMAIN loop[r].talk,
                      loop[r].talk[i].role = "assistant"
               PROVE  /\ i + Len(loop[r].talk[i].ids) <= Len(loop[r].talk)
                      /\ \A j \in DOMAIN loop[r].talk[i].ids : loop[r].talk[i + j] = Tool(loop[r].talk[i].ids[j])
                      /\ i + Len(loop[r].talk[i].ids) < Len(loop[r].talk)
                           => loop[r].talk[i + Len(loop[r].talk[i].ids) + 1].role = "assistant"
    BY DEF CallsAnswered
  <2>1. loop[r].talk \in Talks /\ Answered(loop[r].talk, Len(loop[r].talk))
    BY DEF TalkInv, TalkOK
  <2>2. i \in 1 .. Len(loop[r].talk)
    BY <2>1 DEF Talks
  <2> QED BY <2>1, <2>2 DEF Answered
<1> QED BY TalkInit, TalkNext, <1>1, PTL DEF Spec
=============================================================================
