--------------------------- MODULE Selection_proofs ---------------------------
(* Facts about what the graph knows of a client's entities, used by the proofs *)
(* about the replication graph and about the server runtime.                   *)
EXTENDS Selection, Folds_proofs

-------------------------------------------------------------------------------
(* The operators on a client's state keep its type. *)

LEMMA NewClientType == NewClient \in ClientState
BY DEF NewClient, ClientState, Unknown, Known, Freshness

LEMMA OutdatedType ==
  ASSUME NEW state \in ClientState, NEW e \in Entity
  PROVE  /\ Outdated(state, e) \in ClientState
         /\ Outdated(state, e).visible = state.visible
         /\ \A d \in Entity : state.known[d] = Unknown => Outdated(state, e).known[d] = Unknown
BY SMTT(30) DEF Outdated, ClientState, Known, Freshness, Unknown

LEMMA ForgottenType ==
  ASSUME NEW state \in ClientState, NEW e \in Entity
  PROVE  /\ Forgotten(state, e) \in ClientState
         /\ Forgotten(state, e).visible = state.visible \ {e}
         /\ \A d \in Entity : Forgotten(state, e).known[d] =
                                IF d = e THEN Unknown ELSE state.known[d]
BY DEF Forgotten, ClientState, Known, Freshness, Unknown, Lod, NoLod

LEMMA WithVisibleType ==
  ASSUME NEW state \in ClientState, NEW next \in SUBSET Entity
  PROVE  /\ WithVisible(state, next) \in ClientState
         /\ WithVisible(state, next).visible = next
         /\ \A d \in Entity : WithVisible(state, next).known[d] =
              IF d \in state.visible \ next THEN Unknown ELSE state.known[d]
BY DEF WithVisible, ClientState, Known, Freshness, Unknown, Lod, NoLod

\* A selection leaves what each entity's record is made of.
LEMMA AfterSelectionType ==
  ASSUME NEW known \in [Entity -> Known], NEW cands, NEW chosen,
         \A e \in DOMAIN cands : cands[e].score \in Nat,
         chosen \in [DOMAIN cands -> Choice]
  PROVE  /\ AfterSelection(known, cands, chosen) \in [Entity -> Known]
         /\ \A e \in Entity \ DOMAIN cands :
              AfterSelection(known, cands, chosen)[e] = known[e]
<1>1. ASSUME NEW e \in Entity
      PROVE  (IF e \notin DOMAIN cands THEN known[e]
              ELSE IF chosen[e] = Deferred THEN [known[e] EXCEPT !.score = cands[e].score]
              ELSE [freshness |-> "current", lod |-> chosen[e], score |-> 0]) \in Known
  <2>1. CASE e \notin DOMAIN cands
    BY <2>1
  <2>2. CASE e \in DOMAIN cands /\ chosen[e] = Deferred
    BY <2>2 DEF Known
  <2>3. CASE e \in DOMAIN cands /\ chosen[e] # Deferred
    <3>1. chosen[e] \in Lod
      BY <2>3 DEF Choice
    <3>2. QED BY <2>3, <3>1 DEF Known, Freshness
  <2>4. QED BY <2>1, <2>2, <2>3
<1>2. QED BY <1>1 DEF AfterSelection

\* Candidates are seen and accumulate a natural score.
LEMMA CandidateTableScores ==
  ASSUME NEW table, NEW visible \in SUBSET Entity, NEW known \in [Entity -> Known],
         NEW desired, \A e \in DOMAIN table : table[e].priority \in Nat
  PROVE  /\ DOMAIN CandidateTable(table, visible, known, desired)
              \subseteq visible \cap DOMAIN table
         /\ \A e \in DOMAIN CandidateTable(table, visible, known, desired) :
              CandidateTable(table, visible, known, desired)[e].score \in Nat
<1>1. \A e \in visible \cap DOMAIN table : known[e].score + table[e].priority \in Nat
  BY DEF Known
<1>2. QED BY <1>1 DEF CandidateTable, Candidate

LEMMA SelectUpdatesDomain ==
  ASSUME NEW cands, NEW budget
  PROVE  DOMAIN SelectUpdates(cands, budget) = DOMAIN cands
BY DEF SelectUpdates

-------------------------------------------------------------------------------
\* A client's state that is right on its own
Sound(state) ==
  /\ state \in ClientState
  /\ \A e \in Entity \ state.visible : state.known[e] = Unknown

LEMMA SoundOperators ==
  ASSUME NEW state, Sound(state), NEW e \in Entity, NEW next \in SUBSET Entity
  PROVE  /\ Sound(NewClient)
         /\ Sound(Outdated(state, e))
         /\ Sound(Forgotten(state, e))
         /\ Sound(WithVisible(state, next))
<1>1. Sound(NewClient)
  BY NewClientType DEF Sound, NewClient
<1>2. Sound(Outdated(state, e))
  BY OutdatedType DEF Sound
<1>3. Sound(Forgotten(state, e))
  BY ForgottenType DEF Sound
<1>4. Sound(WithVisible(state, next))
  BY WithVisibleType DEF Sound
<1>5. QED BY <1>1, <1>2, <1>3, <1>4

-------------------------------------------------------------------------------
(* The walk down the candidates *)

Candidates(cands) ==
  /\ IsFiniteSet(DOMAIN cands) /\ DOMAIN cands \subseteq Nat
  /\ \A e \in DOMAIN cands : cands[e].score \in Nat /\ cands[e].bytes \in [Lod -> Nat]

\* A turn defers the candidate or takes a tier that fits what is left.
LEMMA TurnFits ==
  ASSUME NEW cands, Candidates(cands), NEW e \in DOMAIN cands, NEW left \in Int
  PROVE  /\ Turn(cands, e)[left] \in Choice
         /\ left >= 0 => ChoiceBytes(cands[e], Turn(cands, e)[left]) <= left
<1> DEFINE fitting == FittingLods(cands[e], left)
           best == CHOOSE l \in fitting : \A m \in fitting : DetailRank(m) <= DetailRank(l)
<1>1. Turn(cands, e)[left] \in {Deferred, SelectLodForBudget(cands[e], left)}
  BY DEF Turn
<1>2. fitting \subseteq Lod /\ \A l \in fitting : cands[e].bytes[l] <= left
  BY DEF FittingLods, LodFallbacks
<1>3. fitting # {} => best \in fitting
  <2>1. ASSUME fitting # {}
        PROVE  \E l \in fitting : \A m \in fitting : DetailRank(m) <= DetailRank(l)
    <3> HIDE DEF fitting
    <3> QED BY <1>2, <2>1 DEF Lod, DetailRank
  <2>2. QED BY <2>1
<1>4. SelectLodForBudget(cands[e], left) \in {Deferred, best}
      /\ (fitting = {} => SelectLodForBudget(cands[e], left) = Deferred)
  BY DEF SelectLodForBudget
<1> HIDE DEF best, fitting
<1>5. Turn(cands, e)[left] \in {Deferred} \cup fitting
  BY <1>1, <1>3, <1>4
<1>6. Deferred \notin Lod
  BY DEF Deferred, Lod
<1>7. QED BY <1>2, <1>5, <1>6 DEF Choice, ChoiceBytes

\* The heap's order is total, so that of finitely many one is popped last.
LEMMA LastPopped ==
  ASSUME NEW cands, Candidates(cands), NEW S \in SUBSET DOMAIN cands, S # {}
  PROVE  \E p \in S : \A d \in S \ {p} : PoppedBefore(cands, d, p)
<1> DEFINE Last(s, p) == \A d \in s \ {p} : PoppedBefore(cands, d, p)
           C == {s \in SUBSET DOMAIN cands : s # {} /\ ~ \E p \in s : Last(s, p)}
<1>1. SUFFICES ASSUME C # {} PROVE FALSE
  OBVIOUS
<1>2. C \subseteq SUBSET DOMAIN cands
  OBVIOUS
<1>3. PICK s \in C : \A u \in C : u \subseteq s => u = s
  <2> HIDE DEF C
  <2> QED BY <1>1, <1>2, MinimalSet DEF Candidates
<1>4. PICK x \in s : s \in SUBSET DOMAIN cands
  OBVIOUS
<1>5. s \ {x} # {}
  BY <1>4
<1>6. PICK p \in s \ {x} : Last(s \ {x}, p)
  <2>1. s \ {x} \notin C
    <3> HIDE DEF C
    <3> QED BY <1>3, <1>4
  <2> HIDE DEF Last
  <2>2. QED BY <1>4, <1>5, <2>1
<1>7. PoppedBefore(cands, x, p) \/ PoppedBefore(cands, p, x)
  BY SMTT(30), <1>4, <1>6 DEF PoppedBefore, Candidates
<1>8. CASE PoppedBefore(cands, x, p)
  BY <1>4, <1>6, <1>8
<1>9. CASE PoppedBefore(cands, p, x)
  <2>1. \A d \in s \ {x} : PoppedBefore(cands, d, x)
    BY <1>4, <1>6, <1>9 DEF PoppedBefore, Candidates
  <2>2. QED BY <1>4, <2>1
<1>10. QED BY <1>7, <1>8, <1>9

\* those popped before a candidate, and what they took
Before(cands, e) == {d \in DOMAIN cands : PoppedBefore(cands, d, e)}
Taken(cands, chosen) == [d \in DOMAIN cands |-> ChoiceBytes(cands[d], chosen[d])]
Spent(cands, chosen, e) ==
  SumFunction([d \in Before(cands, e) |-> ChoiceBytes(cands[d], chosen[d])])

\* chosen is what the walk decides.
IsWalk(chosen, cands, budget) ==
  chosen = [e \in DOMAIN cands |-> Turn(cands, e)[budget - Spent(cands, chosen, e)]]

\* What was spent before e, as a sum over the choices made
LEMMA SpentIsSum ==
  ASSUME NEW cands, Candidates(cands), NEW chosen \in [DOMAIN cands -> Choice],
         NEW e \in DOMAIN cands
  PROVE  /\ Spent(cands, chosen, e) = SumFunctionOnSet(Taken(cands, chosen), Before(cands, e))
         /\ Spent(cands, chosen, e) \in Nat
         /\ \A d \in DOMAIN cands : Taken(cands, chosen)[d] \in Nat
         /\ IsFiniteSet(Before(cands, e)) /\ Before(cands, e) \subseteq DOMAIN cands
<1> DEFINE f == [d \in Before(cands, e) |-> ChoiceBytes(cands[d], chosen[d])]
<1>1. \A d \in DOMAIN cands : ChoiceBytes(cands[d], chosen[d]) \in Nat
  BY DEF ChoiceBytes, Choice, Candidates
<1>2. IsFiniteSet(Before(cands, e)) /\ Before(cands, e) \subseteq DOMAIN cands
  BY FS_Subset DEF Before, Candidates
<1>3. /\ \A d \in DOMAIN cands : Taken(cands, chosen)[d] \in Nat
      /\ \A d \in Before(cands, e) : Taken(cands, chosen)[d] \in Nat
      /\ \A d \in Before(cands, e) : f[d] = Taken(cands, chosen)[d]
  BY <1>1, <1>2 DEF Taken
<1>4. DOMAIN f = Before(cands, e)
  OBVIOUS
<1>5. Spent(cands, chosen, e) = SumFunctionOnSet(f, Before(cands, e))
  BY <1>4 DEF Spent, SumFunction
<1> HIDE DEF f
<1>6. SumFunctionOnSet(f, Before(cands, e)) =
        SumFunctionOnSet(Taken(cands, chosen), Before(cands, e))
  BY <1>2, <1>3, SumSame
<1>7. SumFunctionOnSet(Taken(cands, chosen), Before(cands, e)) \in Nat
  BY <1>2, <1>3, SumType
<1>8. QED BY <1>2, <1>3, <1>5, <1>6, <1>7

\* The walk never takes more than the budget.
LEMMA WalkWithinBudget ==
  ASSUME NEW cands, Candidates(cands), NEW budget \in Nat,
         NEW chosen \in [DOMAIN cands -> Choice], IsWalk(chosen, cands, budget)
  PROVE  SumFunctionOnSet(Taken(cands, chosen), DOMAIN cands) <= budget
<1> DEFINE f == Taken(cands, chosen)
           Closed(s) == \A e \in s : Before(cands, e) \subseteq s
           Over(s) == ~ (SumFunctionOnSet(f, s) <= budget)
           C == {s \in SUBSET DOMAIN cands : Closed(s) /\ Over(s)}
<1>1. Closed(DOMAIN cands)
  BY DEF Before
<1>2. SUFFICES ASSUME C # {} PROVE FALSE
  BY <1>1
<1>3. C \subseteq SUBSET DOMAIN cands
  OBVIOUS
<1>4. PICK s \in C : \A u \in C : u \subseteq s => u = s
  <2> HIDE DEF C
  <2> QED BY <1>2, <1>3, MinimalSet DEF Candidates
<1>5. s \in SUBSET DOMAIN cands /\ Closed(s) /\ Over(s)
  OBVIOUS
<1>6. s # {}
  BY <1>5, SumEmpty
<1>7. PICK p \in s : \A d \in s \ {p} : PoppedBefore(cands, d, p)
  BY <1>5, <1>6, LastPopped
<1>8. Before(cands, p) = s \ {p}
  BY <1>5, <1>7 DEF Before, PoppedBefore, Candidates
<1>9. Closed(s \ {p})
  BY <1>5, <1>7 DEF Before, PoppedBefore, Candidates
<1>10. ~ Over(s \ {p})
  <2>1. s \ {p} \notin C
    <3> HIDE DEF C
    <3> QED BY <1>4
  <2> HIDE DEF Over, Closed
  <2>2. QED BY <1>5, <1>9, <2>1
<1> HIDE DEF C, Closed
<1> DEFINE left == budget - Spent(cands, chosen, p)
<1>11. /\ Spent(cands, chosen, p) = SumFunctionOnSet(f, s \ {p})
       /\ Spent(cands, chosen, p) \in Nat
       /\ \A d \in s : f[d] \in Nat
       /\ IsFiniteSet(s)
  BY <1>5, <1>8, SpentIsSum, FS_Subset DEF Candidates
<1>12. left \in Int /\ left >= 0
  BY <1>10, <1>11
<1>13. chosen[p] = Turn(cands, p)[left]
  BY <1>5 DEF IsWalk
<1>14. f[p] <= left
  <2> HIDE DEF left
  <2>1. ChoiceBytes(cands[p], Turn(cands, p)[left]) <= left
    BY <1>5, <1>12, TurnFits
  <2>2. QED BY <1>5, <1>13, <2>1 DEF Taken
<1>15. SumFunctionOnSet(f, s) = f[p] + SumFunctionOnSet(f, s \ {p})
  <2> HIDE DEF f
  <2> QED BY <1>11, SumTakeOut
<1>16. QED BY <1>5, <1>11, <1>14, <1>15

\* The walk as a fold that adds one choice after the other
LastOf(cands) ==
  [s \in SUBSET DOMAIN cands |-> CHOOSE p \in s : \A d \in s \ {p} : PoppedBefore(cands, d, p)]

WalkStep(cands, budget) ==
  [r \in (SUBSET DOMAIN cands) \X [DOMAIN cands -> Choice] |->
     [e \in DOMAIN cands |->
        IF e = LastOf(cands)[r[1]] THEN Turn(cands, e)[budget - Spent(cands, r[2], e)] ELSE r[2][e]]]

LEMMA WalkExists ==
  ASSUME NEW cands, Candidates(cands), NEW budget \in Nat
  PROVE  \E chosen \in [DOMAIN cands -> Choice] : IsWalk(chosen, cands, budget)
<1> DEFINE D == DOMAIN cands
           A == [D -> Choice]
           base == [d \in D |-> Deferred]
           pick == LastOf(cands)
           step == WalkStep(cands, budget)
<1>1. \A s \in SUBSET D : s # {} => pick[s] \in s /\ \A d \in s \ {pick[s]} : PoppedBefore(cands, d, pick[s])
  <2> SUFFICES ASSUME NEW s \in SUBSET D, s # {}
               PROVE  pick[s] \in s /\ \A d \in s \ {pick[s]} : PoppedBefore(cands, d, pick[s])
    OBVIOUS
  <2>1. \E p \in s : \A d \in s \ {p} : PoppedBefore(cands, d, p)
    BY LastPopped
  <2>2. QED BY <2>1 DEF LastOf
<1>2. Picks(pick, D) /\ IsFiniteSet(D) /\ base \in A
  BY <1>1 DEF Picks, Candidates, Choice
<1>3. step \in [(SUBSET D) \X A -> A]
  <2>1. ASSUME NEW a \in A, NEW e \in D
        PROVE  Turn(cands, e)[budget - Spent(cands, a, e)] \in Choice
    <3>1. budget - Spent(cands, a, e) \in Int
      BY SpentIsSum
    <3>2. QED BY <3>1, TurnFits
  <2>2. ASSUME NEW r \in (SUBSET D) \X A
        PROVE  [e \in D |-> IF e = pick[r[1]] THEN Turn(cands, e)[budget - Spent(cands, r[2], e)]
                                             ELSE r[2][e]] \in A
    BY <2>1, <2>2
  <2> HIDE DEF pick, A
  <2>3. QED BY <2>2 DEF WalkStep, pick, A
<1>4. PICK g \in [SUBSET D -> A] : IsFold(g, D, base, pick, step)
  <2> HIDE DEF D, A, base, pick, step
  <2> QED BY <1>2, <1>3, FoldExists
<1>5. ASSUME NEW s \in SUBSET D, s # {}
      PROVE  /\ pick[s] \in s /\ s \ {pick[s]} \in SUBSET D
             /\ g[s] \in A /\ g[s \ {pick[s]}] \in A
             /\ \A e \in D : g[s][e] =
                  IF e = pick[s] THEN Turn(cands, e)[budget - Spent(cands, g[s \ {pick[s]}], e)]
                  ELSE g[s \ {pick[s]}][e]
  <2>1. pick[s] \in s /\ s \ {pick[s]} \in SUBSET D
    BY <1>1, <1>5
  <2>2. g[s] \in A /\ g[s \ {pick[s]}] \in A
    BY <2>1
  <2>3. g[s] = step[<<s, g[s \ {pick[s]}]>>]
    <3> HIDE DEF step, pick, A, D
    <3> QED BY <1>4, <1>5 DEF IsFold
  <2>4. QED BY <2>1, <2>2, <2>3 DEF WalkStep
<1> DEFINE Closed(s) == \A e \in s : Before(cands, e) \subseteq s
           Right(s) == \A e \in s : g[s][e] = Turn(cands, e)[budget - Spent(cands, g[s], e)]
           C == {s \in SUBSET D : Closed(s) /\ ~ Right(s)}
<1>6. C = {}
  <2>1. SUFFICES ASSUME C # {} PROVE FALSE
    OBVIOUS
  <2>2. C \subseteq SUBSET D
    OBVIOUS
  <2>3. PICK s \in C : \A u \in C : u \subseteq s => u = s
    <3> HIDE DEF C, D
    <3> QED BY <1>2, <2>1, <2>2, MinimalSet
  <2>4. s \in SUBSET D /\ Closed(s) /\ ~ Right(s) /\ s # {}
    OBVIOUS
  <2> DEFINE p == pick[s]
             t == s \ {p}
  <2>5. p \in s /\ t \in SUBSET D /\ \A d \in t : PoppedBefore(cands, d, p)
    BY <1>1, <2>4
  <2>6. Before(cands, p) = t
    BY <2>4, <2>5 DEF Before, PoppedBefore, Candidates
  <2>7. Closed(t)
    BY <2>4, <2>5 DEF Before, PoppedBefore, Candidates
  <2>8. Right(t)
    <3>1. t \notin C
      <4>1. t \subseteq s /\ t # s
        BY <2>5
      <4> HIDE DEF C, t
      <4>2. QED BY <2>3, <4>1
    <3> HIDE DEF Right, Closed, t
    <3>2. QED BY <2>5, <2>7, <3>1
  <2>9. \A d \in D : g[s][d] = IF d = p THEN Turn(cands, d)[budget - Spent(cands, g[t], d)] ELSE g[t][d]
    BY <1>5, <2>4
  <2>10. ASSUME NEW e \in s
         PROVE  Spent(cands, g[s], e) = Spent(cands, g[t], e)
    <3>1. Before(cands, e) \subseteq t
      BY <2>4, <2>6, <2>7, <2>10
    <3>2. \A d \in Before(cands, e) : g[s][d] = g[t][d]
      BY <2>4, <2>9, <3>1
    <3>3. QED BY <3>2 DEF Spent
  <2>11. Right(s)
    <3> SUFFICES ASSUME NEW e \in s
                 PROVE  g[s][e] = Turn(cands, e)[budget - Spent(cands, g[s], e)]
      OBVIOUS
    <3> HIDE DEF t, p
    <3>1. CASE e = p
      BY <2>4, <2>9, <2>10, <3>1
    <3>2. CASE e # p
      <4>1. e \in t
        BY <3>2 DEF t
      <4>2. g[t][e] = Turn(cands, e)[budget - Spent(cands, g[t], e)]
        BY <2>8, <4>1
      <4>3. QED BY <2>4, <2>9, <2>10, <3>2, <4>2
    <3>3. QED BY <3>1, <3>2
  <2>12. QED BY <2>4, <2>11
<1>7. Right(D)
  <2>1. Closed(D) /\ D \in SUBSET D
    BY DEF Before
  <2> HIDE DEF Right, Closed, D
  <2>2. QED BY <1>6, <2>1
<1>8. g[D] \in A
  OBVIOUS
<1> DEFINE chosen == g[D]
<1>9. IsWalk(chosen, cands, budget)
  BY <1>7, <1>8 DEF IsWalk
<1>10. QED BY <1>8, <1>9

LEMMA WalkUnique ==
  ASSUME NEW cands, Candidates(cands), NEW budget \in Nat,
         NEW g, IsWalk(g, cands, budget), NEW h, IsWalk(h, cands, budget)
  PROVE  g = h
<1> DEFINE Closed(s) == \A e \in s : Before(cands, e) \subseteq s
           Same(s) == \A e \in s : g[e] = h[e]
           C == {s \in SUBSET DOMAIN cands : Closed(s) /\ ~ Same(s)}
<1>1. C = {}
  <2>1. SUFFICES ASSUME C # {} PROVE FALSE
    OBVIOUS
  <2>2. C \subseteq SUBSET DOMAIN cands
    OBVIOUS
  <2>3. PICK s \in C : \A u \in C : u \subseteq s => u = s
    <3> HIDE DEF C
    <3> QED BY <2>1, <2>2, MinimalSet DEF Candidates
  <2>4. s \in SUBSET DOMAIN cands /\ Closed(s) /\ ~ Same(s) /\ s # {}
    OBVIOUS
  <2>5. PICK p \in s : \A d \in s \ {p} : PoppedBefore(cands, d, p)
    BY <2>4, LastPopped
  <2>6. Before(cands, p) = s \ {p} /\ Closed(s \ {p})
    BY <2>4, <2>5 DEF Before, PoppedBefore, Candidates
  <2>7. Same(s \ {p})
    <3>1. s \ {p} \notin C
      <4> HIDE DEF C
      <4> QED BY <2>3
    <3> HIDE DEF Closed, Same
    <3>2. QED BY <2>4, <2>6, <3>1
  <2>8. Spent(cands, g, p) = Spent(cands, h, p)
    BY <2>6, <2>7 DEF Spent
  <2>9. g[p] = h[p]
    BY <2>4, <2>8 DEF IsWalk
  <2>10. QED BY <2>4, <2>7, <2>9
<1>2. Same(DOMAIN cands)
  <2>1. Closed(DOMAIN cands) /\ DOMAIN cands \in SUBSET DOMAIN cands
    BY DEF Before
  <2> HIDE DEF Same, Closed
  <2>2. QED BY <1>1, <2>1
<1>3. QED BY <1>2 DEF IsWalk

LEMMA SelectUpdatesIsWalk ==
  ASSUME NEW cands, Candidates(cands), NEW budget \in Nat
  PROVE  /\ SelectUpdates(cands, budget) \in [DOMAIN cands -> Choice]
         /\ IsWalk(SelectUpdates(cands, budget), cands, budget)
<1> DEFINE walk == CHOOSE chosen : IsWalk(chosen, cands, budget)
<1>1. PICK chosen \in [DOMAIN cands -> Choice] : IsWalk(chosen, cands, budget)
  BY WalkExists
<1>2. IsWalk(walk, cands, budget)
  BY <1>1
<1>3. SelectUpdates(cands, budget) = [e \in DOMAIN cands |-> walk[e]]
  BY DEF SelectUpdates, IsWalk, Spent, Before
<1> HIDE DEF walk
<1>4. SelectUpdates(cands, budget) = walk
  BY <1>2, <1>3 DEF IsWalk
<1>5. QED BY <1>1, <1>2, <1>4, WalkUnique

(* What a selection takes never exceeds the budget, for any finitely many     *)
(* candidates of any costs and priorities: fallbacks to cheaper tiers,        *)
(* waiting upgrades and the early stop included.                              *)
THEOREM SelectionWithinBudget ==
  ASSUME NEW cands, Candidates(cands), NEW budget \in Nat
  PROVE  BytesUsed(cands, SelectUpdates(cands, budget)) <= budget
<1> DEFINE chosen == SelectUpdates(cands, budget)
<1>1. SumFunctionOnSet(Taken(cands, chosen), DOMAIN cands) <= budget
  BY SelectUpdatesIsWalk, WalkWithinBudget
<1>2. BytesUsed(cands, chosen) = SumFunctionOnSet(Taken(cands, chosen), DOMAIN cands)
  BY DEF BytesUsed, SumFunction, Taken
<1>3. QED BY <1>1, <1>2
-------------------------------------------------------------------------------
(* The wait.  Where every tier fits the budget, the candidate popped first is *)
(* sent, so that a selection raises every score by at most the highest        *)
(* priority and sets the highest score to zero.                               *)

\* The heap's order is total, so that of finitely many one is popped first.
LEMMA FirstPopped ==
  ASSUME NEW cands, Candidates(cands), NEW S \in SUBSET DOMAIN cands, S # {}
  PROVE  \E p \in S : \A d \in S \ {p} : PoppedBefore(cands, p, d)
<1> DEFINE First(s, p) == \A d \in s \ {p} : PoppedBefore(cands, p, d)
           C == {s \in SUBSET DOMAIN cands : s # {} /\ ~ \E p \in s : First(s, p)}
<1>1. SUFFICES ASSUME C # {} PROVE FALSE
  OBVIOUS
<1>2. C \subseteq SUBSET DOMAIN cands
  OBVIOUS
<1>3. PICK s \in C : \A u \in C : u \subseteq s => u = s
  <2> HIDE DEF C
  <2> QED BY <1>1, <1>2, MinimalSet DEF Candidates
<1>4. PICK x \in s : s \in SUBSET DOMAIN cands
  OBVIOUS
<1>5. s \ {x} # {}
  BY <1>4
<1>6. PICK p \in s \ {x} : First(s \ {x}, p)
  <2>1. s \ {x} \notin C
    <3> HIDE DEF C
    <3> QED BY <1>3, <1>4
  <2> HIDE DEF First
  <2>2. QED BY <1>4, <1>5, <2>1
<1>7. PoppedBefore(cands, x, p) \/ PoppedBefore(cands, p, x)
  BY <1>4, <1>6 DEF PoppedBefore, Candidates
<1>8. CASE PoppedBefore(cands, p, x)
  BY <1>4, <1>6, <1>8
<1>9. CASE PoppedBefore(cands, x, p)
  <2>1. \A d \in s \ {x} : PoppedBefore(cands, x, d)
    BY <1>4, <1>6, <1>9 DEF PoppedBefore, Candidates
  <2>2. QED BY <1>4, <2>1
<1>10. QED BY <1>7, <1>8, <1>9

\* Every tier of every candidate fits.
AllFit(cands, budget) ==
  \A e \in DOMAIN cands : cands[e].lod \in Lod /\ \A l \in Lod : cands[e].bytes[l] <= budget

\* With the whole budget left a candidate gets the tier desired.
LEMMA TurnOfFitting ==
  ASSUME NEW cands, Candidates(cands), NEW budget \in Nat, AllFit(cands, budget),
         NEW e \in DOMAIN cands
  PROVE  Turn(cands, e)[budget] \in Lod
<1> DEFINE cheapest == {cands[d].bytes["Minimal"] : d \in DOMAIN cands}
           fitting == FittingLods(cands[e], budget)
           best == CHOOSE l \in fitting : \A m \in fitting : DetailRank(m) <= DetailRank(l)
<1>1. Min(cheapest) <= budget /\ Min(cheapest) \in Int
  <2>1. cheapest \subseteq 0..budget /\ cheapest # {}
    BY DEF Candidates, AllFit, Lod
  <2> HIDE DEF cheapest
  <2>2. Min(cheapest) \in cheapest
    BY <2>1, LeastOf
  <2>3. Min(cheapest) \in 0..budget
    BY <2>1, <2>2, Zenon
  <2>4. QED BY <2>3
<1>2. Turn(cands, e)[budget] = SelectLodForBudget(cands[e], budget)
  <2> HIDE DEF cheapest
  <2>1. MinSelectableBytes(cands) = Min(cheapest)
    BY DEF MinSelectableBytes, cheapest
  <2>2. QED BY <1>1, <2>1 DEF Turn
<1>3. fitting = LodFallbacks(cands[e].lod) /\ cands[e].lod \in fitting
  BY DEF FittingLods, LodFallbacks, AllFit, DetailRank, Lod
<1>4. best \in fitting /\ DetailRank(cands[e].lod) <= DetailRank(best)
  <2>1. \A m \in fitting : DetailRank(m) <= DetailRank(cands[e].lod)
    BY <1>3 DEF LodFallbacks
  <2> HIDE DEF fitting
  <2>2. QED BY <1>3, <2>1
<1>5. best \in Lod
  BY <1>3, <1>4 DEF LodFallbacks
<1>6. SelectLodForBudget(cands[e], budget) =
        IF \/ fitting = {}
           \/ WaitingForUpgrade(cands[e]) /\ DetailRank(best) <= DetailRank(cands[e].lastLod)
          THEN Deferred ELSE best
  BY DEF SelectLodForBudget
<1> HIDE DEF best, fitting
<1>7. ~ (WaitingForUpgrade(cands[e]) /\ DetailRank(best) <= DetailRank(cands[e].lastLod))
  <2>1. DetailRank(cands[e].lod) \in Int /\ DetailRank(best) \in Int /\ DetailRank(cands[e].lastLod) \in Int
    BY DEF DetailRank
  <2>2. QED BY <1>4, <2>1 DEF WaitingForUpgrade
<1>8. QED BY <1>2, <1>3, <1>5, <1>6, <1>7

\* The candidate popped first is sent.
LEMMA FirstIsSent ==
  ASSUME NEW cands, Candidates(cands), NEW budget \in Nat, AllFit(cands, budget), DOMAIN cands # {}
  PROVE  \E p \in DOMAIN cands : /\ SelectUpdates(cands, budget)[p] \in Lod
                                 /\ \A d \in DOMAIN cands : cands[d].score <= cands[p].score
<1>1. PICK p \in DOMAIN cands : \A d \in DOMAIN cands \ {p} : PoppedBefore(cands, p, d)
  BY FirstPopped
<1>2. \A d \in DOMAIN cands : cands[d].score <= cands[p].score
  BY <1>1 DEF PoppedBefore, Candidates
<1>3. Before(cands, p) = {}
  BY <1>1 DEF Before, PoppedBefore, Candidates
<1> DEFINE chosen == SelectUpdates(cands, budget)
<1>4. chosen \in [DOMAIN cands -> Choice] /\ IsWalk(chosen, cands, budget)
  BY SelectUpdatesIsWalk
<1> HIDE DEF chosen
<1>5. Spent(cands, chosen, p) = 0
  BY <1>3, <1>4, SpentIsSum, SumEmpty
<1>6. chosen[p] = Turn(cands, p)[budget - Spent(cands, chosen, p)]
  BY <1>4 DEF IsWalk
<1>7. budget - Spent(cands, chosen, p) = budget
  BY <1>5
<1>8. chosen[p] \in Lod
  BY <1>6, <1>7, TurnOfFitting
<1>9. QED BY <1>2, <1>8 DEF chosen

\* At most n - 1 - k of n entities have accumulated more than k times the priority q.
Above(known, score) == {e \in Entity : known[e].score > score}
Ranked(known, q) ==
  \A k \in 0..(Cardinality(Entity) - 1) :
    Cardinality(Above(known, k * q)) <= Cardinality(Entity) - 1 - k

LEMMA FewerAbove ==
  ASSUME IsFiniteSet(Entity), NEW known, NEW q \in Nat, Ranked(known, q), NEW other,
         \A e \in Entity : other[e] = known[e] \/ other[e].score = 0
  PROVE  Ranked(other, q)
<1> SUFFICES ASSUME NEW k \in 0..(Cardinality(Entity) - 1)
             PROVE  Cardinality(Above(other, k * q)) <= Cardinality(Entity) - 1 - k
  BY DEF Ranked
<1>1. PICK s \in Nat : s = k * q
  BY FS_CardinalityType
<1>2. Above(other, s) \subseteq Above(known, s)
  BY DEF Above
<1>3. IsFiniteSet(Above(known, s))
  BY FS_Subset DEF Above
<1>4. /\ Cardinality(Above(other, s)) \in Nat /\ Cardinality(Above(known, s)) \in Nat
      /\ Cardinality(Above(other, s)) <= Cardinality(Above(known, s))
  BY <1>2, <1>3, FS_Subset, FS_CardinalityType
<1>5. Cardinality(Above(known, s)) <= Cardinality(Entity) - 1 - k
  BY <1>1 DEF Ranked
<1>6. QED BY <1>1, <1>4, <1>5, FS_CardinalityType

\* A selection keeps the ranks: what was above k - 1 times q may now be above k times q,
\* but for the candidate sent first, which was above it if any other is now.
LEMMA SelectionKeepsRanks ==
  ASSUME IsFiniteSet(Entity), NEW known \in [Entity -> Known], NEW q \in Nat, Ranked(known, q),
         NEW cands, Candidates(cands), DOMAIN cands \subseteq Entity,
         NEW budget \in Nat, AllFit(cands, budget),
         \A e \in DOMAIN cands : cands[e].score <= known[e].score + q
  PROVE  Ranked(AfterSelection(known, cands, SelectUpdates(cands, budget)), q)
<1> DEFINE chosen == SelectUpdates(cands, budget)
           after == AfterSelection(known, cands, chosen)
<1>1. CASE DOMAIN cands = {}
  <2>1. \A e \in Entity : after[e] = known[e]
    BY <1>1 DEF AfterSelection
  <2> HIDE DEF after
  <2>2. Ranked(after, q)
    BY <2>1, FewerAbove
  <2>3. QED BY <2>2 DEF after
<1>2. CASE DOMAIN cands # {}
  <2>1. PICK p \in DOMAIN cands : /\ chosen[p] \in Lod
                                  /\ \A d \in DOMAIN cands : cands[d].score <= cands[p].score
    BY <1>2, FirstIsSent
  <2>2. /\ after[p].score = 0
        /\ \A e \in Entity \ DOMAIN cands : after[e] = known[e]
        /\ \A e \in DOMAIN cands : after[e].score \in {0, cands[e].score}
    <3>1. Deferred \notin Lod
      BY DEF Deferred, Lod
    <3>2. QED BY <2>1, <3>1 DEF AfterSelection, Known
  <2> SUFFICES ASSUME NEW k \in 0..(Cardinality(Entity) - 1)
               PROVE  Cardinality(Above(after, k * q)) <= Cardinality(Entity) - 1 - k
    BY DEF Ranked
  <2> HIDE DEF after, chosen
  <2>3. PICK n \in Nat : n = Cardinality(Entity)
    BY FS_CardinalityType
  <2>4. PICK s \in Nat : s = k * q
    BY <2>3
  <2>5. /\ \A e \in Entity : known[e].score \in Nat
        /\ \A e \in DOMAIN cands : cands[e].score \in Nat
    BY DEF Known, Candidates
  <2>6. \A T \in SUBSET Entity : IsFiniteSet(T) /\ Cardinality(T) \in Nat /\ Cardinality(T) <= n
    BY <2>3, FS_Subset, FS_CardinalityType
  <2>7. Above(after, s) \in SUBSET (Entity \ {p})
    BY <2>2, <2>5 DEF Above
  <2>8. \A T, U \in SUBSET Entity : p \in U /\ T \subseteq U \ {p} => Cardinality(T) <= Cardinality(U) - 1
    <3> SUFFICES ASSUME NEW T \in SUBSET Entity, NEW U \in SUBSET Entity, p \in U, T \subseteq U \ {p}
                 PROVE  Cardinality(T) <= Cardinality(U) - 1
      OBVIOUS
    <3>1. Cardinality(U \ {p}) = Cardinality(U) - 1
      BY <2>6, FS_RemoveElement
    <3>2. Cardinality(T) <= Cardinality(U \ {p})
      BY <2>6, FS_Subset
    <3>3. QED BY <3>1, <3>2
  <2>9. CASE k = 0
    <3>1. Cardinality(Above(after, s)) <= n - 1
      BY <2>3, <2>7, <2>8
    <3>2. QED BY <2>3, <2>4, <2>9, <3>1
  <2>10. CASE k # 0 /\ Above(after, s) \cap DOMAIN cands = {}
    <3>1. Above(after, s) \subseteq Above(known, s) /\ Above(known, s) \in SUBSET Entity
      BY <2>2, <2>10 DEF Above
    <3>2. Cardinality(Above(after, s)) <= Cardinality(Above(known, s))
      BY <2>6, <3>1, FS_Subset
    <3>3. Cardinality(Above(known, s)) <= n - 1 - k
      BY <2>3, <2>4 DEF Ranked
    <3>4. Above(after, s) \in SUBSET Entity
      BY <2>7
    <3>5. QED BY <2>3, <2>4, <2>6, <3>1, <3>2, <3>3, <3>4
  <2>11. CASE k # 0 /\ Above(after, s) \cap DOMAIN cands # {}
    <3>1. PICK r \in Nat : r = (k - 1) * q /\ s = r + q /\ k - 1 \in 0..(n - 1)
      BY <2>3, <2>4, <2>11
    <3>2. PICK d \in DOMAIN cands : cands[d].score > s
      BY <2>2, <2>5, <2>11 DEF Above
    <3>3. known[p].score > r
      BY <2>1, <2>5, <3>1, <3>2
    <3>4. p \in Above(known, r) /\ Above(known, r) \in SUBSET Entity
      BY <3>3 DEF Above
    <3>5. Above(after, s) \subseteq Above(known, r) \ {p}
      <4> SUFFICES ASSUME NEW e \in Entity, after[e].score > s
                   PROVE  e # p /\ known[e].score > r
        BY DEF Above
      <4>1. e # p
        BY <2>2
      <4>2. CASE e \in DOMAIN cands
        BY <2>2, <2>5, <3>1, <4>2
      <4>3. CASE e \notin DOMAIN cands
        BY <2>2, <2>5, <3>1, <4>3
      <4>4. QED BY <4>1, <4>2, <4>3
    <3>6. Cardinality(Above(after, s)) <= Cardinality(Above(known, r)) - 1
      BY <2>7, <2>8, <3>4, <3>5
    <3>7. Cardinality(Above(known, r)) <= n - 1 - (k - 1)
      BY <2>3, <3>1 DEF Ranked
    <3>8. Cardinality(Above(known, r)) \in Nat /\ Cardinality(Above(after, s)) \in Nat
      BY <2>6, <2>7, <3>4
    <3>9. QED BY <2>3, <2>4, <3>6, <3>7, <3>8
  <2>12. QED BY <2>9, <2>10, <2>11
<1>3. QED BY <1>1, <1>2
===============================================================================
