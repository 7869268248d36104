------------------------------- MODULE Selection -------------------------------
(***************************************************************************)
(* gridwake-replication's choice of the updates one client gets in one     *)
(* tick: candidates, their order by accumulated priority, and the walk     *)
(* down that order which spends the byte budget, falling back to cheaper   *)
(* tiers and deferring what does not fit.                                  *)
(*                                                                         *)
(* Generations.  The code gives an entity a counter bumped by every change *)
(* and remembers, per client, the counter it sent last.  All it ever asks  *)
(* is whether the client was sent anything (last_sent_generation > 0) and  *)
(* whether that was the present generation, so what is kept here is the    *)
(* answer: "never", "stale" or "current".                                  *)
(***************************************************************************)
EXTENDS CoreIds, NetworkLod, FiniteSetsExt

Freshness == {"never", "stale", "current"}

\* ClientEntityReplication: what the graph knows of one entity for one client
Known == [freshness : Freshness, lod : Lod \cup {NoLod}, score : Nat]

\* ClientEntityReplication::default(), also what a missing map entry means
Unknown == [freshness |-> "never", lod |-> NoLod, score |-> 0]

\* ClientReplication: what a client sees, and what is known of each entity
ClientState == [visible : SUBSET Entity, known : [Entity -> Known]]
NewClient == [visible |-> {}, known |-> [e \in Entity |-> Unknown]]

\* Entity e has a new generation: a client that was sent the last one is behind.
Outdated(state, e) ==
  [state EXCEPT !.known[e].freshness = IF @ = "current" THEN "stale" ELSE @]

\* Mutant: an entity that is gone stays known.
ForgottenButKnown(state, e) == [state EXCEPT !.visible = @ \ {e}]

\* Entity e is gone from the graph, for every client.
Forgotten(state, e) ==
  [visible |-> state.visible \ {e}, known |-> [state.known EXCEPT ![e] = Unknown]]

\* The client now sees next; what was known of an entity that left is dropped.
WithVisible(state, next) ==
  [visible |-> next,
   known |-> [e \in Entity |-> IF e \in state.visible \ next THEN Unknown
                                                              ELSE state.known[e]]]

-------------------------------------------------------------------------------

\* EntityReplication: the bytes of each tier, the base priority, the tier cap
Replicated == [bytes : [Lod -> Nat], priority : Nat, lod : Lod]

\* Candidate; clean means the entity has not changed since it was last sent.
Candidate(entity, known, lod) ==
  [lod |-> lod, bytes |-> entity.bytes, score |-> known.score + entity.priority,
   clean |-> known.freshness = "current", lastLod |-> known.lod]

\* An entity that is current at the tier desired for the client is skipped.
IsCandidate(known, lod) == known.freshness # "current" \/ known.lod # lod

\* entities, known and desired are functions on the entity ids
CandidateTable(entities, visible, known, desired) ==
  [e \in {e \in visible \cap DOMAIN entities : IsCandidate(known[e], desired[e])} |->
     Candidate(entities[e], known[e], desired[e])]

-------------------------------------------------------------------------------

\* Candidate::cmp, as the heap pops: higher score first, then the smaller id.
PoppedBefore(cands, d, e) ==
  \/ cands[d].score > cands[e].score
  \/ cands[d].score = cands[e].score /\ d < e

\* the cheapest tier over all candidates, the least the walk can spend
MinSelectableBytes(cands) ==
  Min({cands[e].bytes["Minimal"] : e \in DOMAIN cands})

(* select_lod_for_budget: the best tier that fits what is left.  A clean      *)
(* entity waiting for a better tier takes only one better than what it has.   *)
Deferred == "Deferred"

\* Mutant: only the cheapest tier is compared with what is left.
FittingLodsByCheapest(cand, left) ==
  {l \in LodFallbacks(cand.lod) : cand.bytes["Minimal"] <= left}

FittingLods(cand, left) == {l \in LodFallbacks(cand.lod) : cand.bytes[l] <= left}

WaitingForUpgrade(cand) ==
  cand.clean /\ DetailRank(cand.lod) > DetailRank(cand.lastLod)

SelectLodForBudget(cand, left) ==
  LET best == CHOOSE l \in FittingLods(cand, left) :
                \A m \in FittingLods(cand, left) : DetailRank(m) <= DetailRank(l)
  IN  IF \/ FittingLods(cand, left) = {}
         \/ WaitingForUpgrade(cand) /\ DetailRank(best) <= DetailRank(cand.lastLod)
        THEN Deferred
        ELSE best

Choice == Lod \cup {Deferred}

\* bytes a choice for candidate e takes from the budget
ChoiceBytes(cand, choice) == IF choice = Deferred THEN 0 ELSE cand.bytes[choice]

BytesUsed(cands, chosen) ==
  SumFunction([e \in DOMAIN cands |-> ChoiceBytes(cands[e], chosen[e])])

(* One turn of the loop, as a function of what is left of the budget.  Once   *)
(* less is left than the cheapest tier of any candidate the loop stops and    *)
(* the rest is deferred; what is left never grows, so the same test at every  *)
(* later candidate comes to the same.                                         *)
Turn(cands, e) ==
  [left \in Int |-> IF left < MinSelectableBytes(cands)
                      THEN Deferred
                      ELSE SelectLodForBudget(cands[e], left)]

(* select_visible_for_client_with_lod_context: what the loop decides for each *)
(* candidate, having paid for those popped before it.                         *)
SelectUpdates(cands, budget) ==
  LET spent(chosen, e) ==
        SumFunction([d \in {d \in DOMAIN cands : PoppedBefore(cands, d, e)} |->
                       ChoiceBytes(cands[d], chosen[d])])
      chosen[e \in DOMAIN cands] == Turn(cands, e)[budget - spent(chosen, e)]
  IN  [e \in DOMAIN cands |-> chosen[e]]

\* Mutant: a deferred candidate passes for sent.
AfterSelectionDeferredSent(known, cands, chosen) ==
  [e \in Entity |-> IF e \in DOMAIN cands
                     THEN [freshness |-> "current", lod |-> chosen[e], score |-> 0]
                     ELSE known[e]]

\* Mutant: deferred candidates accumulate no priority.
AfterSelectionScoreLost(known, cands, chosen) ==
  [e \in Entity |->
     IF e \notin DOMAIN cands \/ chosen[e] = Deferred THEN known[e]
     ELSE [freshness |-> "current", lod |-> chosen[e], score |-> 0]]

\* Mutant: a candidate keeps its priority when it is sent.
AfterSelectionScoreKept(known, cands, chosen) ==
  [e \in Entity |->
     IF e \notin DOMAIN cands THEN known[e]
     ELSE IF chosen[e] = Deferred THEN [known[e] EXCEPT !.score = cands[e].score]
     ELSE [freshness |-> "current", lod |-> chosen[e], score |-> cands[e].score]]

\* What the client is known to have afterwards: a deferred candidate keeps the
\* priority it has accumulated, a selected one starts again from zero.
AfterSelection(known, cands, chosen) ==
  [e \in Entity |->
     IF e \notin DOMAIN cands THEN known[e]
     ELSE IF chosen[e] = Deferred THEN [known[e] EXCEPT !.score = cands[e].score]
     ELSE [freshness |-> "current", lod |-> chosen[e], score |-> 0]]
===============================================================================
