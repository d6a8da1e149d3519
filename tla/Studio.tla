------------------------------- MODULE Studio -------------------------------
(***************************************************************************)
(* One product of the catalogue, the copy written for it and its           *)
(* similarity vector: ProductService, CopyGeneratorService and the writes  *)
(* of RecommendationService.                                               *)
(*                                                                         *)
(* GenerateProductCopy drafts one text per tone, has all of them rated by  *)
(* one call and publishes the best; IndexProduct reads the text and stores *)
(* the vector built from it.  Nothing else changes a product's text.  A    *)
(* text is the number of its publication, 0 being what the creator wrote.  *)
(* A call of the model is its outcome; AIClient says what it may cost.     *)
(***************************************************************************)
EXTENDS Actors

CONSTANTS
  Desks,        \* requests of GenerateProductCopy for the product
  Catalogues,   \* requests of IndexAllProducts
  Tones,        \* the tones, a set of numbers in the order of the code
  Threshold,    \* autoPublishThreshold
  Neutral,      \* the score of a variant nobody rated
  MaxScore,
  MaxRuns       \* bound: runs of GenerateProductCopy

ASSUME StudioAssumption ==
  /\ Tones \subseteq Nat /\ IsFiniteSet(Tones)
  /\ MaxScore \in Nat /\ Threshold \in 1..MaxScore
  /\ Neutral \in 0..Threshold - 1
  /\ MaxRuns \in Nat
  /\ Desks \cap Catalogues = {}

VARIABLES
  productStatus, \* products.status; "none" before the row
  text,         \* products.description
  vector,       \* product_embeddings: the text the vector is of, or Unindexed
  drafts,       \* of each desk: the tones that were drafted
  score,        \* of each desk: QualityScore of each draft
  seen,         \* the text IndexProduct has read
  runs,         \* runs so far
  rating,       \* ghost: of each desk, what the model said of each draft
  shown,        \* ghost: the rating of the published text
  rival,        \* ghost: the best rating of its run
  crossed       \* ghost: a text was published while another request held an older one

vars == <<productStatus, text, vector, at, drafts, score, seen, runs, rating, shown, rival,
          crossed, faults>>

Indexers  == Desks \cup Catalogues
Unindexed == MaxRuns + 1
Places    == {"idle", "draft", "rate", "publish", "read", "store"}
Scores    == 0..MaxScore

TypeOK ==
  /\ productStatus \in {"none", "draft", "active"}
  /\ text    \in 0..MaxRuns
  /\ vector  \in 0..Unindexed
  /\ at      \in [Indexers -> Places]
  /\ drafts  \in [Desks -> SUBSET Tones]
  /\ score   \in [Desks -> [Tones -> Scores]]
  /\ seen    \in [Indexers -> 0..MaxRuns]
  /\ runs    \in 0..MaxRuns
  /\ rating  \in [Desks -> [Tones -> Scores]]
  /\ shown   \in Scores
  /\ rival   \in Scores
  /\ crossed \in BOOLEAN
  /\ faults  \in 0..MaxFaults
  /\ \A i \in Indexers : at[i] # "idle" => productStatus # "none"
  /\ vector # Unindexed => vector <= text

Unrated == [t \in Tones |-> Neutral]

Init ==
  /\ productStatus = "none"
  /\ text   = 0
  /\ vector = Unindexed
  /\ at     = [i \in Indexers |-> "idle"]
  /\ drafts = [d \in Desks |-> {}]
  /\ score  = [d \in Desks |-> Unrated]
  /\ seen   = [i \in Indexers |-> 0]
  /\ runs   = 0
  /\ rating = [d \in Desks |-> Unrated]
  /\ shown = 0 /\ rival = 0
  /\ crossed = FALSE
  /\ faults  = 0


----------------------------------------------------------------------------
(* The row and its default variant, one transaction. *)
CreateProduct ==
  /\ productStatus = "none"
  /\ productStatus' = "draft"
  /\ UNCHANGED <<text, vector, at, drafts, score, seen, runs, rating, shown, rival, crossed, faults>>

PublishProduct ==
  /\ productStatus # "none"
  /\ productStatus' = "active"
  /\ UNCHANGED <<text, vector, at, drafts, score, seen, runs, rating, shown, rival, crossed, faults>>

(* GenerateProductCopy loads the product. *)
GenerateProductCopy(d) ==
  /\ at[d] = "idle"
  /\ productStatus # "none"
  /\ runs < MaxRuns
  /\ runs' = runs + 1
  /\ Goto(d, "draft")
  /\ UNCHANGED <<productStatus, text, vector, drafts, score, seen, rating, shown, rival, crossed, faults>>

(* The tones are asked concurrently and failures collected per tone; with  *)
(* no draft at all the run ends.                                           *)
GenerateVariants(d) ==
  /\ at[d] = "draft"
  /\ \E answered \in SUBSET Tones :
       /\ drafts' = [drafts EXCEPT ![d] = answered]
       /\ Goto(d, IF answered = {} THEN "idle" ELSE "rate")
  /\ UNCHANGED <<productStatus, text, vector, score, seen, runs, rating, shown, rival, crossed, faults>>

(* Seeded fault: a rating goes to the tone of that number, drafted or not. *)
ByTone(drafted, t) == Cardinality({u \in Tones : u <= t})

(* The number of a draft in the prompt: those that failed are not counted. *)
Variant(drafted, t) == Cardinality({u \in drafted : u <= t})

NumberIn(drafted, t) == Cardinality({u \in drafted : u <= t})

(* scoreCopies: the model rates some variants by number, any number up to  *)
(* that of the tones.                                                      *)
ScoreCopies(d) ==
  /\ at[d] = "rate"
  /\ \E rated \in SUBSET (1..Cardinality(Tones)) :
       \E answer \in [rated -> Scores] :
         LET Given(number(_, _)) ==
               [t \in Tones |->
                  IF t \in drafts[d] /\ number(drafts[d], t) \in rated
                  THEN answer[number(drafts[d], t)] ELSE Neutral]
         IN /\ score'  = [score EXCEPT ![d] = Given(Variant)]
            /\ rating' = [rating EXCEPT ![d] = Given(NumberIn)]
  /\ Goto(d, "publish")
  /\ UNCHANGED <<productStatus, text, vector, drafts, seen, runs, shown, rival, crossed, faults>>

(* The call fails or its answer is no JSON: every variant stays neutral. *)
ScoringFails(d) ==
  /\ at[d] = "rate"
  /\ score' = [score EXCEPT ![d] = Unrated]
  /\ rating' = [rating EXCEPT ![d] = Unrated]
  /\ Goto(d, "publish")
  /\ UNCHANGED <<productStatus, text, vector, drafts, seen, runs, shown, rival, crossed, faults>>

(* The first of the drafts with the highest score. *)
Best(d) ==
  CHOOSE t \in drafts[d] :
    \A u \in drafts[d] : score[d][t] > score[d][u] \/ (score[d][t] = score[d][u] /\ t <= u)

(* Below the threshold the creator has to decide. *)
KeepForReview(d) ==
  /\ at[d] = "publish"
  /\ score[d][Best(d)] < Threshold
  /\ Goto(d, "idle")
  /\ UNCHANGED <<productStatus, text, vector, drafts, score, seen, runs, rating, shown, rival, crossed, faults>>

(* Seeded fault: the vector is not rebuilt after a publication. *)
AfterPublishNothing == "idle"

(* autoPublish goes on with IndexProduct. *)
AfterPublish == "read"

(* autoPublish: one UPDATE, whatever was published meanwhile. *)
AutoPublish(d) ==
  /\ at[d] = "publish"
  /\ score[d][Best(d)] >= Threshold
  /\ text' = text + 1
  /\ shown' = rating[d][Best(d)]
  /\ rival' = rating[d][CHOOSE t \in drafts[d] : \A u \in drafts[d] : rating[d][t] >= rating[d][u]]
  /\ crossed' = (crossed \/ \E i \in Indexers \ {d} : at[i] = "store")
  /\ Goto(d, AfterPublish)
  /\ UNCHANGED <<productStatus, vector, drafts, score, seen, runs, rating, faults>>

(* IndexAllProducts lists the active products. *)
IndexAllProducts(c) ==
  /\ at[c] = "idle"
  /\ productStatus = "active"
  /\ Goto(c, "read")
  /\ UNCHANGED <<productStatus, text, vector, drafts, score, seen, runs, rating, shown, rival, crossed, faults>>

(* IndexProduct reads the text ... *)
ReadProduct(i) ==
  /\ at[i] = "read"
  /\ seen' = [seen EXCEPT ![i] = text]
  /\ Goto(i, "store")
  /\ UNCHANGED <<productStatus, text, vector, drafts, score, runs, rating, shown, rival, crossed, faults>>

(* ... and stores its vector over whatever is there. *)
StoreEmbedding(i) ==
  /\ at[i] = "store"
  /\ vector' = seen[i]
  /\ Goto(i, "idle")
  /\ UNCHANGED <<productStatus, text, drafts, score, seen, runs, rating, shown, rival, crossed, faults>>

(* A statement fails, or the request times out: what was written stays. *)
RequestFails(i) ==
  /\ Fault
  /\ at[i] # "idle"
  /\ Goto(i, "idle")
  /\ UNCHANGED <<productStatus, text, vector, drafts, score, seen, runs, rating, shown, rival, crossed>>

Run(d) ==
  \/ GenerateProductCopy(d)
  \/ GenerateVariants(d)
  \/ ScoreCopies(d)
  \/ ScoringFails(d)
  \/ KeepForReview(d)
  \/ AutoPublish(d)

Index(i) ==
  \/ ReadProduct(i)
  \/ StoreEmbedding(i)
  \/ RequestFails(i)

Next ==
  \/ CreateProduct
  \/ PublishProduct
  \/ \E d \in Desks : Run(d)
  \/ \E c \in Catalogues : IndexAllProducts(c)
  \/ \E i \in Indexers : Index(i)

Spec == Init /\ [][Next]_vars

----------------------------------------------------------------------------
(* A text the creator did not write was rated by the model at the          *)
(* threshold or above, and no draft of its run was rated higher: neither a *)
(* failed rating nor one for a draft that does not exist publishes         *)
(* anything.  (scoreCopies, GenerateProductCopy, autoPublish.)  Every      *)
(* variable keeps its type.                                                *)
PublishedWasRated ==
  /\ TypeOK
  /\ text # 0 => shown >= Threshold /\ shown >= rival

(* At rest the vector of a product whose text was published, or that was   *)
(* indexed before, is that of the current text, unless a call failed or a  *)
(* text was published while another request was between reading and        *)
(* storing.  (autoPublish, IndexProduct, IndexAllProducts.)                *)
VectorIsCurrent ==
  /\ \A i \in Indexers : at[i] \notin {"read", "store"}
  /\ text # 0 \/ vector # Unindexed
  => vector = text \/ crossed \/ faults > 0
=============================================================================
