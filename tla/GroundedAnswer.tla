--------------------------- MODULE GroundedAnswer ---------------------------
(***************************************************************************)
(* A question answered from a canonical bundle by a model nobody trusts:   *)
(* hits are resolved to nodes, a bounded packet of their evidence goes to  *)
(* the provider, and only claims whose citations lead back to selected     *)
(* nodes survive.  What is rejected or left open becomes the queries of a  *)
(* bounded number of repairs; the best attempt is the answer.              *)
(***************************************************************************)
EXTENDS Integers, Sequences, FiniteSets, SequencesExt, FiniteSetsExt

CONSTANTS
  Bundles,      \* bundles: artifacts, nodes, documents and edges, all numbers
  HitLists,     \* what a search may return: sequences of hits
  Responses,    \* what the provider may say: drafts and unresolved questions
  MaxHits, MaxNodes, MaxEdges, MaxEvidence, MinEvidence, MaxText, MaxPrompt, MaxClaims, MaxPasses,  \* Options
  Limit,        \* the request's result limit
  Inference,    \* Options.AllowInference
  Native        \* the provider can only quote: ProfileNeuroForgeNativeExtractive

\* indexBundle: references are closed, and a hit's number means one thing, but that
\* a node may be the projection of the artifact of its number.
BundleOK(b) ==
  LET nodes == DOMAIN b.nodes  docs == DOMAIN b.documents IN
  /\ \A n \in nodes :
       /\ b.nodes[n].artifact \in b.artifacts \cup {0} /\ b.nodes[n].evidence \subseteq b.evidence
       /\ n \in b.artifacts => b.nodes[n].artifact = n /\ b.nodes[n].evidence = {}
  /\ docs \cap (nodes \cup b.artifacts) = {}
  /\ \A d \in docs : /\ b.documents[d].subjects \subseteq nodes
                     /\ IsInjective([i \in DOMAIN b.documents[d].sections |-> b.documents[d].sections[i].id])
  /\ \A e \in b.edges : {e.from, e.to} \subseteq nodes /\ e.evidence \subseteq b.evidence

AnswerAssumption ==
  /\ \E b \in Bundles : BundleOK(b)
  /\ 1 <= MinEvidence /\ MinEvidence <= MaxEvidence
  /\ \A n \in {MaxHits, MaxNodes, MaxEdges, MaxText, MaxPrompt, MaxClaims, MaxPasses, Limit} : n \in Nat \ {0}

VARIABLES
  bundle,
  hits,       \* the retrieval of this pass
  pass,
  doing,      \* "search", "prepare", "generate", "judge", "repair", "compile", "done", "failed"
  packet,     \* what was prepared: nodes, evidence, its owners, excerpts of sources
  reply,      \* what the provider said
  attempts,   \* of each pass: claims, rejected drafts, open questions, and why it abstained
  queries,    \* searches a repair has still to make
  results,    \* what they returned
  verdict,    \* Verification.State
  answer,     \* the attempt that is returned
  found       \* auxiliary: every hit a search returned

answerVars == <<bundle, hits, pass, doing, packet, reply, attempts, queries, results, verdict, answer, found>>

NoPacket == [nodes |-> << >>, evidence |-> << >>, owners |-> << >>, excerpts |-> << >>]
NoReply == [drafts |-> << >>, open |-> 0]
NoAnswer == [claims |-> {}, rejected |-> {}, drafts |-> 0, open |-> 0, asks |-> 0, why |-> "none"]

AnswerTypeOK ==
  /\ bundle \in Bundles /\ pass \in 0..MaxPasses
  /\ doing \in {"search", "prepare", "generate", "judge", "repair", "compile", "done", "failed"}
  /\ Len(attempts) <= pass + 1 /\ Len(hits) <= MaxHits + Limit
  /\ verdict \in {"none", "verified", "grounded_with_unresolved_gaps", "abstained_after_repairs"}

AnswerInit ==
  /\ bundle \in Bundles /\ hits = << >> /\ pass = 0 /\ doing = "search"
  /\ packet = NoPacket /\ reply = NoReply /\ attempts = << >>
  /\ queries = 0 /\ results = << >> /\ verdict = "none" /\ answer = NoAnswer /\ found = {}

-----------------------------------------------------------------------------
(* The context: prepareContext.                                            *)

Upto(s, n) == IF Len(s) > n THEN SubSeq(s, 1, n) ELSE s
Ascending(S) == SetToSortSeq(S, LAMBDA x, y : x < y)
Firsts(s) == FoldLeft(LAMBDA seen, x : IF Contains(seen, x) THEN seen ELSE Append(seen, x), << >>, s)

\* An artifact stands for all its nodes, a document for its subjects and, when a
\* parser of this program made it, its sections; any other hit is unknown.
ResolveHitNodes(h) ==
  Ascending(
    IF h \in bundle.artifacts THEN {n \in DOMAIN bundle.nodes : bundle.nodes[n].artifact = h}
    ELSE IF h \in DOMAIN bundle.nodes THEN {h}
    ELSE IF h \in DOMAIN bundle.documents
      THEN LET doc == bundle.documents[h] IN
           doc.subjects \cup {s.id : s \in {x \in Range(doc.sections) : doc.parsed /\ x.id \in DOMAIN bundle.nodes}}
    ELSE {})

\* The nodes of the considered hits in their order, each once.
SelectedNodes == Upto(Firsts(FlattenSeq([i \in 1..Len(Upto(hits, MaxHits)) |-> ResolveHitNodes(hits[i])])), MaxNodes)

Between(N) == Upto(SetToSortSeq({e \in bundle.edges : e.from \in N /\ e.to \in N}, LAMBDA e, f : e.id < f.id), MaxEdges)

\* Evidence of the nodes, then of the edges between them, each once.
Evidence(nodes, edges) ==
  Upto(Firsts(FlattenSeq([i \in 1..Len(nodes) |-> Ascending(bundle.nodes[nodes[i]].evidence)])
              \o FlattenSeq([i \in 1..Len(edges) |-> Ascending(edges[i].evidence)])), MaxEvidence)

\* defect: an edge's evidence is owned by the nodes at the ends of any such edge
AllOwners(ev, nodes, edges) ==
  {n \in Range(nodes) : ev \in bundle.nodes[n].evidence}
  \cup UNION {{e.from, e.to} : e \in {f \in bundle.edges : ev \in f.evidence}}

\* Every selected node the evidence was met at.
Owners(ev, nodes, edges) ==
  {n \in Range(nodes) : ev \in bundle.nodes[n].evidence \/ \E e \in Range(edges) : ev \in e.evidence /\ n \in {e.from, e.to}}

\* One unit of the text budget for every record; what does not fit is cut.
Left(nodes, edges, evidence) == Max({0, MaxText - Len(nodes) - Len(edges) - Len(evidence)})

\* canonicalSourceExcerpts: of each selected section of a validated document, when the
\* section is still what its parser made, the text of each included evidence, once,
\* redacted and cut to the budget; its place must fit whole.
Excerpts(nodes, evidence, left) ==
  LET Docs == SelectSeq(Ascending(DOMAIN bundle.documents), LAMBDA d : bundle.documents[d].parsed /\ bundle.documents[d].validated)
      Sections == SelectSeq(FlattenSeq([i \in DOMAIN Docs |-> bundle.documents[Docs[i]].sections]),
                            LAMBDA s : s.id \in Range(nodes) /\ s.canonical)
      Candidates == FlattenSeq([i \in DOMAIN Sections |->
                      [j \in DOMAIN Ascending(Sections[i].evidence) |->
                        [evidence |-> Ascending(Sections[i].evidence)[j], section |-> Sections[i].id, text |-> Sections[i].text]]])
      Take(acc, c) ==
        IF \/ c.evidence \notin Range(evidence)
           \/ \E i \in DOMAIN acc.taken : acc.taken[i].evidence = c.evidence
           \/ acc.left <= 1
        THEN acc
        ELSE LET text == Min({c.text, acc.left - 1}) IN
             [taken |-> Append(acc.taken, [evidence |-> c.evidence, section |-> c.section, text |-> text, cut |-> text < c.text]),
              left |-> acc.left - 1 - text]
  IN  FoldLeft(Take, [taken |-> << >>, left |-> left], Candidates).taken

Prepare ==
  /\ doing = "prepare" /\ BundleOK(bundle)
  /\ LET nodes == SelectedNodes
         edges == Between(Range(nodes))
         evidence == Evidence(nodes, edges)
     IN  packet' = [nodes |-> nodes, evidence |-> evidence,
                    owners |-> [ev \in Range(evidence) |-> Owners(ev, nodes, edges)],
                    excerpts |-> Excerpts(nodes, evidence, Left(nodes, edges, evidence))]
  /\ doing' = "generate"
  /\ UNCHANGED <<bundle, hits, pass, reply, attempts, queries, results, verdict, answer, found>>

\* The prompt grows with everything in it.
PromptBytes == Len(packet.nodes) + Len(packet.evidence) + FoldLeft(LAMBDA n, x : n + x.text, 0, packet.excerpts)

-----------------------------------------------------------------------------
(* One attempt: groundedanswer.Service.Answer.                             *)

Attempt(a) ==
  /\ attempts' = Append(attempts, a) /\ doing' = "repair" /\ packet' = NoPacket /\ reply' = NoReply
  /\ UNCHANGED <<bundle, hits, pass, queries, results, verdict, answer, found>>

\* Too little evidence, or too much of it, is no error.
Abstain ==
  /\ doing = "generate"
  /\ \/ /\ Len(packet.evidence) < MinEvidence \/ packet.nodes = << >>
        /\ Attempt([NoAnswer EXCEPT !.why = "insufficient_evidence"])
     \/ /\ Len(packet.evidence) >= MinEvidence /\ packet.nodes # << >> /\ PromptBytes > MaxPrompt
        /\ Attempt([NoAnswer EXCEPT !.why = "context_budget_exceeded"])

MayAsk == doing = "generate" /\ Len(packet.evidence) >= MinEvidence /\ packet.nodes # << >> /\ PromptBytes <= MaxPrompt

Generate(r) ==
  /\ MayAsk /\ ~Native /\ reply' = r /\ doing' = "judge"
  /\ UNCHANGED <<bundle, hits, pass, packet, attempts, queries, results, verdict, answer, found>>

\* A provider that only quotes answers with a line of one whole excerpt.
Quote(i) ==
  /\ MayAsk /\ Native /\ ~packet.excerpts[i].cut
  /\ reply' = [drafts |-> <<[text |-> packet.excerpts[i].section, cites |-> <<packet.excerpts[i].evidence>>,
                             sound |-> TRUE, certainty |-> "supported"]>>, open |-> 0]
  /\ doing' = "judge"
  /\ UNCHANGED <<bundle, hits, pass, packet, attempts, queries, results, verdict, answer, found>>

\* ValidateResponse, of the i-th draft.
Admissible(i, draft) ==
  /\ i <= MaxClaims /\ draft.sound
  /\ draft.cites # << >> /\ IsInjective(draft.cites)
  /\ Range(draft.cites) \subseteq Range(packet.evidence)
  /\ draft.certainty = "supported" \/ (draft.certainty = "inferred" /\ Inference)

Same(d, e) == d.text = e.text /\ d.certainty = e.certainty /\ Range(d.cites) = Range(e.cites)

\* convertClaims: each citation leads to nodes, and nothing is claimed twice.
Survives(i) ==
  LET draft == reply.drafts[i] IN
  /\ Admissible(i, draft)
  /\ \A ev \in Range(draft.cites) : packet.owners[ev] # {}
  /\ \A j \in 1..i - 1 : Admissible(j, reply.drafts[j]) => ~Same(reply.drafts[j], draft)

ClaimOf(draft) ==
  [text |-> draft.text, evidence |-> Range(draft.cites), nodes |-> UNION {packet.owners[ev] : ev \in Range(draft.cites)}]

Judge ==
  /\ doing = "judge"
  /\ LET ok == {i \in DOMAIN reply.drafts : Survives(i)}
         rejected == DOMAIN reply.drafts \ ok
     IN  Attempt([claims |-> {ClaimOf(reply.drafts[i]) : i \in ok},
                  rejected |-> rejected, drafts |-> Len(reply.drafts), open |-> reply.open,
                  asks |-> Cardinality({reply.drafts[i].text : i \in rejected}) + reply.open,
                  why |-> IF ok = {} THEN "no_valid_grounded_claims" ELSE "none"])

-----------------------------------------------------------------------------
(* Repairs: answerapp.Service.verifyAndCompile.                            *)

Gaps(a) == Cardinality(a.rejected) + a.open
NeedsRepair(a) == Gaps(a) > 0 \/ a.why = "no_valid_grounded_claims"

\* Texts of rejected drafts, each once, and open questions, three at most.
RepairQueries(a) == Min({3, a.asks})

Better(a, b) ==
  \/ Cardinality(a.claims) > Cardinality(b.claims)
  \/ /\ Cardinality(a.claims) = Cardinality(b.claims)
     /\ \/ Gaps(a) < Gaps(b)
        \/ Gaps(a) = Gaps(b) /\ a.claims # {} /\ b.claims = {}

SelectBest(as) == FoldLeft(LAMBDA best, a : IF Better(a, best) THEN a ELSE best, as[1], Tail(as))

Compile(state) ==
  /\ answer' = SelectBest(attempts)
  /\ verdict' = IF state = "verified" THEN state
                ELSE IF answer'.claims # {} THEN "grounded_with_unresolved_gaps" ELSE "abstained_after_repairs"
  /\ doing' = "done"
  /\ UNCHANGED <<bundle, hits, pass, packet, reply, attempts, queries, results, found>>

Decide ==
  /\ doing = "repair" /\ results = << >> /\ queries = 0
  /\ LET last == attempts[Len(attempts)] IN
     IF ~NeedsRepair(last) THEN Compile("verified")
     ELSE IF pass = MaxPasses \/ RepairQueries(last) = 0 THEN Compile("repair_exhausted")
     ELSE /\ queries' = RepairQueries(last)
          /\ UNCHANGED <<bundle, hits, pass, doing, packet, reply, attempts, results, verdict, answer, found>>

\* The first retrieval, and one per query of a repair.
Search(list) ==
  \/ /\ doing = "search" /\ hits' = list /\ doing' = "prepare" /\ found' = Range(list)
     /\ UNCHANGED <<bundle, pass, packet, reply, attempts, queries, results, verdict, answer>>
  \/ /\ doing = "repair" /\ queries > 0
     /\ queries' = queries - 1 /\ results' = Append(results, list) /\ found' = found \cup Range(list)
     /\ UNCHANGED <<bundle, hits, pass, doing, packet, reply, attempts, verdict, answer>>

\* Reciprocal ranks, 1/(60 + rank), in units that make them whole numbers.
Unit == 61 * 62 * 63
Score(lists, h) ==
  MapThenSumSet(LAMBDA i : MapThenSumSet(LAMBDA r : IF lists[i][r] = h THEN Unit \div (60 + r) ELSE 0, DOMAIN lists[i]),
                DOMAIN lists)

MergeRetrieval(lists, limit) ==
  Upto(SetToSortSeq(UNION {Range(lists[i]) : i \in DOMAIN lists},
                    LAMBDA g, h : Score(lists, g) > Score(lists, h) \/ (Score(lists, g) = Score(lists, h) /\ g < h)), limit)

Merge ==
  /\ doing = "repair" /\ queries = 0 /\ results # << >>
  /\ hits' = MergeRetrieval(<<hits>> \o results, Min({MaxHits, Limit * (pass + 2)}))
  /\ pass' = pass + 1 /\ doing' = "prepare" /\ results' = << >>
  /\ UNCHANGED <<bundle, packet, reply, attempts, queries, verdict, answer, found>>

\* A retrieval, a provider or a cancellation ends the whole question with an error,
\* and so does a response that is not for this request or not from this model, and
\* a bundle whose references are not closed.
Fail ==
  /\ doing \notin {"done", "failed"} /\ doing' = "failed"
  /\ UNCHANGED <<bundle, hits, pass, packet, reply, attempts, queries, results, verdict, answer, found>>

AnswerNext ==
  \/ \E list \in HitLists : Search(list)
  \/ Prepare \/ Abstain \/ (\E r \in Responses : Generate(r)) \/ (\E i \in DOMAIN packet.excerpts : Quote(i)) \/ Judge
  \/ Decide \/ Merge \/ Fail

AnswerSpec == AnswerInit /\ [][AnswerNext]_answerVars

-----------------------------------------------------------------------------
\* The nodes a retrieved hit stands for.
Retrieved == UNION {Range(ResolveHitNodes(h)) : h \in found}

Supports(n, ev) == ev \in bundle.nodes[n].evidence \/ \E e \in bundle.edges : ev \in e.evidence /\ n \in {e.from, e.to}

\* Whatever the model says over all passes, a published claim cites evidence of the
\* bundle, and names only retrieved nodes, each with some of that evidence.
ClaimsGrounded ==
  \A c \in answer.claims :
    /\ c.evidence # {} /\ c.nodes # {} /\ c.nodes \subseteq Retrieved
    /\ \A ev \in c.evidence : \E n \in c.nodes : Supports(n, ev)
    /\ \A n \in c.nodes : \E ev \in c.evidence : Supports(n, ev)

\* Text that reaches the model is of a section a search led to, and of evidence the
\* model may cite, and there is no more of it than the budget has.
ExcerptsBounded ==
  /\ \A i \in DOMAIN packet.excerpts :
       LET x == packet.excerpts[i] IN
       x.section \in Retrieved /\ x.evidence \in Range(packet.evidence) /\ packet.owners[x.evidence] # {} /\ x.text > 0
  /\ FoldLeft(LAMBDA n, x : n + x.text, 0, packet.excerpts) < MaxText

\* The answer is never worse than another attempt, it abstains exactly when it claims
\* nothing, and no draft is lost: each was published or is kept as rejected.
AttemptsKept ==
  doing = "done" =>
    /\ Len(attempts) = pass + 1
    /\ \A i \in DOMAIN attempts : Cardinality(attempts[i].claims) <= Cardinality(answer.claims)
    /\ (answer.why # "none") <=> (answer.claims = {})
    /\ answer.drafts = Cardinality(answer.claims) + Cardinality(answer.rejected)
    /\ verdict = "abstained_after_repairs" => answer.claims = {}

AnswerSound == AnswerTypeOK /\ ClaimsGrounded /\ ExcerptsBounded /\ AttemptsKept
=============================================================================
