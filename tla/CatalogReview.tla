---------------------------- MODULE CatalogReview ----------------------------
(***************************************************************************)
(* What internal/openapipipeline computes from an OpenAPI catalog without  *)
(* keeping state: the files of a plugin draft, the earliest core that can  *)
(* run them, and the review of the recommendations between catalogs.       *)
(*                                                                         *)
(* A catalog is reduced to what generation and review tell apart:          *)
(*   revision  upstream's number, the only field a fingerprint leaves out  *)
(*   apis      the operations, each named by its method and path           *)
(*   recs      [api, command] for the operations upstream points away from,*)
(*             command being the plugin of the reviewed target command     *)
(*   retired   the operations whose text calls them deprecated             *)
(*   features  what the runtime needs a newer core for                     *)
(*   evidence  the captured example responses                              *)
(* APIs are numbers, ordered as their names are.                           *)
(***************************************************************************)
EXTENDS Naturals, Sequences, FiniteSets, FiniteSetsExt, SequencesExt, Functions, StoredFiles

\* The command of a recommendation that has none.
NoCommand == "none"

-----------------------------------------------------------------------------
(* Recommendations as a graph over APIs.                                   *)

\* Every target some tracked catalog recommends instead of an API.
Targets(catalogs, api) ==
    { c.recs[api].api : c \in { d \in catalogs : api \in DOMAIN d.recs } }

Recommending(catalogs) == UNION { DOMAIN c.recs : c \in catalogs }

\* An API with two targets is ambiguous and has no edge.
Ambiguous(catalogs) ==
    { api \in Recommending(catalogs) : Cardinality(Targets(catalogs, api)) > 1 }

Edges(catalogs) ==
    [ api \in Recommending(catalogs) \ Ambiguous(catalogs) |->
          CHOOSE target \in Targets(catalogs, api) : TRUE ]

\* mutant: a path ends only where it meets an earlier one
WalkBlind(edges, visited) ==
    LET walk[path \in Seq(Nat)] ==
            IF \/ Last(path) \notin DOMAIN edges
               \/ edges[Last(path)] \in ToSet(path)
            THEN path
            ELSE walk[Append(path, edges[Last(path)])]
    IN  walk

\* The path from its last node on, until an API without an edge, one that is
\* on the path, or one that an earlier path has visited.
Walk(edges, visited) ==
    LET walk[path \in Seq(Nat)] ==
            IF \/ Last(path) \notin DOMAIN edges
               \/ edges[Last(path)] \in ToSet(path) \cup visited
            THEN path
            ELSE walk[Append(path, edges[Last(path)])]
    IN  walk

\* The part of a path that its last edge closes, if it closes one.
ClosedPart(edges, path) ==
    IF /\ Last(path) \in DOMAIN edges
       /\ edges[Last(path)] \in ToSet(path)
    THEN SubSeq(path, CHOOSE i \in DOMAIN path : path[i] = edges[Last(path)], Len(path))
    ELSE <<>>

\* CanonicalRecommendationCycle: the rotation that begins with the least API.
Canonical(cycle) ==
    LET start == CHOOSE i \in DOMAIN cycle : \A j \in DOMAIN cycle : cycle[i] <= cycle[j]
    IN  [ k \in DOMAIN cycle |-> cycle[((start + k - 2) % Len(cycle)) + 1] ]

\* One round of analyzeRecommendationGraph's loop over the sources in order.
VisitFrom(edges, review, start) ==
    IF start \notin DOMAIN edges \/ start \in review.visited
    THEN review
    ELSE LET path == Walk(edges, review.visited)[<<start>>]
             cycle == ClosedPart(edges, path)
         IN  [ visited |-> review.visited \cup ToSet(path),
               cycles  |-> IF cycle = <<>> THEN review.cycles
                           ELSE Append(review.cycles, Canonical(cycle)) ]

\* The loop, up to API end: VisitFrom does nothing for what is no source.
ReviewUpTo(edges, end) ==
    LET review[n \in 0 .. end] ==
            IF n = 0 THEN [visited |-> {}, cycles |-> <<>>]
            ELSE VisitFrom(edges, review[n - 1], n - 1)
    IN  review

RecommendationCycles(catalogs) ==
    LET end == Max(Recommending(catalogs) \cup {0}) + 1
    IN  ReviewUpTo(Edges(catalogs), end)[end].cycles

\* mutant: only ambiguous targets block a review
GraphUnambiguous(catalogs) == Ambiguous(catalogs) = {}

\* Nothing in the graph blocks a review.
GraphAccepted(catalogs) ==
    Ambiguous(catalogs) = {} /\ RecommendationCycles(catalogs) = <<>>

-----------------------------------------------------------------------------
(* Generation.                                                             *)

\* The core versions a feature asks for, as 10 * minor + patch of 0.minor.patch.
\* generatedCoreRequirement looks for the latest first.
CoreNeeded(features) ==
    IF "independent-bindings" \in features THEN 51
    ELSE IF features \cap {"waiters", "transport"} # {} THEN 50
    ELSE IF "typed-body" \in features THEN 40
    ELSE 31

Max2(a, b) == IF a >= b THEN a ELSE b

\* minimumCoreRequirement, applied for the two features it is applied for when
\* the plugin exists already.
RaisedRequirement(existing, features) ==
    LET waited == IF features \cap {"waiters", "transport"} # {}
                  THEN Max2(existing, 50) ELSE existing
    IN  IF "independent-bindings" \in features THEN Max2(waited, 51) ELSE waited

\* catalogFingerprint: two revisions with the same evidence share it.
Fingerprint(c) == [c EXCEPT !.revision = 0]

FirstVersion == 1

\* plugin.json: the release identity, and the provenance in API.
Manifest(c, version, requires) ==
    [version |-> version, requires |-> requires,
     revision |-> c.revision, fingerprint |-> Fingerprint(c)]

BuildManifest(c) == Manifest(c, FirstVersion, CoreNeeded(c.features))

\* mutant: the release identity starts again with every draft
BuildManifestAnew(c, promoted) == BuildManifest(c)

\* buildDraftManifest over the promoted plugin.json, which is missing or whole.
BuildDraftManifest(c, promoted) ==
    IF promoted = Missing THEN BuildManifest(c)
    ELSE Manifest(c, promoted.holds.version,
                  RaisedRequirement(promoted.holds.requires, c.features))

\* generatedRecommendation: only a reviewed command, and never of an API that
\* is deprecated anyway.
Guidance(c) ==
    [ api \in { a \in DOMAIN c.recs : c.recs[a].command # NoCommand /\ a \notin c.retired } |->
          c.recs[api] ]

Fixtures(c) == [ api \in c.apis |-> c.evidence ]

\* What the generated files hold of a catalog, plugin.json left aside.
Built(name, c) ==
    CASE name = "apis.json"     -> [apis |-> c.apis, retired |-> c.retired,
                                    features |-> c.features \cap {"transport"}]
      [] name = "commands.json" -> [apis |-> c.apis, guidance |-> Guidance(c),
                                    features |-> c.features \cap {"independent-bindings", "typed-body"}]
      [] name = "tables.json"   -> [apis |-> c.apis]
      [] name = "waiters.json"  -> [features |-> c.features \cap {"waiters"}]
      [] name = "i18n"          -> [guidance |-> Guidance(c)]

-----------------------------------------------------------------------------
(* Review.                                                                 *)

\* plugin.LoadBundle: every file is there and can be read, and every command
\* has its API and its table.
LoadsBundle(files) ==
    /\ \A name \in DOMAIN files \ {"fixtures"} : IsWhole(files[name])
    /\ files["commands.json"].holds.apis \subseteq files["apis.json"].holds.apis
    /\ files["commands.json"].holds.apis \subseteq files["tables.json"].holds.apis

\* A command of the bundle with this API that is not deprecated.
Resolves(files, api) ==
    /\ LoadsBundle(files)
    /\ api \in files["commands.json"].holds.apis
    /\ api \in files["apis.json"].holds.apis
    /\ api \notin files["apis.json"].holds.retired

\* reviewOperationRecommendation for the operation api of product; sources maps
\* the tracked products to their catalogs, bundles the owner of a target to
\* the files its command is looked up in.
RecommendationAccepted(sources, bundles, product, api) ==
    LET rec == sources[product].recs[api]
        owners == { q \in DOMAIN sources : rec.api \in sources[q].apis }
    IN  \/ owners = {} /\ rec.command = NoCommand
        \/ \E owner \in owners :
             /\ owners = {owner}
             /\ rec.api \notin sources[owner].retired
             /\ rec.command = owner
             /\ Resolves(bundles[owner], rec.api)

\* reviewExecutionContract and the rest of ReviewDraft over a draft whose
\* metadata files can all be read.
ContractAccepted(files, c) ==
    /\ LoadsBundle(files)
    /\ \A name \in {"apis.json", "commands.json", "tables.json", "waiters.json", "i18n"} :
          files[name].holds = Built(name, c)
    /\ files["fixtures"].holds = Fixtures(c)
    /\ LET manifest == files["plugin.json"].holds
       IN  /\ manifest.fingerprint = Fingerprint(c)
           /\ manifest.revision = c.revision
           /\ "waiters" \in c.features => manifest.requires >= 50
           /\ "independent-bindings" \in c.features => manifest.requires >= 51

-----------------------------------------------------------------------------
(* The reference the graph review is compared with.                        *)

\* A relation has a cycle iff some of its nodes keep a successor among them.
HasCycle(edges) ==
    LET nodes == { e[1] : e \in edges }
    IN  \E S \in (SUBSET nodes) \ {{}} : \A x \in S : \E y \in S : <<x, y>> \in edges

\* The nodes that a function leads back to themselves: each set that holds
\* the next node and what the function leads to from there holds them too.
OnCycle(f) ==
    { x \in DOMAIN f :
        \A S \in SUBSET DOMAIN f :
            /\ f[x] \in DOMAIN f => f[x] \in S
            /\ \A y \in S : f[y] \in DOMAIN f => f[y] \in S
            => x \in S }

\* Two catalogs over the APIs 1 .. n: one recommends any other API for each of
\* some APIs, the second another one for at most one of them.
SmallGraphs(n) ==
    LET points == { f \in UNION { [D -> 1 .. n] : D \in SUBSET (1 .. n) } :
                        \A x \in DOMAIN f : f[x] # x }
        catalog(f) == [recs |-> [ x \in DOMAIN f |-> [api |-> f[x]] ]]
    IN  { {catalog(f), catalog(g)} : f \in points,
                                     g \in { h \in points : Cardinality(DOMAIN h) <= 1 } }

\* The graph review finds exactly the cycles of the unambiguous part of the
\* graph: each of them once, as a walk along the edges from its least API.
ReviewExact(catalogs) ==
    LET cycles == RecommendationCycles(catalogs)
        f == Edges(catalogs)
    IN  /\ UNION { ToSet(cycles[i]) : i \in DOMAIN cycles } = OnCycle(f)
        /\ \A i, j \in DOMAIN cycles :
              i # j => ToSet(cycles[i]) \cap ToSet(cycles[j]) = {}
        /\ \A i \in DOMAIN cycles :
              LET cycle == cycles[i]
              IN  \A k \in DOMAIN cycle :
                    /\ k # 1 => cycle[1] < cycle[k]
                    /\ cycle[(k % Len(cycle)) + 1] = f[cycle[k]]

GraphReviewExact(n) == \A catalogs \in SmallGraphs(n) : ReviewExact(catalogs)
=============================================================================
