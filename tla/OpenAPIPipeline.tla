--------------------------- MODULE OpenAPIPipeline ---------------------------
(***************************************************************************)
(* The maintainers' pipeline, internal/openapipipeline and tools/openapi:  *)
(* a catalog of upstream evidence is harvested for a product, a draft of   *)
(* its plugin generated from it, and the reviewed draft promoted into      *)
(* plugins/ and recorded as the baseline.  The commands run one after the  *)
(* other and hand over nothing but files; each writes them in place, one   *)
(* by one, and may be interrupted by an error or a kill after any of them  *)
(* or in the middle of one.                                                *)
(*                                                                         *)
(* diff and review change nothing but their report, and normalize-labels   *)
(* only the wording of a source: they are no actions of their own.         *)
(***************************************************************************)
EXTENDS CatalogReview

CONSTANTS
    Products,    \* the products, named as their plugins
    History,     \* for each product the catalogs it is ever given, in no order
    MaxVersion,  \* bound: the version each plugin is raised to at most
    Edited,      \* bound: the files of a draft that maintainers edit
    MaxBreaks,   \* bound: the promotions that may have been interrupted and not ended since
    MaxApis      \* bound: the size of the graphs that the graph review is tried on

\* An upstream catalog has every part, and recommends for what it holds.  APIs
\* are numbers.
IsCatalog(c) ==
    /\ DOMAIN c = {"revision", "apis", "recs", "retired", "features", "evidence"}
    /\ c.apis \subseteq Nat /\ IsFiniteSet(c.apis)
    /\ DOMAIN c.recs \subseteq c.apis
    /\ \A api \in DOMAIN c.recs : c.recs[api].api \in Nat

ASSUME PipelineAssumption ==
    /\ IsFiniteSet(Products) /\ NoCommand \notin Products
    /\ MaxApis \in Nat
    /\ Edited \subseteq {"apis.json", "commands.json", "tables.json", "waiters.json",
                        "fixtures", "i18n"}
    /\ \A p \in Products :
          /\ Len(History[p]) \in Nat /\ DOMAIN History[p] = 1 .. Len(History[p])
          /\ \A n \in DOMAIN History[p] : IsCatalog(History[p][n])

VARIABLES
    source,     \* openapi-catalogs/<product>/source.json
    draft,      \* openapi-catalogs/<product>/draft, file by file
    promoted,   \* plugins/<product>, file by file
    baseline,   \* openapi-catalogs/<product>/baseline.json
    promotion,  \* the promotion that is running
    settled,    \* history: the source has been promoted since it was harvested
    breaks,     \* history: promotions interrupted since the last one that ended
    raised      \* history: the plugin's version was raised after its draft was generated

vars == <<source, draft, promoted, baseline, promotion, settled, breaks, raised>>

ContractFiles == {"plugin.json", "apis.json", "commands.json", "waiters.json", "fixtures"}
Files == ContractFiles \cup {"tables.json", "i18n"}

NoFiles == [f \in Files |-> Missing]

AtRest == [product |-> NoCommand, step |-> 0]
Resting == promotion = AtRest

Init ==
    /\ source = [p \in Products |-> Missing]
    /\ draft = [p \in Products |-> NoFiles]
    /\ promoted = [p \in Products |-> NoFiles]
    /\ baseline = [p \in Products |-> Missing]
    /\ promotion = AtRest
    /\ settled = [p \in Products |-> FALSE]
    /\ breaks = [p \in Products |-> 0]
    /\ raised = [p \in Products |-> FALSE]

-----------------------------------------------------------------------------
(* Evidence and drafts.                                                    *)

\* HarvestFromFile: whatever catalog it is given becomes the source, a former
\* one or the present one again included.
Harvest(p) ==
    /\ Resting
    /\ \E file \in {Torn} \cup { Whole(History[p][n]) : n \in DOMAIN History[p] } :
         source' = [source EXCEPT ![p] = file]
    /\ settled' = [settled EXCEPT ![p] = FALSE]
    /\ UNCHANGED <<draft, promoted, baseline, promotion, breaks, raised>>

Draft(c, manifest) ==
    [ f \in Files |->
        CASE f = "plugin.json" -> Whole(manifest)
          [] f = "fixtures"    -> Whole(Fixtures(c))
          [] OTHER             -> Whole(Built(f, c)) ]

\* The old draft is removed, then the files are written.  A draft some of whose
\* files are missing is refused whatever the others hold: the empty one stands
\* for all that an interrupted generation may leave.
Generate(p) ==
    /\ Resting
    /\ IsWhole(source[p])
    /\ promoted[p]["plugin.json"] # Torn
    /\ LET c == source[p].holds
       IN  \E left \in {NoFiles, Draft(c, BuildDraftManifest(c, promoted[p]["plugin.json"]))} :
              draft' = [draft EXCEPT ![p] = left]
    /\ raised' = [raised EXCEPT ![p] = FALSE]
    /\ UNCHANGED <<source, promoted, baseline, promotion, settled, breaks>>

\* A maintainer replaces a file of a generated draft by that of another
\* catalog.
EditDraft(p) ==
    /\ Resting
    /\ \E m, n \in DOMAIN History[p], f \in Edited :
         LET made == Draft(History[p][m], <<>>)
         IN  /\ \A g \in Files \ {"plugin.json"} : draft[p][g] = made[g]
             /\ draft' = [draft EXCEPT ![p][f] = Draft(History[p][n], <<>>)[f]]
    /\ UNCHANGED <<source, promoted, baseline, promotion, settled, breaks, raised>>

\* A maintainer raises the version of the promoted plugin for a release.
RaiseVersion(p) ==
    /\ Resting
    /\ IsWhole(promoted[p]["plugin.json"])
    /\ promoted[p]["plugin.json"].holds.version < MaxVersion[p]
    /\ promoted' = [promoted EXCEPT ![p]["plugin.json"].holds.version = @ + 1]
    /\ raised' = [raised EXCEPT ![p] = TRUE]
    /\ UNCHANGED <<source, draft, baseline, promotion, settled, breaks>>

-----------------------------------------------------------------------------
(* Review.                                                                 *)

Tracked == { p \in Products : source[p] # Missing }
Sources == [ p \in { q \in Products : IsWhole(source[q]) } |-> source[p].holds ]

\* mutant: every target command is looked up in the drafts
BundlesDrafted(p) == draft

\* Where review looks the target command of a recommendation up: in the draft
\* of the product under review, in the promoted plugin of any other.
Bundles(p) == [ q \in Products |-> IF q = p THEN draft[q] ELSE promoted[q] ]

\* ReviewDraft ends without an error and reports the draft ready.  Any tracked
\* source that cannot be read is an error.
ReviewReady(p) ==
    /\ \A q \in Tracked : IsWhole(source[q])
    /\ p \in Tracked
    /\ \A f \in Files : IsWhole(draft[p][f])
    /\ ContractAccepted(draft[p], source[p].holds)
    /\ \A api \in DOMAIN source[p].holds.recs :
          RecommendationAccepted(Sources, Bundles(p), p, api)
    /\ GraphAccepted(Range(Sources))

-----------------------------------------------------------------------------
(* Promotion.                                                              *)

\* mutant: the manifest is written after what it describes
PromoteManifestLate == << "apis.json", "commands.json", "tables.json", "waiters.json",
                          "fixtures", "stale-fixtures", "i18n", "plugin.json", "baseline" >>

\* The order in which PromoteDraft writes; a directory is synchronised by
\* copying what it should hold and then removing what else it holds.
PromoteOrder == << "plugin.json", "apis.json", "commands.json", "tables.json",
                   "waiters.json", "fixtures", "stale-fixtures", "i18n", "baseline" >>

StartPromotion(p) ==
    /\ Resting
    /\ ReviewReady(p)
    /\ promotion' = [product |-> p, step |-> 1]
    /\ UNCHANGED <<source, draft, promoted, baseline, settled, breaks, raised>>

Promoting == promotion.product
Written == PromoteOrder[promotion.step]

\* The directory after some of the draft's fixtures have been copied.
Copied(names) ==
    LET new == draft[Promoting]["fixtures"].holds
        old == promoted[Promoting]["fixtures"].holds
    IN  Whole([ api \in names \cup DOMAIN old |-> IF api \in names THEN new[api] ELSE old[api] ])

WriteNext ==
    /\ ~Resting
    /\ CASE Written = "fixtures" ->
              promoted' = [promoted EXCEPT ![Promoting]["fixtures"] =
                              Copied(DOMAIN draft[Promoting]["fixtures"].holds)]
         [] Written = "stale-fixtures" ->
              promoted' = [promoted EXCEPT ![Promoting]["fixtures"] = draft[Promoting]["fixtures"]]
         [] Written = "baseline" -> promoted' = promoted
         [] OTHER -> promoted' = [promoted EXCEPT ![Promoting][Written] = draft[Promoting][Written]]
    /\ baseline' = IF Written = "baseline"
                   THEN [baseline EXCEPT ![Promoting] = source[Promoting]]
                   ELSE baseline
    /\ LET ends == promotion.step = Len(PromoteOrder)
       IN  /\ promotion' = IF ends THEN AtRest ELSE [promotion EXCEPT !.step = @ + 1]
           /\ breaks' = IF ends THEN [breaks EXCEPT ![Promoting] = 0] ELSE breaks
           /\ settled' = IF ends THEN [settled EXCEPT ![Promoting] = TRUE] ELSE settled
    /\ UNCHANGED <<source, draft, raised>>

\* The promotion is interrupted: before the next file, in the middle of writing
\* it (a file that already holds the same is not written), or after some of
\* the fixtures.
Break ==
    /\ ~Resting
    /\ SumFunction(breaks) < MaxBreaks
    /\ \/ UNCHANGED <<promoted, baseline>>
       \/ /\ Written = "fixtures"
          /\ \E some \in SUBSET DOMAIN draft[Promoting]["fixtures"].holds :
                promoted' = [promoted EXCEPT ![Promoting]["fixtures"] = Copied(some)]
          /\ UNCHANGED baseline
       \/ /\ Written \in Files \ {"fixtures"}
          /\ promoted[Promoting][Written] # draft[Promoting][Written]
          /\ promoted' = [promoted EXCEPT ![Promoting][Written] = Torn]
          /\ UNCHANGED baseline
       \/ /\ Written = "baseline"
          /\ baseline' = [baseline EXCEPT ![Promoting] = Torn]
          /\ UNCHANGED promoted
    /\ promotion' = AtRest
    /\ breaks' = [breaks EXCEPT ![Promoting] = @ + 1]
    /\ UNCHANGED <<source, draft, settled, raised>>

Next ==
    \/ \E p \in Products :
         Harvest(p) \/ Generate(p) \/ EditDraft(p) \/ RaiseVersion(p) \/ StartPromotion(p)
    \/ WriteNext
    \/ Break

Spec == Init /\ [][Next]_vars

-----------------------------------------------------------------------------
(* Properties.                                                             *)

\* Every recommendation of the catalogs, as a relation.
Graph(catalogs) ==
    UNION { { <<api, c.recs[api].api>> : api \in DOMAIN c.recs } : c \in catalogs }

\* If every product's evidence has been promoted since it was harvested, no
\* chain of recommendations leads back to where it began, although each review
\* looked at the sources of one moment only and the products were promoted one
\* by one.  That a source equals its baseline is not enough: a former catalog
\* can be harvested again, and nothing has reviewed it with what the others
\* have become.
SettledIsAcyclic ==
    (Resting /\ \A p \in Products : source[p] = Missing \/ settled[p])
        => ~HasCycle(Graph(Range(Sources)))

EveryGraph == GraphReviewExact(MaxApis)

\* The graph review reports every cycle of recommendations exactly once, over
\* every graph of so many APIs whatever the state is.
GraphReviewIsExact == Resting => EveryGraph

\* A promotion that was interrupted once cannot be overlooked: if the plugin
\* can be loaded and its fingerprint is the baseline's, everything it runs by
\* comes from the baseline's evidence.  That takes the order of the files: the
\* manifest first, the baseline last.
InterruptionIsSeen ==
    \A p \in Products :
        ( /\ promotion.product # p
          /\ breaks[p] <= 1
          /\ IsWhole(baseline[p])
          /\ LoadsBundle(promoted[p])
          /\ promoted[p]["plugin.json"].holds.fingerprint = Fingerprint(baseline[p].holds) )
        => LET accepted == Draft(baseline[p].holds, <<>>)
           IN  \A f \in ContractFiles \ {"plugin.json"} : promoted[p][f] = accepted[f]

\* At every moment, also between two files of a promotion, a plugin that can
\* be loaded asks for a core that has the waiters, transports and bindings its
\* files use.  Typed request bodies are not meant: a plugin that exists keeps
\* its requirement when its catalog comes to need them (buildDraftManifest
\* raises it for the others only), so it may ask for a core without them.
RequirementCovers ==
    \A p \in Products :
        LoadsBundle(promoted[p]) =>
            LET files == promoted[p]
                used == UNION { files[f].holds.features :
                                f \in {"apis.json", "commands.json", "waiters.json"} }
            IN  files["plugin.json"].holds.requires >= CoreNeeded(used \ {"typed-body"})

\* A promotion ends with a plugin whose recommendations can be followed: each
\* one leads to a command of the promoted plugins that is not deprecated.
GuidanceResolves ==
    [][ \A p \in Products :
            (promotion.product = p /\ Written = "baseline" /\ baseline'[p] = source[p]) =>
                LET guidance == promoted[p]["commands.json"].holds.guidance
                IN  \A api \in DOMAIN guidance :
                      Resolves(promoted[guidance[api].command], guidance[api].api) ]_vars

\* A promotion takes neither the version nor the core requirement of a plugin
\* back.  It may if the version was raised after the draft was generated: a
\* stale draft is promoted over it without a word, and this promises nothing.
IdentityKept ==
    [][ \A p \in Products :
            LET before == promoted[p]["plugin.json"]
                after == promoted'[p]["plugin.json"]
            IN  (IsWhole(before) /\ IsWhole(after) /\ ~raised[p]) =>
                    /\ after.holds.version >= before.holds.version
                    /\ after.holds.requires >= before.holds.requires ]_vars
=============================================================================
