------------------------- MODULE OpenAPIPipelineProofs -------------------------
(***************************************************************************)
(* Theorems about OpenAPIPipeline, for any products, any history of their  *)
(* catalogs and any number of interrupted promotions.                      *)
(***************************************************************************)
EXTENDS OpenAPIPipeline, FiniteSetTheorems, SequenceTheorems, WellFoundedInduction,
        TLAPS

IsFcn(f, S) == f = [x \in S |-> f[x]]

(* The variables are functions over the products, and a file is missing,   *)
(* torn or whole.                                                          *)
Stored(file) == file \in {Missing, Torn} \/ file = Whole(file.holds)

Shape ==
    /\ IsFcn(source, Products) /\ IsFcn(baseline, Products)
    /\ IsFcn(draft, Products) /\ IsFcn(promoted, Products)
    /\ breaks \in [Products -> Nat]
    /\ IsFcn(settled, Products) /\ IsFcn(raised, Products)
    /\ promotion \in {AtRest} \cup [product : Products, step : 1 .. 9]
    /\ \A p \in Products :
          /\ IsFcn(draft[p], Files) /\ IsFcn(promoted[p], Files)
          /\ \A f \in Files : Stored(draft[p][f]) /\ Stored(promoted[p][f])

(* The evidence of a product and its baseline are catalogs it was given.   *)
Given(p, file) ==
    file \in {Missing, Torn} \/ \E n \in DOMAIN History[p] : file = Whole(History[p][n])

Evidence(p) == Given(p, source[p]) /\ Given(p, baseline[p])

-----------------------------------------------------------------------------
(* Core requirements.                                                      *)

Runtime == {"apis.json", "commands.json", "waiters.json"}

Needs(features) == CoreNeeded(features \ {"typed-body"})

Covers(manifest, files) ==
    \A f \in Runtime : IsWhole(files[f]) => manifest.requires >= Needs(files[f].holds.features)

Numbered(manifest) ==
    /\ manifest = [version |-> manifest.version, requires |-> manifest.requires,
                   revision |-> manifest.revision, fingerprint |-> manifest.fingerprint]
    /\ manifest.version \in Nat
    /\ manifest.requires \in Nat /\ manifest.requires >= 31

(* The manifests of the plugin and of its draft cover the plugin, whatever *)
(* mixture of files it is; the draft's covers its evidence as well, and    *)
(* takes nothing back.                                                     *)
Required(p) ==
    LET d == draft[p]["plugin.json"]
        m == promoted[p]["plugin.json"]
    IN  /\ IsWhole(m) => Numbered(m.holds) /\ Covers(m.holds, promoted[p])
        /\ IsWhole(d) =>
              /\ Numbered(d.holds) /\ Covers(d.holds, promoted[p])
              /\ d.holds.requires >= Needs(d.holds.fingerprint.features)
              /\ IsWhole(m) =>
                    /\ d.holds.requires >= m.holds.requires
                    /\ ~raised[p] => d.holds.version >= m.holds.version
        /\ m = Missing => \A f \in Runtime : ~IsWhole(promoted[p][f])

-----------------------------------------------------------------------------
(* A promotion that runs.                                                  *)

(* The step that completes a file, and the one that begins it. *)
Completes(f) == CASE f = "plugin.json"   -> 1
                  [] f = "apis.json"     -> 2
                  [] f = "commands.json" -> 3
                  [] f = "tables.json"   -> 4
                  [] f = "waiters.json"  -> 5
                  [] f = "fixtures"      -> 7
                  [] f = "i18n"          -> 8

Begins(f) == IF f = "fixtures" THEN 6 ELSE Completes(f)

(* It is still what was reviewed, and the files behind it are the draft's. *)
Running ==
    ~Resting =>
        /\ ReviewReady(Promoting)
        /\ \A f \in Files : Completes(f) < promotion.step =>
              promoted[Promoting][f] = draft[Promoting][f]

-----------------------------------------------------------------------------
(* Interruptions.                                                          *)

(* What a catalog makes of the files a plugin runs by, plugin.json aside.  *)
Made(f, c) == IF f = "fixtures" THEN Whole(Fixtures(c)) ELSE Whole(Built(f, c))

Evidenced == ContractFiles \ {"plugin.json"}

(* The file is that of the baseline. *)
Old(p, f) == IsWhole(baseline[p]) => promoted[p][f] = Made(f, baseline[p].holds)

Merged(new, old) ==
    [api \in DOMAIN new \cup DOMAIN old |-> IF api \in DOMAIN new THEN new[api] ELSE old[api]]

(* Without an interruption what is not written yet is the baseline's.      *)
Unbroken(p) ==
    breaks[p] = 0 =>
        /\ \A f \in Evidenced :
              promotion.product # p \/ promotion.step <= Begins(f) => Old(p, f)
        /\ promotion = [product |-> p, step |-> 7] /\ IsWhole(baseline[p]) =>
              promoted[p]["fixtures"] =
                  Whole(Merged(Fixtures(source[p].holds), Fixtures(baseline[p].holds)))

(* After one interruption a plugin that loads and has the fingerprint of   *)
(* its baseline is the baseline's.                                         *)
Seen(p) ==
    ( /\ IsWhole(baseline[p])
      /\ LoadsBundle(promoted[p])
      /\ promoted[p]["plugin.json"].holds.fingerprint = Fingerprint(baseline[p].holds) )
    => \A f \in Evidenced : promoted[p][f] = Made(f, baseline[p].holds)

Interrupted(p) ==
    /\ Unbroken(p)
    /\ breaks[p] = 1 /\ promotion.product # p => Seen(p)

-----------------------------------------------------------------------------
Inv == /\ Shape /\ Running
       /\ \A p \in Products : Evidence(p) /\ Required(p) /\ Interrupted(p)

-----------------------------------------------------------------------------
(* Lemmas about the operators.                                             *)

(* Files are told apart by what they are. *)
LEMMA FileKinds ==
    /\ Missing # Torn /\ ~IsWhole(Missing) /\ ~IsWhole(Torn)
    /\ \A x : Whole(x) # Missing /\ Whole(x) # Torn /\ IsWhole(Whole(x)) /\ Whole(x).holds = x
    /\ \A file : Stored(file) /\ IsWhole(file) => file = Whole(file.holds)
    /\ Stored(Missing) /\ Stored(Torn) /\ \A x : Stored(Whole(x))
<1>1. /\ Missing.is = "missing" /\ Torn.is = "torn"
      /\ \A x : Whole(x).is = "whole" /\ Whole(x).holds = x
    BY DEF Missing, Torn, Whole
<1>2. /\ Missing # Torn /\ ~IsWhole(Missing) /\ ~IsWhole(Torn)
      /\ \A x : Whole(x) # Missing /\ Whole(x) # Torn /\ IsWhole(Whole(x))
    BY <1>1 DEF IsWhole
<1> QED
    BY <1>1, <1>2 DEF Stored

(* What needs fewer features needs no newer core. *)
LEMMA NeedsGrows ==
    ASSUME NEW A, NEW B, A \subseteq B
    PROVE  Needs(A) \in Nat /\ Needs(B) \in Nat /\ Needs(A) <= Needs(B)
BY DEF Needs, CoreNeeded

LEMMA NeedsUnion ==
    ASSUME NEW A, NEW B, NEW C, NEW n \in Nat, n >= Needs(A), n >= Needs(B), n >= Needs(C)
    PROVE  n >= CoreNeeded((A \cup B \cup C) \ {"typed-body"})
BY DEF Needs, CoreNeeded

LEMMA NeedsLess ==
    ASSUME NEW A
    PROVE  CoreNeeded(A) \in Nat /\ CoreNeeded(A) >= Needs(A) /\ CoreNeeded(A) >= 31
BY DEF Needs, CoreNeeded

(* The requirement of a plugin is never lowered, and raised to what the    *)
(* features ask for.                                                       *)
LEMMA RaisedEnough ==
    ASSUME NEW n \in Nat, n >= 31, NEW A
    PROVE  /\ RaisedRequirement(n, A) \in Nat
           /\ RaisedRequirement(n, A) >= n
           /\ RaisedRequirement(n, A) >= Needs(A)
BY DEF RaisedRequirement, Max2, Needs, CoreNeeded

(* Catalogs with one fingerprint have the same evidence. *)
LEMMA SamePrint ==
    ASSUME NEW c, NEW d, IsCatalog(c), IsCatalog(d), Fingerprint(c) = Fingerprint(d)
    PROVE  /\ c.apis = d.apis /\ c.recs = d.recs /\ c.retired = d.retired
           /\ c.features = d.features /\ c.evidence = d.evidence
<1>1. ASSUME NEW x, IsCatalog(x)
      PROVE  /\ Fingerprint(x).apis = x.apis /\ Fingerprint(x).recs = x.recs
             /\ Fingerprint(x).retired = x.retired /\ Fingerprint(x).features = x.features
             /\ Fingerprint(x).evidence = x.evidence
    BY <1>1 DEF IsCatalog, Fingerprint
<1> QED
    BY <1>1

LEMMA PrintFeatures ==
    ASSUME NEW c, IsCatalog(c)
    PROVE  Fingerprint(c).features = c.features
BY DEF IsCatalog, Fingerprint

(* What a plugin runs by is made of what the fingerprint covers. *)
LEMMA SameMade ==
    ASSUME NEW c, NEW d, IsCatalog(c), IsCatalog(d), Fingerprint(c) = Fingerprint(d),
           NEW f \in Evidenced
    PROVE  Made(f, c) = Made(f, d)
<1>1. /\ c.apis = d.apis /\ c.recs = d.recs /\ c.retired = d.retired
      /\ c.features = d.features /\ c.evidence = d.evidence
    BY SamePrint
<1>2. Guidance(c) = Guidance(d)
    BY <1>1 DEF Guidance
<1>3. CASE f = "fixtures"
    BY <1>1, <1>3 DEF Made, Fixtures
<1>4. CASE f = "apis.json"
    BY <1>1, <1>4 DEF Made, Built
<1>5. CASE f = "commands.json"
    BY <1>1, <1>2, <1>5 DEF Made, Built
<1>6. CASE f = "waiters.json"
    BY <1>1, <1>6 DEF Made, Built
<1> QED
    BY <1>3, <1>4, <1>5, <1>6 DEF Evidenced, ContractFiles

LEMMA AllFiles ==
    Files = {"plugin.json", "apis.json", "commands.json", "waiters.json", "fixtures",
             "tables.json", "i18n"}
BY DEF Files, ContractFiles

(* The draft of a catalog, file by file. *)
LEMMA DraftFiles ==
    ASSUME NEW c, NEW m
    PROVE  /\ IsFcn(Draft(c, m), Files)
           /\ Draft(c, m)["plugin.json"] = Whole(m)
           /\ \A f \in Evidenced : Draft(c, m)[f] = Made(f, c)
           /\ \A f \in Files : IsWhole(Draft(c, m)[f]) /\ Stored(Draft(c, m)[f])
<1>1. Draft(c, m)["plugin.json"] = Whole(m)
    BY AllFiles DEF Draft
<1>2. Draft(c, m)["fixtures"] = Whole(Fixtures(c))
    BY AllFiles DEF Draft
<1>3. ASSUME NEW f \in Files, f # "plugin.json", f # "fixtures"
      PROVE  Draft(c, m)[f] = Whole(Built(f, c))
    BY <1>3 DEF Draft
<1>4. IsFcn(Draft(c, m), Files)
    BY DEF Draft, IsFcn
<1>5. \A f \in Evidenced : Draft(c, m)[f] = Made(f, c)
    BY <1>2, <1>3, AllFiles DEF Made, Evidenced, ContractFiles
<1>6. \A f \in Files : \E x : Draft(c, m)[f] = Whole(x)
    BY <1>1, <1>2, <1>3
<1> QED
    BY <1>1, <1>4, <1>5, <1>6, FileKinds

(* The order of a promotion. *)
LEMMA Order ==
    /\ Len(PromoteOrder) = 9
    /\ PromoteOrder[1] = "plugin.json" /\ PromoteOrder[2] = "apis.json"
    /\ PromoteOrder[3] = "commands.json" /\ PromoteOrder[4] = "tables.json"
    /\ PromoteOrder[5] = "waiters.json" /\ PromoteOrder[6] = "fixtures"
    /\ PromoteOrder[7] = "stale-fixtures" /\ PromoteOrder[8] = "i18n"
    /\ PromoteOrder[9] = "baseline"
BY DEF PromoteOrder

LEMMA Places ==
    /\ Completes("plugin.json") = 1 /\ Completes("apis.json") = 2
    /\ Completes("commands.json") = 3 /\ Completes("tables.json") = 4
    /\ Completes("waiters.json") = 5 /\ Completes("fixtures") = 7 /\ Completes("i18n") = 8
BY DEF Completes

(* What a step of a promotion is about. *)
LEMMA StepFile ==
    ASSUME NEW s \in 1 .. 9
    PROVE  /\ PromoteOrder[s] \in Files \cup {"stale-fixtures", "baseline"}
           /\ PromoteOrder[s] \in Files <=> s \notin {7, 9}
           /\ PromoteOrder[s] = "fixtures" <=> s = 6
           /\ PromoteOrder[s] = "stale-fixtures" <=> s = 7
           /\ PromoteOrder[s] = "baseline" <=> s = 9
           /\ s \notin {6, 7, 9} => Completes(PromoteOrder[s]) = s
           /\ \A f \in Files : Completes(f) = s /\ s # 7 => f = PromoteOrder[s]
           /\ \A f \in Files : Completes(f) = 7 <=> f = "fixtures"
           /\ \A f \in Files : Completes(f) \in 1 .. 8 /\ Completes(f) # 6
<1>1. s = 1 \/ s = 2 \/ s = 3 \/ s = 4 \/ s = 5 \/ s = 6 \/ s = 7 \/ s = 8 \/ s = 9
    OBVIOUS
<1>2. \A f \in Files : Completes(f) \in 1 .. 8 /\ Completes(f) # 6 /\ (Completes(f) = 7 <=> f = "fixtures")
    BY Places, AllFiles
<1>3. \A f \in Files : Completes(f) = s /\ s # 7 => f = PromoteOrder[s]
    BY Places, Order, AllFiles
<1>4. s \notin {6, 7, 9} => Completes(PromoteOrder[s]) = s
    BY <1>1, Places, Order
<1>5. /\ PromoteOrder[s] \in Files \cup {"stale-fixtures", "baseline"}
      /\ PromoteOrder[s] \in Files <=> s \notin {7, 9}
    BY <1>1, Order, AllFiles
<1>6. /\ PromoteOrder[s] = "fixtures" <=> s = 6
      /\ PromoteOrder[s] = "stale-fixtures" <=> s = 7
      /\ PromoteOrder[s] = "baseline" <=> s = 9
    BY <1>1, Order
<1> QED
    BY <1>2, <1>3, <1>4, <1>5, <1>6

(* The files of the products, and those with one file of one put in place. *)
FilesOf(g) == IsFcn(g, Products) /\ \A q \in Products : IsFcn(g[q], Files)

Put(g, h, p, x, e) ==
    /\ FilesOf(h)
    /\ h[p][x] = e
    /\ \A y \in Files : y # x => h[p][y] = g[p][y]
    /\ \A q \in Products : q # p => h[q] = g[q]

LEMMA ReplacedFile ==
    ASSUME NEW g, NEW p \in Products, NEW x \in Files, NEW e, FilesOf(g)
    PROVE  Put(g, [g EXCEPT ![p][x] = e], p, x, e)
<1> DEFINE k == [g[p] EXCEPT ![x] = e]
           h == [g EXCEPT ![p] = k]
<1>1. IsFcn(k, Files) /\ k[x] = e /\ \A y \in Files : y # x => k[y] = g[p][y]
  <2>1. IsFcn(g[p], Files)
      BY DEF FilesOf
  <2> QED
      BY <2>1 DEF IsFcn
<1> HIDE DEF k
<1>2. IsFcn(h, Products) /\ h[p] = k /\ \A q \in Products : q # p => h[q] = g[q]
    BY DEF IsFcn, FilesOf
<1> HIDE DEF h
<1>3. Put(g, h, p, x, e)
    BY <1>1, <1>2 DEF Put, FilesOf
<1>4. h = [g EXCEPT ![p][x] = e]
    BY DEF h, k
<1> QED
    BY <1>3, <1>4

-----------------------------------------------------------------------------
(* What the invariant says of a product, and of a running promotion.       *)

(* Evidence and baseline, where they are whole, are catalogs. *)
LEMMA WholeCatalogs ==
    ASSUME Inv, NEW p \in Products
    PROVE  /\ IsWhole(source[p]) => IsCatalog(source[p].holds)
           /\ IsWhole(baseline[p]) => IsCatalog(baseline[p].holds)
<1>1. Evidence(p)
    BY DEF Inv
<1>2. \A n \in DOMAIN History[p] : IsCatalog(History[p][n])
    BY PipelineAssumption
<1>3. ASSUME NEW file, Given(p, file), IsWhole(file) PROVE IsCatalog(file.holds)
  <2>1. PICK n \in DOMAIN History[p] : file = Whole(History[p][n])
      BY <1>3, FileKinds DEF Given
  <2> QED
      BY <1>2, <2>1, FileKinds
<1> QED
    BY <1>1, <1>3 DEF Evidence

(* A running promotion has a product and a step. *)
LEMMA Promotes ==
    ASSUME Shape, ~Resting
    PROVE  /\ promotion.product \in Products /\ promotion.step \in 1 .. 9
           /\ promotion = [product |-> promotion.product, step |-> promotion.step]
BY DEF Shape, Resting

(* At rest no product is promoted. *)
LEMMA Rests ==
    ASSUME NEW p \in Products
    PROVE  AtRest.product # p /\ \A n : AtRest # [product |-> p, step |-> n]
BY PipelineAssumption DEF AtRest

(* What a review has accepted. *)
LEMMA Reviewed ==
    ASSUME Inv, NEW p \in Products, ReviewReady(p)
    PROVE  /\ IsWhole(source[p]) /\ IsCatalog(source[p].holds)
           /\ \A f \in Files : IsWhole(draft[p][f])
           /\ \A f \in Evidenced : draft[p][f] = Made(f, source[p].holds)
           /\ draft[p]["plugin.json"].holds.fingerprint = Fingerprint(source[p].holds)
<1>1. IsWhole(source[p]) /\ (\A f \in Files : IsWhole(draft[p][f]))
      /\ ContractAccepted(draft[p], source[p].holds)
    BY DEF ReviewReady
<1>2. IsCatalog(source[p].holds)
    BY <1>1, WholeCatalogs
<1>3. \A f \in Files : draft[p][f] = Whole(draft[p][f].holds)
    BY <1>1, FileKinds DEF Inv, Shape
<1>4. /\ draft[p]["plugin.json"].holds.fingerprint = Fingerprint(source[p].holds)
      /\ draft[p]["fixtures"].holds = Fixtures(source[p].holds)
      /\ \A f \in {"apis.json", "commands.json", "tables.json", "waiters.json", "i18n"} :
            draft[p][f].holds = Built(f, source[p].holds)
    BY <1>1 DEF ContractAccepted
<1>5. ASSUME NEW f \in Evidenced PROVE draft[p][f] = Made(f, source[p].holds)
  <2>1. f \in Files /\ (f = "fixtures" \/ f \in {"apis.json", "commands.json", "waiters.json"})
      BY AllFiles DEF Evidenced, ContractFiles
  <2> QED
      BY <1>3, <1>4, <2>1 DEF Made
<1> QED
    BY <1>1, <1>2, <1>4, <1>5

(* A draft that is accepted asks for the core that its files need. *)
LEMMA DraftCovered ==
    ASSUME Inv, NEW p \in Products, ReviewReady(p), NEW f \in Runtime
    PROVE  draft[p]["plugin.json"].holds.requires >= Needs(draft[p][f].holds.features)
<1> DEFINE c == source[p].holds
           d == draft[p]["plugin.json"].holds
<1>1. /\ IsCatalog(c) /\ d.fingerprint = Fingerprint(c)
      /\ draft[p][f] = Made(f, c) /\ IsWhole(draft[p]["plugin.json"])
  <2>1. f \in Evidenced /\ "plugin.json" \in Files
      BY AllFiles DEF Runtime, Evidenced, ContractFiles
  <2> QED
      BY <2>1, Reviewed
<1>2. Numbered(d) /\ d.requires >= Needs(c.features)
    BY <1>1, PrintFeatures DEF Inv, Required
<1>3. draft[p][f].holds = Built(f, c)
    BY <1>1, FileKinds DEF Made, Runtime
<1>4. Built(f, c).features \subseteq c.features
    BY DEF Built, Runtime
<1>5. Needs(Built(f, c).features) \in Nat /\ Needs(c.features) \in Nat
      /\ Needs(Built(f, c).features) <= Needs(c.features)
    BY <1>4, NeedsGrows
<1> QED
    BY <1>2, <1>3, <1>5 DEF Numbered

(* A review stays what it was while only the product itself is written.    *)
LEMMA ReviewStays ==
    ASSUME NEW p \in Products, ReviewReady(p), UNCHANGED <<source, draft>>,
           \A q \in Products : q # p => promoted'[q] = promoted[q]
    PROVE  ReviewReady(p)'
<1>1. Bundles(p)' = Bundles(p)
    BY DEF Bundles
<1>2. Tracked' = Tracked /\ Sources' = Sources
    BY DEF Tracked, Sources
<1> QED
    BY <1>1, <1>2 DEF ReviewReady

-----------------------------------------------------------------------------
(* What is as it was for a product that a step does not touch.             *)
LEMMA EvidenceSame ==
    ASSUME NEW p \in Products, Evidence(p),
           source'[p] = source[p], baseline'[p] = baseline[p]
    PROVE  Evidence(p)'
BY DEF Evidence, Given

LEMMA RequiredSame ==
    ASSUME NEW p \in Products, Required(p),
           draft'[p]["plugin.json"] = draft[p]["plugin.json"], promoted'[p] = promoted[p],
           raised'[p] = raised[p]
    PROVE  Required(p)'
BY DEF Required

LEMMA InterruptedSame ==
    ASSUME NEW p \in Products, Interrupted(p), promotion.product # p, promotion'.product # p,
           breaks'[p] = breaks[p], baseline'[p] = baseline[p], promoted'[p] = promoted[p]
    PROVE  Interrupted(p)'
<1>1. promotion' # [product |-> p, step |-> 7]
    OBVIOUS
<1> QED
    BY <1>1 DEF Interrupted, Unbroken, Seen, Old

-----------------------------------------------------------------------------
(* Steps at rest.                                                          *)

LEMMA HarvestInv == ASSUME Inv, NEW p \in Products, Harvest(p) PROVE Inv'
<1>1. PICK file \in {Torn} \cup { Whole(History[p][n]) : n \in DOMAIN History[p] } :
         source' = [source EXCEPT ![p] = file]
    BY DEF Harvest
<1>2. /\ Resting /\ UNCHANGED <<draft, promoted, baseline, promotion, breaks, raised>>
      /\ settled' = [settled EXCEPT ![p] = FALSE]
    BY DEF Harvest
<1>3. Given(p, file)
    BY DEF Given
<1>4. /\ IsFcn(source', Products) /\ source'[p] = file
      /\ \A q \in Products : q # p => source'[q] = source[q]
  <2>1. IsFcn(source, Products)
      BY DEF Inv, Shape
  <2> QED
      BY <1>1, <2>1 DEF IsFcn
<1>5. IsFcn(settled', Products)
  <2>1. IsFcn(settled, Products)
      BY DEF Inv, Shape
  <2> QED
      BY <1>2, <2>1 DEF IsFcn
<1>6. Shape'
    BY <1>2, <1>4, <1>5 DEF Inv, Shape, Stored
<1>7. Running'
    BY <1>2 DEF Running, Resting
<1>8. Evidence(p)'
    BY <1>2, <1>3, <1>4 DEF Inv, Evidence, Given
<1>9. \A q \in Products : q # p => Evidence(q)'
    BY <1>2, <1>4, EvidenceSame DEF Inv
<1>10. \A q \in Products : Required(q)'
    BY <1>2, RequiredSame DEF Inv
<1>11. \A q \in Products : Interrupted(q)'
    BY <1>2, Rests, InterruptedSame DEF Inv, Resting
<1> QED
    BY <1>6, <1>7, <1>8, <1>9, <1>10, <1>11 DEF Inv

(* A draft that is generated covers the plugin and its own evidence. *)
LEMMA GeneratedRequired ==
    ASSUME Inv, NEW p \in Products, NEW c, IsCatalog(c), NEW m, m = promoted[p]["plugin.json"],
           m # Torn, NEW d, d = BuildDraftManifest(c, m)
    PROVE  /\ Numbered(d) /\ Covers(d, promoted[p])
           /\ d.requires >= Needs(d.fingerprint.features)
           /\ IsWhole(m) => d.requires >= m.holds.requires /\ d.version >= m.holds.version
<1>1. Required(p) /\ Stored(m) /\ Fingerprint(c).features = c.features
    BY AllFiles, PrintFeatures DEF Inv, Shape
<1>2. CASE m = Missing
  <2>1. d = Manifest(c, 1, CoreNeeded(c.features))
      BY <1>2 DEF BuildDraftManifest, BuildManifest, FirstVersion
  <2>2. CoreNeeded(c.features) \in Nat /\ CoreNeeded(c.features) >= 31
        /\ CoreNeeded(c.features) >= Needs(c.features)
      BY NeedsLess
  <2>3. Numbered(d) /\ d.requires >= Needs(d.fingerprint.features)
      BY <1>1, <2>1, <2>2 DEF Manifest, Numbered
  <2>4. \A f \in Runtime : ~IsWhole(promoted[p][f])
      BY <1>1, <1>2 DEF Required
  <2>5. ~IsWhole(m)
      BY <1>2, FileKinds
  <2> QED
      BY <2>3, <2>4, <2>5 DEF Covers
<1>3. CASE m # Missing
  <2>1. m = Whole(m.holds) /\ IsWhole(m)
      BY <1>1, <1>3, FileKinds DEF Stored
  <2>2. Numbered(m.holds) /\ Covers(m.holds, promoted[p])
      BY <1>1, <2>1 DEF Required
  <2> DEFINE r == RaisedRequirement(m.holds.requires, c.features)
  <2>3. d = Manifest(c, m.holds.version, r)
      BY <1>3 DEF BuildDraftManifest
  <2>4. r \in Nat /\ r >= m.holds.requires /\ r >= Needs(c.features)
      BY <2>2, RaisedEnough DEF Numbered
  <2> HIDE DEF r
  <2>5. /\ d.version = m.holds.version /\ d.requires = r /\ d.fingerprint = Fingerprint(c)
        /\ d = [version |-> d.version, requires |-> d.requires, revision |-> d.revision,
                fingerprint |-> d.fingerprint]
      BY <2>3 DEF Manifest
  <2>6. Numbered(d) /\ d.requires >= Needs(d.fingerprint.features)
      BY <1>1, <2>2, <2>4, <2>5 DEF Numbered
  <2>7. \A A : Needs(A) \in Nat
      BY NeedsGrows
  <2>8. Covers(d, promoted[p])
      BY <2>2, <2>4, <2>5, <2>7 DEF Covers, Numbered
  <2> QED
      BY <2>2, <2>4, <2>5, <2>6, <2>8 DEF Numbered
<1> QED
    BY <1>2, <1>3

LEMMA GenerateInv == ASSUME Inv, NEW p \in Products, Generate(p) PROVE Inv'
<1> DEFINE c == source[p].holds
           m == promoted[p]["plugin.json"]
           d == BuildDraftManifest(c, m)
<1>1. PICK left \in {NoFiles, Draft(c, d)} : draft' = [draft EXCEPT ![p] = left]
    BY DEF Generate
<1>2. /\ Resting /\ IsWhole(source[p]) /\ m # Torn /\ raised' = [raised EXCEPT ![p] = FALSE]
      /\ UNCHANGED <<source, promoted, baseline, promotion, settled, breaks>>
    BY DEF Generate
<1>3. IsCatalog(c)
    BY <1>2, WholeCatalogs
<1>4. /\ Numbered(d) /\ Covers(d, promoted[p]) /\ d.requires >= Needs(d.fingerprint.features)
      /\ IsWhole(m) => d.requires >= m.holds.requires /\ d.version >= m.holds.version
    BY <1>2, <1>3, GeneratedRequired
<1>5. IsFcn(left, Files) /\ \A f \in Files : Stored(left[f])
  <2>1. IsFcn(NoFiles, Files) /\ \A f \in Files : Stored(NoFiles[f])
      BY FileKinds DEF NoFiles, IsFcn
  <2> QED
      BY <2>1, DraftFiles
<1>6. left["plugin.json"] = Missing \/ left["plugin.json"] = Whole(d)
  <2>1. NoFiles["plugin.json"] = Missing
      BY AllFiles DEF NoFiles
  <2> QED
      BY <2>1, DraftFiles
<1> HIDE DEF d
<1>7. /\ IsFcn(draft', Products) /\ draft'[p] = left
      /\ \A q \in Products : q # p => draft'[q] = draft[q]
  <2>1. IsFcn(draft, Products)
      BY DEF Inv, Shape
  <2> QED
      BY <1>1, <2>1 DEF IsFcn
<1>8. /\ IsFcn(raised', Products) /\ raised'[p] = FALSE
      /\ \A q \in Products : q # p => raised'[q] = raised[q]
  <2>1. IsFcn(raised, Products)
      BY DEF Inv, Shape
  <2> QED
      BY <1>2, <2>1 DEF IsFcn
<1>9. Shape'
    BY <1>2, <1>5, <1>7, <1>8 DEF Inv, Shape, Stored
<1>10. Running'
    BY <1>2 DEF Running, Resting
<1>11. \A q \in Products : Evidence(q)'
    BY <1>2, EvidenceSame DEF Inv
<1>12. \A q \in Products : q # p => Required(q)'
    BY <1>2, <1>7, <1>8, RequiredSame DEF Inv
<1>13. Required(p)'
  <2>1. promoted'[p] = promoted[p] /\ Required(p)
      BY <1>2 DEF Inv
  <2>2. ~IsWhole(Missing) /\ Whole(d).holds = d
      BY FileKinds
  <2>3. draft'[p]["plugin.json"] = Missing \/ draft'[p]["plugin.json"] = Whole(d)
      BY <1>6, <1>7
  <2> QED
      BY <1>4, <2>1, <2>2, <2>3 DEF Required
<1>14. \A q \in Products : Interrupted(q)'
    BY <1>2, Rests, InterruptedSame DEF Inv, Resting
<1> QED
    BY <1>9, <1>10, <1>11, <1>12, <1>13, <1>14 DEF Inv

LEMMA EditDraftInv == ASSUME Inv, NEW p \in Products, EditDraft(p) PROVE Inv'
<1>1. PICK n \in DOMAIN History[p], f \in Files \ {"plugin.json"} :
         draft' = [draft EXCEPT ![p][f] = Draft(History[p][n], <<>>)[f]]
  <2>1. Edited \subseteq Files \ {"plugin.json"}
      BY PipelineAssumption, AllFiles
  <2>2. \E n \in DOMAIN History[p], f \in Edited :
           draft' = [draft EXCEPT ![p][f] = Draft(History[p][n], <<>>)[f]]
      BY DEF EditDraft
  <2> QED
      BY <2>1, <2>2
<1>2. /\ Resting
      /\ UNCHANGED <<source, promoted, baseline, promotion, settled, breaks, raised>>
    BY DEF EditDraft
<1> DEFINE e == Draft(History[p][n], <<>>)[f]
<1>3. Stored(e)
    BY <1>1, DraftFiles
<1> HIDE DEF e
<1>4. /\ IsFcn(draft', Products) /\ \A q \in Products : IsFcn(draft'[q], Files)
      /\ draft'[p][f] = e /\ \A y \in Files : y # f => draft'[p][y] = draft[p][y]
      /\ \A q \in Products : q # p => draft'[q] = draft[q]
  <2>1. FilesOf(draft) /\ draft' = [draft EXCEPT ![p][f] = e] /\ f \in Files
      BY <1>1 DEF Inv, Shape, FilesOf, e
  <2>2. Put(draft, draft', p, f, e)
      BY <2>1, ReplacedFile
  <2> QED
      BY <2>2 DEF Put, FilesOf
<1>5. Shape'
  <2>1. \A q \in Products : \A y \in Files : Stored(draft'[q][y])
      BY <1>3, <1>4 DEF Inv, Shape
  <2> QED
      BY <1>2, <1>4, <2>1 DEF Inv, Shape, Stored
<1>6. Running'
    BY <1>2 DEF Running, Resting
<1>7. \A q \in Products : draft'[q]["plugin.json"] = draft[q]["plugin.json"]
    BY <1>1, <1>4, AllFiles
<1>8. \A q \in Products : Evidence(q)' /\ Required(q)'
    BY <1>2, <1>7, EvidenceSame, RequiredSame DEF Inv
<1>9. \A q \in Products : Interrupted(q)'
    BY <1>2, Rests, InterruptedSame DEF Inv, Resting
<1> QED
    BY <1>5, <1>6, <1>8, <1>9 DEF Inv

(* Only the version of a whole manifest is raised. *)
LEMMA Raised ==
    ASSUME Inv, NEW p \in Products, RaiseVersion(p),
           NEW m, m = promoted[p]["plugin.json"]
    PROVE  /\ IsWhole(m)
           /\ IsFcn(promoted', Products) /\ \A q \in Products : IsFcn(promoted'[q], Files)
           /\ promoted'[p]["plugin.json"] = Whole([m.holds EXCEPT !.version = @ + 1])
           /\ \A f \in Files : f # "plugin.json" => promoted'[p][f] = promoted[p][f]
           /\ \A q \in Products : q # p => promoted'[q] = promoted[q]
<1>1. IsWhole(m) /\ promoted' = [promoted EXCEPT ![p]["plugin.json"].holds.version = @ + 1]
    BY DEF RaiseVersion
<1>2. m = Whole(m.holds) /\ "plugin.json" \in Files
    BY <1>1, AllFiles, FileKinds DEF Inv, Shape
<1>3. m = [is |-> "whole", holds |-> m.holds]
    BY <1>2 DEF Whole
<1> DEFINE e == [m EXCEPT !.holds.version = @ + 1]
           h == [m.holds EXCEPT !.version = @ + 1]
<1>4. e = [m EXCEPT !.holds = h]
    OBVIOUS
<1>5. promoted' = [promoted EXCEPT ![p]["plugin.json"] = e]
    BY <1>1
<1> HIDE DEF h, e
<1>6. e = Whole(h)
    BY <1>3, <1>4 DEF Whole
<1>7. FilesOf(promoted)
    BY DEF Inv, Shape, FilesOf
<1>8. Put(promoted, promoted', p, "plugin.json", e)
    BY <1>2, <1>5, <1>7, ReplacedFile
<1> QED
    BY <1>1, <1>6, <1>8 DEF h, Put, FilesOf

LEMMA RaiseVersionInv == ASSUME Inv, NEW p \in Products, RaiseVersion(p) PROVE Inv'
<1> DEFINE m == promoted[p]["plugin.json"]
           n == promoted'[p]["plugin.json"]
           d == draft[p]["plugin.json"]
<1>1. /\ IsWhole(m)
      /\ IsFcn(promoted', Products) /\ \A q \in Products : IsFcn(promoted'[q], Files)
      /\ n = Whole([m.holds EXCEPT !.version = @ + 1])
      /\ \A f \in Files : f # "plugin.json" => promoted'[p][f] = promoted[p][f]
      /\ \A q \in Products : q # p => promoted'[q] = promoted[q]
    BY Raised
<1>2. /\ Resting /\ raised' = [raised EXCEPT ![p] = TRUE]
      /\ UNCHANGED <<source, draft, baseline, promotion, settled, breaks>>
    BY DEF RaiseVersion
<1>3. /\ IsFcn(raised', Products) /\ raised'[p] = TRUE
      /\ \A q \in Products : q # p => raised'[q] = raised[q]
  <2>1. IsFcn(raised, Products)
      BY DEF Inv, Shape
  <2> QED
      BY <1>2, <2>1 DEF IsFcn
<1>4. Required(p) /\ Numbered(m.holds) /\ Covers(m.holds, promoted[p])
    BY <1>1 DEF Inv, Required
<1>5. /\ IsWhole(n) /\ n # Missing /\ Stored(n) /\ Numbered(n.holds)
      /\ n.holds.requires = m.holds.requires
      /\ n.holds.fingerprint = m.holds.fingerprint
  <2> DEFINE h == [m.holds EXCEPT !.version = @ + 1]
  <2>1. /\ Numbered(h) /\ h.requires = m.holds.requires
        /\ h.fingerprint = m.holds.fingerprint
      BY <1>4 DEF Numbered
  <2> HIDE DEF h
  <2>2. n = Whole(h)
      BY <1>1 DEF h
  <2> QED
      BY <2>1, <2>2, FileKinds
<1> HIDE DEF n
<1>6. \A f \in Runtime : promoted'[p][f] = promoted[p][f]
    BY <1>1, AllFiles DEF Runtime
<1>7. Shape'
  <2>1. \A q \in Products : \A f \in Files : Stored(promoted'[q][f])
      BY <1>1, <1>5 DEF n, Inv, Shape
  <2> QED
      BY <1>1, <1>2, <1>3, <2>1 DEF Inv, Shape, Stored
<1>8. Running'
    BY <1>2 DEF Running, Resting
<1>9. \A q \in Products : Evidence(q)'
    BY <1>2, EvidenceSame DEF Inv
<1>10. \A q \in Products : q # p => Required(q)' /\ Interrupted(q)'
    BY <1>1, <1>2, <1>3, Rests, RequiredSame, InterruptedSame DEF Inv, Resting
<1>11. Required(p)'
  <2>1. \A x : Covers(x, promoted'[p]) <=> Covers(x, promoted[p])
      BY <1>6 DEF Covers
  <2>2. Covers(n.holds, promoted'[p])
      BY <1>4, <1>5, <1>6 DEF Covers
  <2>3. d' = d /\ raised'[p] = TRUE
      BY <1>2, <1>3
  <2>4. IsWhole(d) => /\ Numbered(d.holds) /\ Covers(d.holds, promoted'[p])
                      /\ d.holds.requires >= Needs(d.holds.fingerprint.features)
                      /\ d.holds.requires >= n.holds.requires
      BY <1>1, <1>4, <1>5, <2>1 DEF Required
  <2> QED
      BY <1>5, <2>2, <2>3, <2>4 DEF n, Required
<1>12. Interrupted(p)'
  <2>1. Interrupted(p) /\ promotion.product # p /\ promotion' # [product |-> p, step |-> 7]
      BY <1>2, Rests DEF Inv, Resting
  <2>2. \A f \in Evidenced : promoted'[p][f] = promoted[p][f]
      BY <1>1, AllFiles DEF Evidenced, ContractFiles
  <2>3. Unbroken(p)'
      BY <1>2, <2>1, <2>2 DEF Interrupted, Unbroken, Old
  <2>4. LoadsBundle(promoted'[p]) => LoadsBundle(promoted[p])
    <3>1. DOMAIN promoted[p] = Files /\ DOMAIN promoted'[p] = Files
        BY <1>1 DEF Inv, Shape, IsFcn
    <3>2. \A f \in Files : f # "plugin.json" => promoted'[p][f] = promoted[p][f]
        BY <1>1
    <3> QED
        BY <1>1, <3>1, <3>2, AllFiles DEF LoadsBundle
  <2>5. (breaks[p] = 1 => Seen(p)) => (breaks'[p] = 1 => Seen(p)')
      BY <1>2, <1>5, <2>2, <2>4 DEF Seen, n
  <2> QED
      BY <2>1, <2>3, <2>5 DEF Interrupted
<1> QED
    BY <1>7, <1>8, <1>9, <1>10, <1>11, <1>12 DEF Inv

LEMMA StartPromotionInv == ASSUME Inv, NEW p \in Products, StartPromotion(p) PROVE Inv'
<1>1. /\ Resting /\ ReviewReady(p) /\ promotion' = [product |-> p, step |-> 1]
      /\ UNCHANGED <<source, draft, promoted, baseline, settled, breaks, raised>>
    BY DEF StartPromotion
<1>2. promotion'.product = p /\ promotion'.step = 1 /\ promotion'.step # 7
    BY <1>1
<1>3. Shape'
    BY <1>1 DEF Inv, Shape, Stored
<1>4. Running'
  <2>1. ReviewReady(p)'
      BY <1>1, ReviewStays
  <2>2. \A f \in Files : ~(Completes(f) < 1)
      BY Places, AllFiles
  <2> QED
      BY <1>2, <2>1, <2>2 DEF Running, Promoting
<1>5. \A q \in Products : Evidence(q)' /\ Required(q)'
    BY <1>1, EvidenceSame, RequiredSame DEF Inv
<1>6. \A q \in Products : q # p => Interrupted(q)'
    BY <1>1, <1>2, Rests, InterruptedSame DEF Inv, Resting
<1>7. Interrupted(p)'
  <2>1. Interrupted(p) /\ promotion.product # p
      BY <1>1, Rests DEF Inv, Resting
  <2>2. promotion' # [product |-> p, step |-> 7]
      BY <1>2
  <2>3. breaks[p] = 0 => \A f \in Evidenced : Old(p, f)'
      BY <1>1, <2>1 DEF Interrupted, Unbroken, Old
  <2>4. Unbroken(p)'
      BY <1>1, <2>2, <2>3 DEF Unbroken
  <2> QED
      BY <1>2, <2>4 DEF Interrupted
<1> QED
    BY <1>3, <1>4, <1>5, <1>6, <1>7 DEF Inv

-----------------------------------------------------------------------------
(* The steps of a promotion.                                               *)

(* A file becomes the draft's at the step that completes it, and fixtures  *)
(* are added the step before.                                              *)
LEMMA WriteDoes ==
    ASSUME Inv, WriteNext, NEW p, p = promotion.product, NEW s, s = promotion.step
    PROVE  /\ FilesOf(promoted')
           /\ \A q \in Products : q # p => promoted'[q] = promoted[q]
           /\ \A f \in Files : Completes(f) = s => promoted'[p][f] = draft[p][f]
           /\ \A f \in Files : Completes(f) # s /\ (s = 6 => f # "fixtures") =>
                 promoted'[p][f] = promoted[p][f]
           /\ s = 6 => promoted'[p]["fixtures"] = Copied(DOMAIN draft[p]["fixtures"].holds)
<1>1. ~Resting /\ p \in Products /\ s \in 1 .. 9 /\ Promoting = p /\ Written = PromoteOrder[s]
    BY Promotes DEF Inv, WriteNext, Promoting, Written
<1>2. FilesOf(promoted)
    BY DEF Inv, Shape, FilesOf
<1>3. CASE s = 6
  <2> DEFINE e == Copied(DOMAIN draft[p]["fixtures"].holds)
  <2>1. Written = "fixtures" /\ "fixtures" \in Files
      BY <1>1, <1>3, StepFile, AllFiles
  <2>2. promoted' = [promoted EXCEPT ![p]["fixtures"] = e]
      BY <1>1, <2>1 DEF WriteNext
  <2> HIDE DEF e
  <2>3. Put(promoted, promoted', p, "fixtures", e)
      BY <1>1, <1>2, <2>1, <2>2, ReplacedFile
  <2>4. \A f \in Files : Completes(f) # 6
      BY <1>1, StepFile
  <2> QED
      BY <1>3, <2>3, <2>4 DEF Put, e
<1>4. CASE s = 7
  <2> DEFINE e == draft[p]["fixtures"]
  <2>1. Written = "stale-fixtures" /\ "fixtures" \in Files
      BY <1>1, <1>4, StepFile, AllFiles
  <2>2. promoted' = [promoted EXCEPT ![p]["fixtures"] = e]
      BY <1>1, <2>1 DEF WriteNext
  <2> HIDE DEF e
  <2>3. Put(promoted, promoted', p, "fixtures", e)
      BY <1>1, <1>2, <2>1, <2>2, ReplacedFile
  <2>4. \A f \in Files : Completes(f) = 7 <=> f = "fixtures"
      BY <1>1, StepFile
  <2> QED
      BY <1>4, <2>3, <2>4 DEF Put, e
<1>5. CASE s = 9
  <2>1. Written = "baseline"
      BY <1>1, <1>5, StepFile
  <2>2. promoted' = promoted
      BY <2>1 DEF WriteNext
  <2>3. \A f \in Files : Completes(f) # 9
      BY <1>1, StepFile
  <2> QED
      BY <1>2, <1>5, <2>2, <2>3
<1>6. CASE s \notin {6, 7, 9}
  <2> DEFINE w == PromoteOrder[s]
             e == draft[p][w]
  <2>1. w \in Files /\ w \notin {"fixtures", "stale-fixtures", "baseline"}
      BY <1>1, <1>6, StepFile
  <2>2. promoted' = [promoted EXCEPT ![p][w] = e]
      BY <1>1, <2>1 DEF WriteNext
  <2>3. \A f \in Files : Completes(f) = s <=> f = w
      BY <1>1, <1>6, StepFile
  <2> HIDE DEF e, w
  <2>4. Put(promoted, promoted', p, w, e)
      BY <1>1, <1>2, <2>1, <2>2, ReplacedFile
  <2> QED
      BY <1>6, <2>3, <2>4 DEF Put, e
<1> QED
    BY <1>3, <1>4, <1>5, <1>6

(* Only the last step touches the baseline, and ends the promotion. *)
LEMMA WriteMoves ==
    ASSUME Inv, WriteNext, NEW p, p = promotion.product, NEW s, s = promotion.step
    PROVE  /\ p \in Products /\ s \in 1 .. 9
           /\ UNCHANGED <<source, draft, raised>> /\ IsFcn(settled', Products)
           /\ s # 9 => /\ promotion' = [product |-> p, step |-> s + 1]
                       /\ UNCHANGED <<baseline, breaks>>
           /\ s = 9 => /\ promotion' = AtRest
                       /\ IsFcn(baseline', Products) /\ baseline'[p] = source[p]
                       /\ \A q \in Products : q # p => baseline'[q] = baseline[q]
                       /\ breaks' \in [Products -> Nat] /\ breaks'[p] = 0
                       /\ \A q \in Products : q # p => breaks'[q] = breaks[q]
<1>1. /\ ~Resting /\ p \in Products /\ s \in 1 .. 9 /\ Promoting = p /\ Written = PromoteOrder[s]
      /\ promotion = [product |-> p, step |-> s]
    BY Promotes DEF Inv, WriteNext, Promoting, Written
<1>2. Written = "baseline" <=> s = 9
    BY <1>1, StepFile
<1>3. UNCHANGED <<source, draft, raised>> /\ IsFcn(settled', Products)
  <2>1. settled' = settled \/ settled' = [settled EXCEPT ![p] = TRUE]
      BY <1>1 DEF WriteNext
  <2>2. IsFcn(settled, Products)
      BY DEF Inv, Shape
  <2> QED
      BY <2>1, <2>2 DEF WriteNext, IsFcn
<1>4. baseline' = IF Written = "baseline" THEN [baseline EXCEPT ![p] = source[p]] ELSE baseline
    BY <1>1 DEF WriteNext
<1>5. /\ promotion' = IF s = 9 THEN AtRest ELSE [promotion EXCEPT !.step = @ + 1]
      /\ breaks' = IF s = 9 THEN [breaks EXCEPT ![p] = 0] ELSE breaks
    BY <1>1, Order DEF WriteNext
<1>6. CASE s # 9
  <2>1. promotion' = [product |-> p, step |-> s + 1]
      BY <1>1, <1>5, <1>6
  <2> QED
      BY <1>1, <1>2, <1>3, <1>4, <1>5, <1>6, <2>1
<1>7. CASE s = 9
  <2>1. baseline' = [baseline EXCEPT ![p] = source[p]] /\ IsFcn(baseline, Products)
      BY <1>2, <1>4, <1>7 DEF Inv, Shape
  <2>2. /\ IsFcn(baseline', Products) /\ baseline'[p] = source[p]
        /\ \A q \in Products : q # p => baseline'[q] = baseline[q]
      BY <1>1, <2>1 DEF IsFcn
  <2>3. breaks' = [breaks EXCEPT ![p] = 0] /\ breaks \in [Products -> Nat]
      BY <1>5, <1>7 DEF Inv, Shape
  <2>4. /\ breaks' \in [Products -> Nat] /\ breaks'[p] = 0
        /\ \A q \in Products : q # p => breaks'[q] = breaks[q]
      BY <1>1, <2>3
  <2> QED
      BY <1>1, <1>3, <1>5, <1>7, <2>2, <2>4
<1> QED
    BY <1>6, <1>7

(* After a step everything up to it is the draft's, the manifest always. *)
LEMMA WrittenSoFar ==
    ASSUME Inv, WriteNext, NEW p, p = promotion.product, NEW s, s = promotion.step
    PROVE  /\ \A f \in Files : Completes(f) <= s => promoted'[p][f] = draft[p][f]
           /\ promoted'[p]["plugin.json"] = draft[p]["plugin.json"]
           /\ \A f \in Files : f # "fixtures" =>
                 promoted'[p][f] = promoted[p][f] \/ promoted'[p][f] = draft[p][f]
<1>1. p \in Products /\ s \in 1 .. 9 /\ ~Resting /\ Promoting = p
    BY WriteMoves DEF WriteNext, Promoting
<1>2. \A f \in Files : Completes(f) < s => promoted[p][f] = draft[p][f]
    BY <1>1 DEF Inv, Running
<1>3. \A f \in Files : Completes(f) \in 1 .. 8 /\ (Completes(f) = 7 <=> f = "fixtures")
    BY <1>1, StepFile
<1>4. ASSUME NEW f \in Files, Completes(f) <= s PROVE promoted'[p][f] = draft[p][f]
  <2>1. CASE Completes(f) = s
      BY <2>1, WriteDoes
  <2>2. CASE Completes(f) # s
    <3>1. Completes(f) < s /\ (s = 6 => f # "fixtures")
        BY <1>1, <1>3, <1>4, <2>2
    <3> QED
        BY <1>2, <2>2, <3>1, WriteDoes
  <2> QED
      BY <2>1, <2>2
<1>5. Completes("plugin.json") <= s /\ "plugin.json" \in Files
    BY <1>1, Places, AllFiles
<1>6. ASSUME NEW f \in Files, f # "fixtures"
      PROVE  promoted'[p][f] = promoted[p][f] \/ promoted'[p][f] = draft[p][f]
    BY <1>4, <1>6, WriteDoes
<1> QED
    BY <1>4, <1>5, <1>6

LEMMA WriteShape == ASSUME Inv, WriteNext PROVE Shape' /\ Running'
<1> PICK p, s : p = promotion.product /\ s = promotion.step
    OBVIOUS
<1>1. p \in Products /\ s \in 1 .. 9 /\ ~Resting /\ Promoting = p
    BY WriteMoves DEF WriteNext, Promoting
<1>2. ReviewReady(p)
    BY <1>1 DEF Inv, Running
<1>3. /\ FilesOf(promoted') /\ \A q \in Products : q # p => promoted'[q] = promoted[q]
      /\ \A f \in Files : Completes(f) = s => promoted'[p][f] = draft[p][f]
      /\ \A f \in Files : Completes(f) # s /\ (s = 6 => f # "fixtures") =>
            promoted'[p][f] = promoted[p][f]
      /\ s = 6 => promoted'[p]["fixtures"] = Copied(DOMAIN draft[p]["fixtures"].holds)
    BY WriteDoes
<1>4. /\ UNCHANGED <<source, draft, raised>> /\ IsFcn(settled', Products)
      /\ s # 9 => promotion' = [product |-> p, step |-> s + 1] /\ UNCHANGED <<baseline, breaks>>
      /\ s = 9 => promotion' = AtRest /\ IsFcn(baseline', Products) /\ breaks' \in [Products -> Nat]
    BY WriteMoves
<1>5. \A f \in Files : Completes(f) <= s => promoted'[p][f] = draft[p][f]
    BY WrittenSoFar
<1>6. \A q \in Products : \A f \in Files : Stored(promoted'[q][f])
  <2>1. Stored(Copied(DOMAIN draft[p]["fixtures"].holds))
      BY FileKinds DEF Copied
  <2>2. \A f \in Files : Stored(draft[p][f]) /\ Stored(promoted[p][f])
      BY <1>1 DEF Inv, Shape
  <2>3. \A f \in Files : Stored(promoted'[p][f])
      BY <1>3, <2>1, <2>2
  <2> QED
      BY <1>1, <1>3, <2>3 DEF Inv, Shape
<1>7. promotion' \in {AtRest} \cup [product : Products, step : 1 .. 9]
    BY <1>1, <1>4
<1>8. IsFcn(baseline', Products) /\ breaks' \in [Products -> Nat]
    BY <1>4 DEF Inv, Shape
<1>9. Shape'
    BY <1>3, <1>4, <1>6, <1>7, <1>8 DEF Inv, Shape, Stored, FilesOf
<1>10. Running'
  <2>1. CASE s = 9
      BY <1>4, <2>1 DEF Running, Resting
  <2>2. CASE s # 9
    <3>1. ReviewReady(p)'
        BY <1>1, <1>2, <1>3, <1>4, ReviewStays
    <3>2. promotion'.product = p /\ promotion'.step = s + 1
        BY <1>4, <2>2
    <3>3. \A f \in Files : Completes(f) \in 1 .. 8
        BY <1>1, StepFile
    <3>4. \A f \in Files : Completes(f) < s + 1 => promoted'[p][f] = draft'[p][f]
        BY <1>1, <1>4, <1>5, <3>3
    <3> QED
        BY <3>1, <3>2, <3>4 DEF Running, Promoting
  <2> QED
      BY <2>1, <2>2
<1> QED
    BY <1>9, <1>10

LEMMA WriteRequired ==
    ASSUME Inv, WriteNext, NEW p, p = promotion.product
    PROVE  Required(p)'
<1> DEFINE d == draft[p]["plugin.json"]
<1>1. p \in Products /\ ~Resting /\ Promoting = p
    BY WriteMoves DEF WriteNext, Promoting
<1>2. ReviewReady(p)
    BY <1>1 DEF Inv, Running
<1>3. draft' = draft /\ promoted'[p]["plugin.json"] = d
    BY WriteMoves, WrittenSoFar
<1>4. IsWhole(d) /\ Required(p) /\ d # Missing
    BY <1>1, <1>2, AllFiles, Reviewed, FileKinds DEF Inv
<1>5. /\ Numbered(d.holds) /\ Covers(d.holds, promoted[p])
      /\ d.holds.requires >= Needs(d.holds.fingerprint.features)
    BY <1>4 DEF Required
<1>6. Covers(d.holds, promoted'[p])
  <2>1. ASSUME NEW f \in Runtime
        PROVE  promoted'[p][f] = promoted[p][f] \/ promoted'[p][f] = draft[p][f]
    <3>1. f \in Files /\ f # "fixtures"
        BY AllFiles DEF Runtime
    <3> QED
        BY <3>1, WrittenSoFar
  <2>2. \A f \in Runtime : d.holds.requires >= Needs(draft[p][f].holds.features)
      BY <1>1, <1>2, DraftCovered
  <2> QED
      BY <1>5, <2>1, <2>2 DEF Covers
<1> HIDE DEF d
<1>7. d.holds.version >= d.holds.version /\ d.holds.requires >= d.holds.requires
    BY <1>5 DEF Numbered
<1>8. draft'[p]["plugin.json"] = d
    BY <1>3 DEF d
<1> QED
    BY <1>3, <1>4, <1>5, <1>6, <1>7, <1>8 DEF Required

LEMMA WriteInterrupted ==
    ASSUME Inv, WriteNext, NEW p, p = promotion.product
    PROVE  Interrupted(p)'
<1> DEFINE s == promotion.step
<1>1. p \in Products /\ s \in 1 .. 9 /\ ~Resting /\ Promoting = p
    BY WriteMoves DEF WriteNext, Promoting
<1>2. ReviewReady(p) /\ Interrupted(p)
    BY <1>1 DEF Inv, Running
<1>3. \A f \in Evidenced : f \in Files /\ draft[p][f] = Made(f, source[p].holds)
    BY <1>1, <1>2, Reviewed, AllFiles DEF Evidenced, ContractFiles
<1>4. \A f \in Files : Completes(f) \in 1 .. 8 /\ (Completes(f) = 7 <=> f = "fixtures")
    BY <1>1, StepFile
<1>5. CASE s = 9
  <2>1. baseline'[p] = source[p] /\ promotion' = AtRest /\ breaks'[p] = 0
      BY <1>5, WriteMoves
  <2>2. \A f \in Evidenced : promoted'[p][f] = Made(f, baseline'[p].holds)
      BY <1>3, <1>4, <1>5, <2>1, WrittenSoFar
  <2>3. AtRest # [product |-> p, step |-> 7]
      BY <1>1, Rests
  <2> QED
      BY <2>1, <2>2, <2>3 DEF Interrupted, Unbroken, Old
<1>6. CASE s # 9
  <2>1. /\ promotion' = [product |-> p, step |-> s + 1] /\ UNCHANGED <<baseline, breaks, source>>
        /\ promotion'.product = p /\ promotion'.step = s + 1
      BY <1>6, WriteMoves
  <2>2. ASSUME NEW f \in Evidenced, breaks[p] = 0, s + 1 <= Begins(f)
        PROVE  Old(p, f)'
    <3>1. s <= Begins(f)
        BY <1>1, <1>3, <1>4, <2>2 DEF Begins
    <3>2. Old(p, f)
        BY <1>2, <2>2, <3>1 DEF Interrupted, Unbroken
    <3>3. Completes(f) # s /\ (s = 6 => f # "fixtures")
        BY <1>1, <1>3, <1>4, <2>2 DEF Begins
    <3>4. promoted'[p][f] = promoted[p][f]
        BY <1>3, <3>3, WriteDoes
    <3> QED
        BY <2>1, <3>2, <3>4 DEF Old
  <2>3. ASSUME breaks[p] = 0, s = 6, IsWhole(baseline[p])
        PROVE  promoted'[p]["fixtures"] =
                  Whole(Merged(Fixtures(source[p].holds), Fixtures(baseline[p].holds)))
    <3>1. "fixtures" \in Evidenced /\ Begins("fixtures") = 6
        BY AllFiles DEF Begins, Evidenced, ContractFiles
    <3>2. promoted[p]["fixtures"] = Made("fixtures", baseline[p].holds)
        BY <1>2, <2>3, <3>1 DEF Interrupted, Unbroken, Old
    <3>3. /\ promoted[p]["fixtures"].holds = Fixtures(baseline[p].holds)
          /\ draft[p]["fixtures"].holds = Fixtures(source[p].holds)
        BY <1>3, <3>1, <3>2, FileKinds DEF Made
    <3>4. promoted'[p]["fixtures"] = Copied(DOMAIN Fixtures(source[p].holds))
        BY <2>3, <3>3, WriteDoes
    <3> QED
        BY <1>1, <3>3, <3>4 DEF Copied, Merged
  <2>4. promotion' = [product |-> p, step |-> 7] => s = 6
      BY <1>1, <2>1
  <2>5. Unbroken(p)'
      BY <2>1, <2>2, <2>3, <2>4 DEF Unbroken
  <2> QED
      BY <2>1, <2>5 DEF Interrupted
<1> QED
    BY <1>5, <1>6

LEMMA WriteInv == ASSUME Inv, WriteNext PROVE Inv'
<1> PICK p, s : p = promotion.product /\ s = promotion.step
    OBVIOUS
<1>1. p \in Products /\ s \in 1 .. 9 /\ ~Resting /\ Promoting = p
    BY WriteMoves DEF WriteNext, Promoting
<1>2. /\ UNCHANGED <<source, draft, raised>>
      /\ promotion'.product = p \/ promotion' = AtRest
      /\ baseline'[p] = source[p] \/ baseline'[p] = baseline[p]
      /\ \A q \in Products : q # p => /\ baseline'[q] = baseline[q] /\ breaks'[q] = breaks[q]
                                      /\ promoted'[q] = promoted[q]
    BY WriteMoves, WriteDoes
<1>3. \A q \in Products : q # p => Evidence(q)' /\ Required(q)'
    BY <1>2, EvidenceSame, RequiredSame DEF Inv
<1>4. \A q \in Products : q # p => Interrupted(q)'
    BY <1>2, Rests, InterruptedSame DEF Inv
<1>5. Evidence(p)'
  <2>1. Evidence(p)
      BY <1>1 DEF Inv
  <2> QED
      BY <1>2, <2>1 DEF Evidence, Given
<1>6. Required(p)' /\ Interrupted(p)'
    BY WriteRequired, WriteInterrupted
<1> QED
    BY <1>3, <1>4, <1>5, <1>6, WriteShape DEF Inv

-----------------------------------------------------------------------------
(* An interruption.                                                        *)

(* It leaves a file torn, or some of the fixtures added, or the baseline   *)
(* torn, or nothing.                                                       *)
LEMMA BreakDoes ==
    ASSUME Inv, Break, NEW p, p = promotion.product, NEW s, s = promotion.step
    PROVE  /\ FilesOf(promoted')
           /\ \A q \in Products : q # p => promoted'[q] = promoted[q]
           /\ IsFcn(baseline', Products) /\ \A q \in Products : q # p => baseline'[q] = baseline[q]
           /\ baseline'[p] \in {baseline[p], Torn}
           /\ \A f \in Files : f # "fixtures" => promoted'[p][f] \in {promoted[p][f], Torn}
           /\ \/ promoted'[p]["fixtures"] = promoted[p]["fixtures"]
              \/ /\ s = 6
                 /\ \E some \in SUBSET DOMAIN draft[p]["fixtures"].holds :
                       promoted'[p]["fixtures"] = Copied(some)
<1>1. ~Resting /\ p \in Products /\ s \in 1 .. 9 /\ Promoting = p /\ Written = PromoteOrder[s]
    BY Promotes DEF Inv, Break, Promoting, Written
<1>2. FilesOf(promoted) /\ IsFcn(baseline, Products)
    BY DEF Inv, Shape, FilesOf
<1>3. CASE UNCHANGED <<promoted, baseline>>
    BY <1>2, <1>3
<1>4. ASSUME Written = "fixtures", UNCHANGED baseline,
             NEW some \in SUBSET DOMAIN draft[p]["fixtures"].holds,
             promoted' = [promoted EXCEPT ![p]["fixtures"] = Copied(some)]
      PROVE  /\ s = 6 /\ Put(promoted, promoted', p, "fixtures", Copied(some))
  <2> DEFINE e == Copied(some)
  <2>1. s = 6 /\ "fixtures" \in Files /\ promoted' = [promoted EXCEPT ![p]["fixtures"] = e]
      BY <1>1, <1>4, StepFile, AllFiles
  <2> HIDE DEF e
  <2>2. Put(promoted, promoted', p, "fixtures", e)
      BY <1>1, <1>2, <2>1, ReplacedFile
  <2> QED
      BY <2>1, <2>2 DEF e
<1>5. ASSUME Written \in Files \ {"fixtures"}, UNCHANGED baseline,
             promoted' = [promoted EXCEPT ![p][Written] = Torn]
      PROVE  Put(promoted, promoted', p, Written, Torn)
  <2>1. PICK w \in Files : w = Written
      BY <1>5
  <2>2. promoted' = [promoted EXCEPT ![p][w] = Torn]
      BY <1>5, <2>1
  <2>3. Put(promoted, promoted', p, w, Torn)
      BY <1>1, <1>2, <2>2, ReplacedFile
  <2> QED
      BY <2>1, <2>3
<1>6. ASSUME baseline' = [baseline EXCEPT ![p] = Torn]
      PROVE  /\ IsFcn(baseline', Products) /\ baseline'[p] = Torn
             /\ \A q \in Products : q # p => baseline'[q] = baseline[q]
    BY <1>1, <1>2, <1>6 DEF IsFcn
<1>7. \/ UNCHANGED <<promoted, baseline>>
      \/ /\ Written = "fixtures" /\ UNCHANGED baseline
         /\ \E some \in SUBSET DOMAIN draft[p]["fixtures"].holds :
               promoted' = [promoted EXCEPT ![p]["fixtures"] = Copied(some)]
      \/ /\ Written \in Files \ {"fixtures"} /\ UNCHANGED baseline
         /\ promoted' = [promoted EXCEPT ![p][Written] = Torn]
      \/ baseline' = [baseline EXCEPT ![p] = Torn] /\ UNCHANGED promoted
    BY <1>1 DEF Break
<1>8. CASE /\ Written = "fixtures" /\ UNCHANGED baseline
           /\ \E some \in SUBSET DOMAIN draft[p]["fixtures"].holds :
                 promoted' = [promoted EXCEPT ![p]["fixtures"] = Copied(some)]
    BY <1>2, <1>4, <1>8 DEF Put
<1>9. CASE /\ Written \in Files \ {"fixtures"} /\ UNCHANGED baseline
           /\ promoted' = [promoted EXCEPT ![p][Written] = Torn]
    BY <1>2, <1>5, <1>9, AllFiles DEF Put
<1>10. CASE baseline' = [baseline EXCEPT ![p] = Torn] /\ UNCHANGED promoted
    BY <1>2, <1>6, <1>10
<1> QED
    BY <1>3, <1>7, <1>8, <1>9, <1>10

LEMMA BreakMoves ==
    ASSUME Inv, Break, NEW p, p = promotion.product
    PROVE  /\ p \in Products /\ ~Resting /\ promotion.step \in 1 .. 9 /\ Promoting = p
           /\ UNCHANGED <<source, draft, settled, raised>> /\ promotion' = AtRest
           /\ breaks' \in [Products -> Nat] /\ breaks'[p] = breaks[p] + 1 /\ breaks[p] \in Nat
           /\ \A q \in Products : q # p => breaks'[q] = breaks[q]
<1>1. /\ ~Resting /\ p \in Products /\ Promoting = p /\ promotion.step \in 1 .. 9
    BY Promotes DEF Inv, Break, Promoting
<1>2. /\ UNCHANGED <<source, draft, settled, raised>> /\ promotion' = AtRest
      /\ breaks' = [breaks EXCEPT ![p] = @ + 1]
    BY <1>1 DEF Break
<1>3. breaks \in [Products -> Nat]
    BY DEF Inv, Shape
<1> QED
    BY <1>1, <1>2, <1>3

LEMMA BreakShape == ASSUME Inv, Break PROVE Shape' /\ Running'
<1> PICK p, s : p = promotion.product /\ s = promotion.step
    OBVIOUS
<1>1. /\ p \in Products /\ UNCHANGED <<source, draft, settled, raised>> /\ promotion' = AtRest
      /\ breaks' \in [Products -> Nat]
    BY BreakMoves
<1>2. /\ FilesOf(promoted') /\ \A q \in Products : q # p => promoted'[q] = promoted[q]
      /\ IsFcn(baseline', Products)
      /\ \A f \in Files : f # "fixtures" => promoted'[p][f] \in {promoted[p][f], Torn}
      /\ \/ promoted'[p]["fixtures"] = promoted[p]["fixtures"]
         \/ \E some : promoted'[p]["fixtures"] = Copied(some)
    BY BreakDoes
<1>3. \A some : Stored(Copied(some))
    BY FileKinds DEF Copied
<1>4. \A f \in Files : Stored(promoted[p][f])
    BY <1>1 DEF Inv, Shape
<1>5. \A f \in Files : Stored(promoted'[p][f])
    BY <1>2, <1>3, <1>4, FileKinds
<1>6. \A q \in Products : \A f \in Files : Stored(promoted'[q][f])
    BY <1>2, <1>5 DEF Inv, Shape
<1>7. Shape'
    BY <1>1, <1>2, <1>6 DEF Inv, Shape, Stored, FilesOf
<1> QED
    BY <1>1, <1>7 DEF Running, Resting

LEMMA BreakRequired ==
    ASSUME Inv, Break, NEW p, p = promotion.product
    PROVE  Required(p)'
<1> DEFINE m == promoted[p]["plugin.json"]
           n == promoted'[p]["plugin.json"]
           d == draft[p]["plugin.json"]
<1>1. p \in Products /\ Required(p) /\ UNCHANGED <<draft, raised>>
    BY BreakMoves DEF Inv
<1>2. \A f \in Runtime \cup {"plugin.json"} : promoted'[p][f] \in {promoted[p][f], Torn}
  <2>1. \A f \in Runtime \cup {"plugin.json"} : f \in Files /\ f # "fixtures"
      BY AllFiles DEF Runtime
  <2> QED
      BY <2>1, BreakDoes
<1>3. \A f \in Runtime : IsWhole(promoted'[p][f]) => promoted'[p][f] = promoted[p][f]
    BY <1>2, FileKinds
<1>4. \A x : Covers(x, promoted[p]) => Covers(x, promoted'[p])
    BY <1>3 DEF Covers
<1>5. (n = m) \/ (n = Torn /\ ~IsWhole(n) /\ n # Missing)
    BY <1>2, FileKinds
<1>6. draft'[p]["plugin.json"] = d /\ raised'[p] = raised[p]
    BY <1>1
<1> HIDE DEF n
<1>7. IsWhole(n) => Numbered(n.holds) /\ Covers(n.holds, promoted'[p])
    BY <1>1, <1>4, <1>5 DEF Required
<1>8. IsWhole(d) => /\ Numbered(d.holds) /\ Covers(d.holds, promoted'[p])
                    /\ d.holds.requires >= Needs(d.holds.fingerprint.features)
                    /\ IsWhole(n) => /\ d.holds.requires >= n.holds.requires
                                     /\ ~raised[p] => d.holds.version >= n.holds.version
    BY <1>1, <1>4, <1>5 DEF Required
<1>9. n = Missing => \A f \in Runtime : ~IsWhole(promoted'[p][f])
    BY <1>1, <1>3, <1>5 DEF Required
<1> QED
    BY <1>6, <1>7, <1>8, <1>9 DEF Required, n

(* The promotion that is interrupted for the first time cannot be          *)
(* overlooked: where the manifest is the draft's already, a plugin that    *)
(* has the baseline's fingerprint was written from the same evidence.      *)
LEMMA BreakSeen ==
    ASSUME Inv, Break, NEW p, p = promotion.product, breaks[p] = 0
    PROVE  Seen(p)'
<1> DEFINE s == promotion.step
           b == baseline[p].holds
           c == source[p].holds
<1> SUFFICES ASSUME IsWhole(baseline'[p]), LoadsBundle(promoted'[p]),
                    promoted'[p]["plugin.json"].holds.fingerprint = Fingerprint(baseline'[p].holds),
                    NEW f \in Evidenced
             PROVE  promoted'[p][f] = Made(f, baseline'[p].holds)
    BY DEF Seen
<1>1. /\ p \in Products /\ ~Resting /\ s \in 1 .. 9 /\ Promoting = p
      /\ Interrupted(p) /\ ReviewReady(p)
    BY BreakMoves DEF Inv, Running, Promoting
<1>2. baseline'[p] = baseline[p] /\ IsWhole(baseline[p]) /\ IsCatalog(b)
    BY <1>1, BreakDoes, WholeCatalogs, FileKinds
<1>3. \A g \in Files : g # "fixtures" => promoted'[p][g] = promoted[p][g]
  <2>1. DOMAIN promoted'[p] = Files
      BY <1>1, BreakDoes DEF FilesOf, IsFcn
  <2>2. \A g \in Files : g # "fixtures" => IsWhole(promoted'[p][g])
      BY <2>1 DEF LoadsBundle
  <2> QED
      BY <2>2, BreakDoes, FileKinds
<1>4. promoted[p]["plugin.json"].holds.fingerprint = Fingerprint(b)
    BY <1>2, <1>3, AllFiles
<1>5. /\ \A g \in Evidenced : s <= Begins(g) => promoted[p][g] = Made(g, b)
      /\ s = 7 => promoted[p]["fixtures"] = Whole(Merged(Fixtures(c), Fixtures(b)))
  <2>1. Unbroken(p) /\ promotion = [product |-> p, step |-> s]
      BY <1>1, Promotes DEF Interrupted, Inv
  <2> QED
      BY <1>2, <2>1 DEF Unbroken, Old
<1>6. f \in Files /\ f # "plugin.json"
    BY AllFiles DEF Evidenced, ContractFiles
<1>7. CASE s = 1
  <2>1. s <= Begins(f)
      BY <1>6, <1>7, AllFiles, Places DEF Begins
  <2>2. promoted'[p][f] = promoted[p][f]
      BY <1>3, <1>6, <1>7, BreakDoes
  <2> QED
      BY <1>2, <1>5, <2>1, <2>2
<1>8. CASE s # 1
  <2>1. \A g \in Files : Completes(g) < s => promoted[p][g] = draft[p][g]
      BY <1>1 DEF Inv, Running
  <2>2. promoted[p]["plugin.json"] = draft[p]["plugin.json"]
      BY <1>1, <1>8, <2>1, Places, AllFiles
  <2>3. /\ IsCatalog(c) /\ Fingerprint(c) = Fingerprint(b)
        /\ \A g \in Evidenced : draft[p][g] = Made(g, c)
      BY <1>1, <1>4, <2>2, Reviewed
  <2>4. \A g \in Evidenced : Made(g, c) = Made(g, b)
      BY <1>2, <2>3, SameMade
  <2>5. "fixtures" \in Evidenced /\ "fixtures" \in Files
      BY AllFiles DEF Evidenced, ContractFiles
  <2>6. Fixtures(c) = Fixtures(b)
    <3>1. Whole(Fixtures(c)) = Whole(Fixtures(b))
        BY <2>4, <2>5 DEF Made
    <3> QED
        BY <3>1, FileKinds
  <2>7. \A S \in SUBSET DOMAIN Fixtures(b) :
           [api \in S \cup DOMAIN Fixtures(b) |->
               IF api \in S THEN Fixtures(b)[api] ELSE Fixtures(b)[api]] = Fixtures(b)
      BY DEF Fixtures
  <2>8. promoted[p][f] = Made(f, b)
    <3>1. Completes(f) < s \/ s <= Begins(f) \/ (f = "fixtures" /\ s = 7)
        BY <1>1, <1>6, AllFiles, Places DEF Begins
    <3>2. CASE f = "fixtures" /\ s = 7
      <4>1. Merged(Fixtures(b), Fixtures(b)) = Fixtures(b)
          BY DEF Merged, Fixtures
      <4> QED
          BY <1>5, <2>6, <3>2, <4>1 DEF Made
    <3>3. CASE Completes(f) < s
        BY <1>6, <2>1, <2>3, <2>4, <3>3
    <3> QED
        BY <1>5, <3>1, <3>2, <3>3
  <2>9. CASE promoted'[p][f] = promoted[p][f]
      BY <1>2, <2>8, <2>9
  <2>10. CASE promoted'[p][f] # promoted[p][f]
    <3>1. f = "fixtures" /\ s = 6
        BY <1>3, <1>6, <2>10, BreakDoes
    <3>2. PICK some \in SUBSET DOMAIN draft[p]["fixtures"].holds :
             promoted'[p]["fixtures"] = Copied(some)
        BY <2>10, <3>1, BreakDoes
    <3>3. draft[p]["fixtures"].holds = Fixtures(b) /\ promoted[p]["fixtures"].holds = Fixtures(b)
        BY <2>3, <2>5, <2>6, <2>8, <3>1, FileKinds DEF Made
    <3>4. Copied(some) = Whole(Fixtures(b))
        BY <1>1, <2>7, <3>2, <3>3 DEF Copied
    <3> QED
        BY <1>2, <3>1, <3>2, <3>4 DEF Made
  <2> QED
      BY <2>9, <2>10
<1> QED
    BY <1>7, <1>8

LEMMA BreakInv == ASSUME Inv, Break PROVE Inv'
<1> PICK p : p = promotion.product
    OBVIOUS
<1>1. /\ p \in Products /\ UNCHANGED <<source, draft, settled, raised>> /\ promotion' = AtRest
      /\ breaks'[p] = breaks[p] + 1 /\ breaks[p] \in Nat
      /\ \A q \in Products : q # p => breaks'[q] = breaks[q]
    BY BreakMoves
<1>2. /\ \A q \in Products : q # p => promoted'[q] = promoted[q] /\ baseline'[q] = baseline[q]
      /\ baseline'[p] \in {baseline[p], Torn}
    BY BreakDoes
<1>3. \A q \in Products : q # p => Evidence(q)' /\ Required(q)' /\ Interrupted(q)'
    BY <1>1, <1>2, Rests, EvidenceSame, RequiredSame, InterruptedSame DEF Inv
<1>4. Evidence(p)'
    BY <1>1, <1>2 DEF Evidence, Given, Inv
<1>5. Interrupted(p)'
  <2>1. breaks'[p] # 0 /\ (breaks'[p] = 1 => breaks[p] = 0)
      BY <1>1
  <2>2. breaks[p] = 0 => Seen(p)'
      BY BreakSeen
  <2> QED
      BY <2>1, <2>2 DEF Interrupted, Unbroken
<1> QED
    BY <1>1, <1>3, <1>4, <1>5, BreakShape, BreakRequired DEF Inv

-----------------------------------------------------------------------------
(* The invariant.                                                          *)

LEMMA InitInv == Init => Inv
<1> SUFFICES ASSUME Init PROVE Inv
    OBVIOUS
<1>1. \A p \in Products : /\ source[p] = Missing /\ baseline[p] = Missing
                          /\ draft[p] = NoFiles /\ promoted[p] = NoFiles
                          /\ breaks[p] = 0
    BY DEF Init
<1>2. IsFcn(NoFiles, Files) /\ \A f \in Files : NoFiles[f] = Missing
    BY DEF NoFiles, IsFcn
<1>3. Shape
  <2>1. /\ IsFcn(source, Products) /\ IsFcn(baseline, Products) /\ IsFcn(draft, Products)
        /\ IsFcn(promoted, Products) /\ IsFcn(raised, Products)
        /\ IsFcn(settled, Products) /\ breaks \in [Products -> Nat] /\ promotion = AtRest
      BY DEF Init, IsFcn
  <2> QED
      BY <1>1, <1>2, <2>1, FileKinds DEF Shape
<1>4. Running
    BY DEF Init, Running, Resting
<1>5. \A p \in Products : Evidence(p)
    BY <1>1 DEF Evidence, Given
<1>6. \A p \in Products : Required(p)
  <2>1. \A f \in Runtime \cup {"plugin.json"} : f \in Files
      BY AllFiles DEF Runtime
  <2> QED
      BY <1>1, <1>2, <2>1, FileKinds DEF Required
<1>7. \A p \in Products : Interrupted(p)
  <2>1. \A p \in Products : promotion # [product |-> p, step |-> 7]
      BY Rests DEF Init
  <2> QED
      BY <1>1, <2>1, FileKinds DEF Interrupted, Unbroken, Seen, Old
<1> QED
    BY <1>3, <1>4, <1>5, <1>6, <1>7 DEF Inv

LEMMA SameInv == ASSUME Inv, UNCHANGED vars PROVE Inv'
<1>1. UNCHANGED <<source, draft, promoted, baseline, promotion, settled, breaks, raised>>
    BY DEF vars
<1>2. Shape' /\ Running'
  <2>1. Running'
    <3>1. ~Resting => ReviewReady(Promoting)'
        BY <1>1 DEF Inv, Running, Resting, Promoting, ReviewReady, Tracked, Sources, Bundles
    <3> QED
        BY <1>1, <3>1 DEF Inv, Running, Resting, Promoting
  <2> QED
      BY <1>1, <2>1 DEF Inv, Shape, Stored
<1>3. \A p \in Products : Evidence(p)' /\ Required(p)' /\ Interrupted(p)'
    BY <1>1 DEF Inv, Evidence, Given, Required, Interrupted, Unbroken, Seen, Old
<1> QED
    BY <1>2, <1>3 DEF Inv

LEMMA StepInv == ASSUME Inv, [Next]_vars PROVE Inv'
<1>1. ASSUME NEW p \in Products,
             Harvest(p) \/ Generate(p) \/ EditDraft(p) \/ RaiseVersion(p) \/ StartPromotion(p)
      PROVE  Inv'
    BY <1>1, HarvestInv, GenerateInv, EditDraftInv, RaiseVersionInv, StartPromotionInv
<1> QED
    BY <1>1, WriteInv, BreakInv, SameInv DEF Next

(* In every reachable state the files of a plugin, its draft, its evidence *)
(* and its baseline fit together as the pipeline's commands leave them.    *)
THEOREM PipelineInvariant == Spec => []Inv
<1>1. Inv /\ [Next]_vars => Inv'
    BY StepInv
<1> QED
    BY <1>1, InitInv, PTL DEF Spec

-----------------------------------------------------------------------------
(* What follows from it.                                                   *)

(* A plugin that loads asks for a core that has what its files use, also   *)
(* between two files of a promotion and after an interrupted one.          *)
THEOREM RequirementHolds == Spec => []RequirementCovers
<1>1. Inv => RequirementCovers
  <2> SUFFICES ASSUME Inv, NEW p \in Products, LoadsBundle(promoted[p])
               PROVE  LET files == promoted[p]
                          used == UNION { files[f].holds.features : f \in Runtime }
                      IN  files["plugin.json"].holds.requires >= CoreNeeded(used \ {"typed-body"})
      BY DEF RequirementCovers, Runtime
  <2> DEFINE m == promoted[p]["plugin.json"]
             used(f) == promoted[p][f].holds.features
  <2>1. IsWhole(m) /\ \A f \in Runtime : IsWhole(promoted[p][f])
    <3>1. DOMAIN promoted[p] = Files
        BY DEF Inv, Shape, IsFcn
    <3> QED
        BY <3>1, AllFiles DEF LoadsBundle, Runtime
  <2>2. m.holds.requires \in Nat /\ \A f \in Runtime : m.holds.requires >= Needs(used(f))
      BY <2>1 DEF Inv, Required, Numbered, Covers
  <2>3. m.holds.requires >=
           CoreNeeded((used("apis.json") \cup used("commands.json") \cup used("waiters.json"))
                         \ {"typed-body"})
      BY <2>2, NeedsUnion DEF Runtime
  <2>4. UNION { used(f) : f \in Runtime }
           = used("apis.json") \cup used("commands.json") \cup used("waiters.json")
      BY DEF Runtime
  <2> QED
      BY <2>3, <2>4
<1> QED
    BY <1>1, PipelineInvariant, PTL

(* A promotion that was interrupted once cannot be overlooked: the plugin  *)
(* does not load, or does not have the baseline's fingerprint, or has the  *)
(* baseline's files.                                                       *)
THEOREM InterruptionsShow == Spec => []InterruptionIsSeen
<1>1. Inv => InterruptionIsSeen
  <2> SUFFICES ASSUME Inv, NEW p \in Products, promotion.product # p, breaks[p] <= 1,
                      IsWhole(baseline[p]), LoadsBundle(promoted[p]),
                      promoted[p]["plugin.json"].holds.fingerprint = Fingerprint(baseline[p].holds),
                      NEW f \in Evidenced
               PROVE  promoted[p][f] = Draft(baseline[p].holds, <<>>)[f]
      BY DEF InterruptionIsSeen, Evidenced
  <2>1. breaks[p] = 0 \/ breaks[p] = 1
      BY DEF Inv, Shape
  <2>2. promoted[p][f] = Made(f, baseline[p].holds)
      BY <2>1 DEF Inv, Interrupted, Unbroken, Old, Seen
  <2> QED
      BY <2>2, DraftFiles
<1> QED
    BY <1>1, PipelineInvariant, PTL

(* A promotion takes neither version nor core requirement back, unless the *)
(* version was raised after the draft was generated.                       *)
THEOREM IdentityStays == Spec => IdentityKept
<1>1. ASSUME Inv, [Next]_vars, NEW p \in Products,
             IsWhole(promoted[p]["plugin.json"]), IsWhole(promoted'[p]["plugin.json"]), ~raised[p]
      PROVE  /\ promoted'[p]["plugin.json"].holds.version >= promoted[p]["plugin.json"].holds.version
             /\ promoted'[p]["plugin.json"].holds.requires >= promoted[p]["plugin.json"].holds.requires
  <2> DEFINE m == promoted[p]["plugin.json"]
             n == promoted'[p]["plugin.json"]
  <2>1. Numbered(m.holds)
      BY <1>1 DEF Inv, Required
  <2>2. CASE n = m
      BY <2>1, <2>2 DEF Numbered
  <2>3. CASE RaiseVersion(p)
    <3>1. n = Whole([m.holds EXCEPT !.version = @ + 1])
        BY <1>1, <2>3, Raised
    <3>2. n.holds = [m.holds EXCEPT !.version = @ + 1]
        BY <3>1, FileKinds
    <3> QED
        BY <2>1, <3>2 DEF Numbered
  <2>4. ASSUME NEW q \in Products, RaiseVersion(q), q # p PROVE n = m
      BY <1>1, <2>4, Raised
  <2>5. CASE WriteNext
    <3>1. CASE p = promotion.product
      <4>1. n = draft[p]["plugin.json"]
          BY <1>1, <2>5, <3>1, WrittenSoFar
      <4> QED
          BY <1>1, <4>1 DEF Inv, Required
    <3>2. CASE p # promotion.product
        BY <1>1, <2>2, <2>5, <3>2, WriteDoes
    <3> QED
        BY <3>1, <3>2
  <2>6. CASE Break
    <3>1. CASE p = promotion.product
      <4>1. n \in {m, Torn}
          BY <1>1, <2>6, <3>1, BreakDoes, AllFiles
      <4> QED
          BY <1>1, <2>2, <4>1, FileKinds
    <3>2. CASE p # promotion.product
        BY <1>1, <2>2, <2>6, <3>2, BreakDoes
    <3> QED
        BY <3>1, <3>2
  <2>7. CASE \E q \in Products : Harvest(q) \/ Generate(q) \/ EditDraft(q) \/ StartPromotion(q)
      BY <2>2, <2>7 DEF Harvest, Generate, EditDraft, StartPromotion
  <2>8. CASE UNCHANGED vars
      BY <2>2, <2>8 DEF vars
  <2> HIDE DEF m, n
  <2> QED
      BY <1>1, <2>2, <2>3, <2>4, <2>5, <2>6, <2>7, <2>8 DEF Next, m, n
<1>2. Inv /\ [Next]_vars =>
        [ \A p \in Products :
            LET before == promoted[p]["plugin.json"]
                after == promoted'[p]["plugin.json"]
            IN  (IsWhole(before) /\ IsWhole(after) /\ ~raised[p]) =>
                    /\ after.holds.version >= before.holds.version
                    /\ after.holds.requires >= before.holds.requires ]_vars
    BY <1>1
<1> QED
    BY <1>2, PipelineInvariant, PTL DEF Spec, IdentityKept

(* A promotion ends with recommendations that lead to commands of promoted *)
(* plugins: those of the product itself are the draft's by then, those of  *)
(* the others are as the review found them, for nothing else has run.      *)
THEOREM GuidanceLeads == Spec => GuidanceResolves
<1>1. ASSUME Inv, NEW p \in Products, promotion.product = p, Written = "baseline",
             NEW api \in DOMAIN promoted[p]["commands.json"].holds.guidance
      PROVE  LET guidance == promoted[p]["commands.json"].holds.guidance
             IN  Resolves(promoted[guidance[api].command], guidance[api].api)
  <2> DEFINE c == source[p].holds
             rec == c.recs[api]
  <2>1. ~Resting
      BY <1>1, Rests DEF Resting
  <2>2. /\ Promoting = p /\ promotion.step = 9 /\ ReviewReady(p)
        /\ \A f \in Files : Completes(f) < 9 => promoted[p][f] = draft[p][f]
    <3>1. Promoting = p /\ promotion.step \in 1 .. 9 /\ promotion.step = 9
        BY <1>1, <2>1, Promotes, StepFile DEF Inv, Promoting, Written
    <3> QED
        BY <1>1, <2>1, <3>1 DEF Inv, Running
  <2>3. \A f \in Files : promoted[p][f] = draft[p][f]
    <3>1. \A f \in Files : Completes(f) < 9
        BY AllFiles, Places
    <3> QED
        BY <2>2, <3>1
  <2>4. promoted[p] = draft[p]
      BY <1>1, <2>3 DEF Inv, Shape, IsFcn
  <2>5. Bundles(p) = promoted
    <3>1. \A q \in Products : Bundles(p)[q] = promoted[q]
        BY <2>4 DEF Bundles
    <3>2. promoted = [q \in Products |-> promoted[q]]
        BY <1>1 DEF Inv, Shape, IsFcn
    <3>3. Bundles(p) = [q \in Products |-> Bundles(p)[q]]
        BY DEF Bundles
    <3> QED
        BY <3>1, <3>2, <3>3
  <2>6. promoted[p]["commands.json"].holds.guidance = Guidance(c)
    <3>1. "commands.json" \in Evidenced /\ "commands.json" \in Files
        BY AllFiles DEF Evidenced, ContractFiles
    <3>2. promoted[p]["commands.json"] = Made("commands.json", c)
        BY <1>1, <2>2, <2>3, <3>1, Reviewed
    <3>3. promoted[p]["commands.json"].holds = Built("commands.json", c)
        BY <3>2, FileKinds DEF Made
    <3> QED
        BY <3>3 DEF Built
  <2>7. api \in DOMAIN c.recs /\ rec.command # NoCommand /\ Guidance(c)[api] = rec
      BY <1>1, <2>6 DEF Guidance
  <2>8. RecommendationAccepted(Sources, promoted, p, api)
      BY <2>2, <2>5, <2>7 DEF ReviewReady
  <2>9. Sources[p] = c
    <3>1. IsWhole(source[p])
        BY <1>1, <2>2, Reviewed
    <3> QED
        BY <3>1 DEF Sources
  <2> HIDE DEF c, rec
  <2>10. \E owner : rec.command = owner /\ Resolves(promoted[owner], rec.api)
      BY <2>7, <2>8, <2>9 DEF RecommendationAccepted, rec
  <2> QED
      BY <2>6, <2>7, <2>10
<1>2. Inv => \A p \in Products :
            (promotion.product = p /\ Written = "baseline" /\ baseline'[p] = source[p]) =>
                LET guidance == promoted[p]["commands.json"].holds.guidance
                IN  \A api \in DOMAIN guidance :
                      Resolves(promoted[guidance[api].command], guidance[api].api)
    BY <1>1
<1> QED
    BY <1>2, PipelineInvariant, PTL DEF GuidanceResolves

-----------------------------------------------------------------------------
(* The graph review is sound.  Its two recursive functions have solutions  *)
(* because the sources are finitely many; what they compute follows by     *)
(* induction, as the absence of a least number with a counterexample.      *)

(* A set of naturals that is not empty has a least member. *)
LEMMA LeastNumber ==
    ASSUME NEW T, T \subseteq Nat, T # {}
    PROVE  \E m \in T : \A k \in T : m <= k
<1> DEFINE Less == OpToRel(<, Nat)
<1>1. IsWellFoundedOn(Less, Nat)
    BY NatLessThanWellFounded
<1>2. \A k, m \in Nat : k < m => <<k, m>> \in Less
    BY DEF OpToRel
<1> HIDE DEF Less
<1>3. PICK m \in T : \A k \in T : ~(<<k, m>> \in Less)
    BY <1>1, WFMin
<1>4. \A k \in T : ~(k < m)
    BY <1>2, <1>3
<1> QED
    BY <1>4

(* A finite one has a greatest member. *)
LEMMA GreatestNumber ==
    ASSUME NEW S, S \subseteq Nat, IsFiniteSet(S), S # {}
    PROVE  /\ Max(S) \in S
           /\ \A x \in S : x <= Max(S)
<1> DEFINE Endless(R) == R # {} /\ \A x \in R : \E y \in R : ~(y <= x)
           T == {n \in Nat : \E R \in SUBSET S : Endless(R) /\ Cardinality(R) = n}
<1>1. T = {}
  <2> SUFFICES ASSUME T # {} PROVE FALSE
      OBVIOUS
  <2>1. PICK n \in T : \A k \in T : n <= k
      BY LeastNumber
  <2>2. PICK R \in SUBSET S : Endless(R) /\ Cardinality(R) = n
      BY <2>1
  <2>3. PICK x \in R : TRUE
      BY <2>2
  <2>4. IsFiniteSet(R) /\ IsFiniteSet(R \ {x}) /\ Cardinality(R \ {x}) = n - 1 /\ n \in Nat
      BY <2>2, <2>3, FS_Subset, FS_RemoveElement, FS_CardinalityType
  <2>5. Cardinality(R \ {x}) \in Nat /\ R \ {x} \in SUBSET S
      BY <2>4, FS_CardinalityType
  <2>6. ~Endless(R \ {x})
    <3> HIDE DEF Endless
    <3>1. n - 1 \in Nat /\ n - 1 \notin T
        BY <2>1, <2>4, <2>5
    <3> QED
        BY <3>1, <2>4, <2>5
  <2>7. PICK y \in R : ~(y <= x)
      BY <2>2, <2>3
  <2>8. y \in R \ {x}
      BY <2>7, <2>3, <2>2
  <2>9. PICK z \in R \ {x} : \A w \in R \ {x} : w <= z
      BY <2>6, <2>8
  <2>10. PICK w \in R : ~(w <= z)
      BY <2>2, <2>9
  <2>11. w = x
      BY <2>9, <2>10
  <2> QED
      BY <2>7, <2>8, <2>9, <2>10, <2>11, <2>2
<1>2. Cardinality(S) \in Nat
    BY FS_CardinalityType
<1>3. ~Endless(S)
    BY <1>1, <1>2
<1>4. \E x \in S : \A y \in S : x >= y
    BY <1>3
<1> QED
    BY <1>4 DEF Max

-----------------------------------------------------------------------------
(* The walk of the graph review.                                           *)

Heads(E) == { E[x] : x \in DOMAIN E }

FiniteGraph(E) == DOMAIN E \subseteq Nat /\ Heads(E) \subseteq Nat /\ IsFiniteSet(Heads(E))

Stops(E, V, path) ==
    \/ Last(path) \notin DOMAIN E
    \/ E[Last(path)] \in ToSet(path) \cup V

Onward(E, path) == Append(path, E[Last(path)])

(* The APIs that the walk may still come to. *)
Ahead(E, path) == Cardinality(Heads(E) \ ToSet(path))

LEMMA AheadIsNumber ==
    ASSUME NEW E, NEW path, FiniteGraph(E)
    PROVE  Ahead(E, path) \in Nat
<1>1. Heads(E) \ ToSet(path) \in SUBSET Heads(E) /\ IsFiniteSet(Heads(E))
    BY DEF FiniteGraph
<1> QED
    BY <1>1, FS_Subset, FS_CardinalityType DEF Ahead

LEMMA AppendToSet ==
    ASSUME NEW path \in Seq(Nat), NEW x \in Nat
    PROVE  /\ Append(path, x) \in Seq(Nat)
           /\ ToSet(Append(path, x)) = ToSet(path) \cup {x}
<1>1. /\ Append(path, x) \in Seq(Nat)
      /\ Len(Append(path, x)) = Len(path) + 1
      /\ \A i \in 1 .. Len(path) : Append(path, x)[i] = path[i]
      /\ Append(path, x)[Len(path) + 1] = x
    BY AppendProperties
<1>2. DOMAIN path = 1 .. Len(path) /\ DOMAIN Append(path, x) = 1 .. (Len(path) + 1) /\ Len(path) \in Nat
    BY <1>1
<1> QED
    BY <1>1, <1>2 DEF ToSet

LEMMA OnwardIsCloser ==
    ASSUME NEW E, NEW V, NEW path \in Seq(Nat), FiniteGraph(E), ~Stops(E, V, path)
    PROVE  Onward(E, path) \in Seq(Nat) /\ Ahead(E, Onward(E, path)) < Ahead(E, path)
<1> DEFINE x == E[Last(path)]
<1>1. x \in Heads(E) /\ x \notin ToSet(path) /\ x \in Nat
    BY DEF Stops, Heads, FiniteGraph
<1>2. Onward(E, path) \in Seq(Nat) /\ ToSet(Onward(E, path)) = ToSet(path) \cup {x}
    BY <1>1, AppendToSet DEF Onward
<1>3. Heads(E) \ ToSet(Onward(E, path)) = (Heads(E) \ ToSet(path)) \ {x}
    BY <1>2
<1>4. IsFiniteSet(Heads(E) \ ToSet(path)) /\ x \in Heads(E) \ ToSet(path)
    BY <1>1, FS_Subset DEF FiniteGraph
<1>5. /\ Cardinality((Heads(E) \ ToSet(path)) \ {x}) = Cardinality(Heads(E) \ ToSet(path)) - 1
      /\ Cardinality(Heads(E) \ ToSet(path)) \in Nat
    BY <1>4, FS_RemoveElement, FS_CardinalityType
<1> HIDE DEF x
<1>6. Ahead(E, Onward(E, path)) = Cardinality((Heads(E) \ ToSet(path)) \ {x})
    BY <1>3 DEF Ahead
<1> QED
    BY <1>2, <1>5, <1>6 DEF Ahead

(* The recursive definition of the walk has a solution: the walks with at  *)
(* most n APIs ahead extend to those with n + 1.                           *)
LEMMA WalkEquation ==
    ASSUME NEW E, NEW V, FiniteGraph(E)
    PROVE  Walk(E, V) = [path \in Seq(Nat) |->
                           IF Stops(E, V, path) THEN path ELSE Walk(E, V)[Onward(E, path)]]
<1> DEFINE Paths(n) == {path \in Seq(Nat) : Ahead(E, path) <= n}
           Solves(w, n) == w = [path \in Paths(n) |->
                              IF Stops(E, V, path) THEN path ELSE w[Onward(E, path)]]
           T == {n \in Nat : ~\E w : Solves(w, n)}
<1>1. ASSUME NEW n \in Nat, NEW path \in Paths(n + 1), ~Stops(E, V, path)
      PROVE  Onward(E, path) \in Paths(n)
    BY <1>1, OnwardIsCloser, AheadIsNumber
<1>2. \E w : Solves(w, 0)
  <2>1. \A path \in Paths(0) : Stops(E, V, path)
      BY OnwardIsCloser, AheadIsNumber
  <2>2. Solves([path \in Paths(0) |-> path], 0)
      BY <2>1
  <2> QED
      BY <2>2
<1>3. ASSUME NEW n \in Nat, NEW w, Solves(w, n)
      PROVE  \E v : Solves(v, n + 1)
  <2> DEFINE v == [path \in Paths(n + 1) |->
                     IF Stops(E, V, path) THEN path ELSE w[Onward(E, path)]]
  <2>1. ASSUME NEW path \in Paths(n)
        PROVE  path \in Paths(n + 1) /\ v[path] = w[path]
    <3>1. path \in Paths(n + 1)
        BY AheadIsNumber
    <3>2. w[path] = IF Stops(E, V, path) THEN path ELSE w[Onward(E, path)]
        BY <1>3
    <3> QED
        BY <3>1, <3>2
  <2>2. ASSUME NEW path \in Paths(n + 1)
        PROVE  v[path] = IF Stops(E, V, path) THEN path ELSE v[Onward(E, path)]
    <3>1. v[path] = IF Stops(E, V, path) THEN path ELSE w[Onward(E, path)]
        OBVIOUS
    <3> HIDE DEF v, Paths
    <3>2. ~Stops(E, V, path) => v[Onward(E, path)] = w[Onward(E, path)]
        BY <1>1, <2>1
    <3> QED
        BY <3>1, <3>2
  <2>3. DOMAIN v = Paths(n + 1) /\ v = [path \in Paths(n + 1) |-> v[path]]
      OBVIOUS
  <2>4. Solves(v, n + 1)
    <3> HIDE DEF v, Paths
    <3> QED
      BY <2>2, <2>3
  <2> QED
      BY <2>4
<1>4. T = {}
  <2> SUFFICES ASSUME T # {} PROVE FALSE
      OBVIOUS
  <2> HIDE DEF Solves
  <2>1. PICK m \in T : \A k \in T : m <= k
      BY LeastNumber
  <2>2. m # 0
      BY <1>2
  <2>3. m \in Nat /\ m - 1 \in Nat /\ m - 1 \notin T
      BY <2>1, <2>2
  <2>4. PICK w : Solves(w, m - 1)
      BY <2>3
  <2>5. \E v : Solves(v, (m - 1) + 1)
      BY <1>3, <2>3, <2>4
  <2> QED
      BY <2>5, <2>3
<1>5. \E w : w = [path \in Seq(Nat) |->
                    IF Stops(E, V, path) THEN path ELSE w[Onward(E, path)]]
  <2> DEFINE N == Cardinality(Heads(E))
  <2>1. N \in Nat /\ \A path : Ahead(E, path) <= N
    <3>1. N \in Nat
        BY FS_CardinalityType DEF FiniteGraph
    <3>2. \A path : Heads(E) \ ToSet(path) \in SUBSET Heads(E)
        OBVIOUS
    <3> QED
        BY <3>1, <3>2, FS_Subset DEF FiniteGraph, Ahead
  <2>2. Paths(N) = Seq(Nat)
      BY <2>1
  <2>3. PICK w : Solves(w, N)
      BY <1>4, <2>1
  <2> QED
      BY <2>2, <2>3
<1> QED
    BY <1>5 DEF Walk, Stops, Onward

(* A path along the edges. *)
Trail(E, path) ==
    /\ path \in Seq(Nat) /\ path # <<>>
    /\ \A i \in 1 .. (Len(path) - 1) : path[i] \in DOMAIN E /\ path[i + 1] = E[path[i]]

(* A path that comes to no API twice, and to none that is visited. *)
Fresh(V, path) ==
    /\ \A i \in 1 .. Len(path) : path[i] \notin V
    /\ \A i, j \in 1 .. Len(path) : path[i] = path[j] => i = j

(* A walk goes on along the edges, to fresh APIs only, from where it       *)
(* begins until it must stop.                                              *)
LEMMA WalkEnds ==
    ASSUME NEW E, NEW V, FiniteGraph(E), NEW start \in Nat, start \notin V
    PROVE  LET path == Walk(E, V)[<<start>>]
           IN  Trail(E, path) /\ Stops(E, V, path) /\ Fresh(V, path) /\ path[1] = start
<1> DEFINE Good(path) == LET q == Walk(E, V)[path]
                         IN  Trail(E, q) /\ Stops(E, V, q) /\ Fresh(V, q) /\ q[1] = start
           Begun(path) == Trail(E, path) /\ Fresh(V, path) /\ path[1] = start
           T == {n \in Nat : \E path : Begun(path) /\ ~Good(path) /\ Ahead(E, path) = n}
<1>1. ASSUME NEW path, Begun(path), ~Stops(E, V, path)
      PROVE  /\ Begun(Onward(E, path)) /\ Ahead(E, Onward(E, path)) < Ahead(E, path)
             /\ Walk(E, V)[path] = Walk(E, V)[Onward(E, path)]
  <2>1. path \in Seq(Nat) /\ path # <<>> /\ Len(path) \in Nat \ {0}
      BY <1>1, EmptySeq DEF Trail
  <2>2. Last(path) = path[Len(path)] /\ Last(path) \in DOMAIN E /\ E[Last(path)] \in Nat
      BY <1>1, <2>1 DEF Stops, Last, FiniteGraph, Heads
  <2> DEFINE x == E[Last(path)]
  <2>3. /\ Onward(E, path) \in Seq(Nat)
        /\ Onward(E, path) # <<>>
        /\ Len(Onward(E, path)) = Len(path) + 1
        /\ \A i \in 1 .. Len(path) : Onward(E, path)[i] = path[i]
        /\ Onward(E, path)[Len(path) + 1] = E[path[Len(path)]]
      BY <2>1, <2>2, AppendProperties DEF Onward
  <2>4. \A i \in 1 .. Len(path) : path[i] \in DOMAIN E /\ Onward(E, path)[i + 1] = E[path[i]]
    <3> TAKE i \in 1 .. Len(path)
    <3>1. CASE i = Len(path)
        BY <3>1, <2>2, <2>3
    <3>2. CASE i # Len(path)
      <4>1. i \in 1 .. (Len(path) - 1) /\ i + 1 \in 1 .. Len(path)
          BY <3>2, <2>1
      <4>2. path[i] \in DOMAIN E /\ path[i + 1] = E[path[i]]
          BY <4>1, <1>1 DEF Trail
      <4> QED
          BY <4>1, <4>2, <2>3
    <3> QED
        BY <3>1, <3>2
  <2>5. Begun(Onward(E, path))
    <3>1. Onward(E, path)[1] = path[1]
        BY <2>1, <2>3
    <3>2. \A i \in 1 .. (Len(Onward(E, path)) - 1) :
             Onward(E, path)[i] \in DOMAIN E /\ Onward(E, path)[i + 1] = E[Onward(E, path)[i]]
      <4> TAKE i \in 1 .. (Len(Onward(E, path)) - 1)
      <4>1. i \in 1 .. Len(path)
          BY <2>1, <2>3
      <4> QED
          BY <4>1, <2>3, <2>4
    <3>3. Trail(E, Onward(E, path))
        BY <3>2, <2>3 DEF Trail
    <3>4. Fresh(V, Onward(E, path))
      <4>1. \A i \in 1 .. Len(path) : path[i] \in ToSet(path)
          BY <2>1 DEF ToSet
      <4>2. E[path[Len(path)]] \notin V /\ \A i \in 1 .. Len(path) : path[i] # E[path[Len(path)]]
          BY <1>1, <2>2, <4>1 DEF Stops
      <4>3. Fresh(V, path)
          BY <1>1
      <4>4. \A i \in 1 .. Len(path) + 1 : i \in 1 .. Len(path) \/ i = Len(path) + 1
          BY <2>1
      <4> QED
          BY <2>3, <4>2, <4>3, <4>4 DEF Fresh
    <3> QED
        BY <3>1, <3>3, <3>4, <1>1
  <2> QED
      BY <2>1, <2>5, <1>1, OnwardIsCloser, WalkEquation
<1>2. T = {}
  <2> SUFFICES ASSUME T # {} PROVE FALSE
      OBVIOUS
  <2>1. PICK m \in T : \A k \in T : m <= k
      BY LeastNumber
  <2>2. PICK path : Begun(path) /\ ~Good(path) /\ Ahead(E, path) = m
      BY <2>1
  <2>3. CASE Stops(E, V, path)
    <3>1. path \in Seq(Nat)
        BY <2>2 DEF Trail
    <3>2. Walk(E, V)[path] = path
        BY <2>3, <3>1, WalkEquation
    <3> QED
        BY <2>2, <2>3, <3>2
  <2>4. CASE ~Stops(E, V, path)
    <3> DEFINE next == Onward(E, path)
    <3>1. /\ Begun(next) /\ Ahead(E, next) < Ahead(E, path)
          /\ Walk(E, V)[path] = Walk(E, V)[next]
        BY <1>1, <2>2, <2>4
    <3>2. ~Good(next)
        BY <2>2, <3>1
    <3>3. Ahead(E, next) \in Nat
        BY AheadIsNumber
    <3> HIDE DEF next, Good, Begun
    <3>4. Ahead(E, next) \in T
        BY <3>1, <3>2, <3>3
    <3>5. m <= Ahead(E, next) /\ m \in Nat
        BY <2>1, <3>4
    <3> QED
        BY <2>2, <3>1, <3>3, <3>5
  <2> QED
      BY <2>3, <2>4
<1>3. Begun(<<start>>)
  <2>1. <<start>> \in Seq(Nat) /\ Len(<<start>>) = 1 /\ <<start>>[1] = start /\ <<start>> # <<>>
      OBVIOUS
  <2> QED
      BY <2>1 DEF Trail, Fresh
<1>4. Ahead(E, <<start>>) \in Nat
    BY AheadIsNumber
<1>5. Good(<<start>>)
  <2> HIDE DEF Good, Begun
  <2> QED
    BY <1>2, <1>3, <1>4
<1> QED
    BY <1>5

-----------------------------------------------------------------------------
(* One round of the review.                                                *)

(* No part of S leads to itself: some member of it has no edge, or one     *)
(* that leaves it.                                                         *)
Trapless(E, S) ==
    \A R \in SUBSET S : R # {} => \E x \in R : x \notin DOMAIN E \/ E[x] \notin R

(* What has been visited is closed under the edges, and without a cycle.   *)
Explored(E, V) ==
    /\ \A x \in V : x \in DOMAIN E => E[x] \in V
    /\ Trapless(E, V)

LEMMA NotTheLast ==
    ASSUME NEW n \in Nat, NEW i \in 1 .. n, i # n
    PROVE  i \in 1 .. (n - 1) /\ i + 1 \in 1 .. n
OBVIOUS

(* A path with no closed part adds to what is explored. *)
LEMMA PathExplored ==
    ASSUME NEW E, NEW V, NEW path, Explored(E, V), Trail(E, path), Stops(E, V, path),
           ClosedPart(E, path) = <<>>
    PROVE  Explored(E, V \cup ToSet(path))
<1>1. /\ path \in Seq(Nat) /\ Len(path) \in Nat \ {0} /\ DOMAIN path = 1 .. Len(path)
      /\ Last(path) = path[Len(path)]
    BY EmptySeq DEF Trail, Last
<1>2. \A i \in 1 .. (Len(path) - 1) : path[i] \in DOMAIN E /\ path[i + 1] = E[path[i]]
    BY DEF Trail
<1>3. ToSet(path) = {path[i] : i \in 1 .. Len(path)}
    BY <1>1 DEF ToSet
<1>4. Last(path) \in DOMAIN E => E[Last(path)] \notin ToSet(path)
  <2> SUFFICES ASSUME Last(path) \in DOMAIN E, E[Last(path)] \in ToSet(path)
               PROVE  FALSE
      OBVIOUS
  <2> DEFINE k == CHOOSE i \in DOMAIN path : path[i] = E[Last(path)]
  <2>1. k \in 1 .. Len(path)
      BY <1>1, <1>3
  <2> HIDE DEF k
  <2>2. Len(SubSeq(path, k, Len(path))) = Len(path) - k + 1
      BY <1>1, <2>1, SubSeqProperties
  <2>3. ClosedPart(E, path) = SubSeq(path, k, Len(path))
      BY DEF ClosedPart, k
  <2>4. Len(SubSeq(path, k, Len(path))) >= 1
      BY <1>1, <2>1, <2>2
  <2>5. Len(ClosedPart(E, path)) = 0
      OBVIOUS
  <2> QED
      BY <2>3, <2>4, <2>5
<1>5. Last(path) \in DOMAIN E => E[Last(path)] \in V
    BY <1>4 DEF Stops
<1>6. \A x \in V \cup ToSet(path) : x \in DOMAIN E => E[x] \in V \cup ToSet(path)
  <2> SUFFICES ASSUME NEW i \in 1 .. Len(path), path[i] \in DOMAIN E
               PROVE  E[path[i]] \in V \cup ToSet(path)
      BY <1>3 DEF Explored
  <2>1. CASE i = Len(path)
      BY <2>1, <1>1, <1>5
  <2>2. CASE i # Len(path)
    <3>1. i \in 1 .. (Len(path) - 1) /\ i + 1 \in 1 .. Len(path)
        BY <2>2, <1>1, NotTheLast
    <3>2. E[path[i]] = path[i + 1] /\ path[i + 1] \in ToSet(path)
        BY <3>1, <1>2, <1>3
    <3> QED
        BY <3>2
  <2> QED
      BY <2>1, <2>2
<1>7. ASSUME NEW R \in SUBSET (V \cup ToSet(path)), R # {},
             \A x \in R : x \in DOMAIN E /\ E[x] \in R
      PROVE  FALSE
  <2>1. R \cap V = {}
    <3>1. \A x \in R \cap V : x \in DOMAIN E /\ E[x] \in R \cap V
        BY <1>7 DEF Explored
    <3> QED
        BY <3>1 DEF Explored, Trapless
  <2>2. PICK i \in 1 .. Len(path) : path[i] \in R
      BY <1>7, <1>3, <2>1
  <2> DEFINE T == {n \in Nat : \E j \in 1 .. Len(path) : path[j] \in R /\ n = Len(path) - j}
  <2>3. Len(path) - i \in T
      BY <1>1, <2>2
  <2>4. PICK m \in T : \A n \in T : m <= n
      BY <2>3, LeastNumber
  <2>5. PICK j \in 1 .. Len(path) : path[j] \in R /\ m = Len(path) - j
      BY <2>4
  <2>6. CASE j = Len(path)
      BY <2>6, <2>5, <2>1, <1>1, <1>5, <1>7
  <2>7. CASE j # Len(path)
    <3>0. j \in 1 .. (Len(path) - 1) /\ j + 1 \in 1 .. Len(path)
        BY <2>7, <1>1, NotTheLast
    <3>1. path[j + 1] \in R /\ j + 1 \in 1 .. Len(path)
        BY <3>0, <2>5, <1>2, <1>7
    <3> DEFINE n == Len(path) - (j + 1)
    <3>2. n \in Nat /\ n < m /\ m \in Nat
        BY <3>1, <1>1, <2>5
    <3>3. n \in T
        BY <3>1, <3>2
    <3>4. m <= n
        BY <3>3, <2>4
    <3> HIDE DEF n
    <3> QED
        BY <3>2, <3>4
  <2> QED
      BY <2>6, <2>7
<1>8. Trapless(E, V \cup ToSet(path))
    BY <1>7 DEF Trapless
<1> QED
    BY <1>6, <1>8 DEF Explored

Rotations == {Canonical(c) : c \in Seq(Nat)}

(* A review that has found no cycle has explored what it visited. *)
Sound(E, review) ==
    /\ review.cycles \in Seq(Rotations)
    /\ review.cycles = <<>> => Explored(E, review.visited)

LEMMA VisitExplores ==
    ASSUME NEW E, FiniteGraph(E), NEW review, Sound(E, review), NEW start \in Nat
    PROVE  LET next == VisitFrom(E, review, start)
           IN  /\ Sound(E, next) /\ review.visited \subseteq next.visited
               /\ start \in DOMAIN E => start \in next.visited
<1> DEFINE path == Walk(E, review.visited)[<<start>>]
           cycle == ClosedPart(E, path)
           next == VisitFrom(E, review, start)
<1>1. CASE start \notin DOMAIN E \/ start \in review.visited
    BY <1>1 DEF VisitFrom
<1>2. CASE ~(start \notin DOMAIN E \/ start \in review.visited)
  <2>1. Trail(E, path) /\ Stops(E, review.visited, path) /\ path[1] = start
      BY <1>2, WalkEnds
  <2>2. /\ next.visited = review.visited \cup ToSet(path)
        /\ next.cycles = IF cycle = <<>> THEN review.cycles ELSE Append(review.cycles, Canonical(cycle))
      BY <1>2 DEF VisitFrom
  <2> HIDE DEF next, cycle, path
  <2>3. start \in ToSet(path)
    <3>1. path \in Seq(Nat) /\ path # <<>>
        BY <2>1 DEF Trail
    <3>2. 1 \in DOMAIN path
        BY <3>1, EmptySeq
    <3> QED
        BY <2>1, <3>2 DEF ToSet
  <2>4. cycle \in Seq(Nat)
    <3>1. path \in Seq(Nat) /\ Len(path) \in Nat /\ DOMAIN path = 1 .. Len(path)
        BY <2>1 DEF Trail
    <3>2. CASE Last(path) \in DOMAIN E /\ E[Last(path)] \in ToSet(path)
      <4> DEFINE k == CHOOSE i \in DOMAIN path : path[i] = E[Last(path)]
      <4>1. k \in 1 .. Len(path)
          BY <3>1, <3>2 DEF ToSet
      <4> HIDE DEF k
      <4>2. cycle = SubSeq(path, k, Len(path))
          BY <3>2 DEF cycle, ClosedPart, k
      <4> QED
          BY <4>1, <4>2, <3>1, SubSeqProperties
    <3>3. CASE ~(Last(path) \in DOMAIN E /\ E[Last(path)] \in ToSet(path))
        BY <3>3 DEF cycle, ClosedPart
    <3> QED
        BY <3>2, <3>3
  <2>5. CASE cycle = <<>>
    <3>1. review.cycles = <<>> => Explored(E, review.visited \cup ToSet(path))
        BY <2>1, <2>5, PathExplored DEF Sound, cycle
    <3> QED
        BY <2>2, <2>3, <2>5, <3>1 DEF Sound, next
  <2>6. CASE cycle # <<>>
    <3>1. Canonical(cycle) \in Rotations
        BY <2>4 DEF Rotations
    <3>2. next.cycles \in Seq(Rotations) /\ next.cycles # <<>>
        BY <2>2, <2>6, <3>1, AppendProperties DEF Sound
    <3> QED
        BY <2>2, <2>3, <3>2 DEF Sound, next
  <2> QED
      BY <2>5, <2>6
<1> QED
    BY <1>1, <1>2

(* The loop over the sources is the solution of its recursive definition. *)
LEMMA ReviewEquation ==
    ASSUME NEW E, NEW end \in Nat
    PROVE  ReviewUpTo(E, end) =
             [n \in 0 .. end |->
                IF n = 0 THEN [visited |-> {}, cycles |-> <<>>]
                ELSE VisitFrom(E, ReviewUpTo(E, end)[n - 1], n - 1)]
<1> DEFINE fresh == [visited |-> {}, cycles |-> <<>>]
           Solves(r, m) == r = [n \in 0 .. m |->
                                 IF n = 0 THEN fresh ELSE VisitFrom(E, r[n - 1], n - 1)]
           T == {m \in Nat : ~\E r : Solves(r, m)}
<1> HIDE DEF fresh
<1>1. \E r : Solves(r, 0)
  <2>1. Solves([n \in 0 .. 0 |-> fresh], 0)
      OBVIOUS
  <2> QED
      BY <2>1
<1>2. ASSUME NEW m \in Nat, NEW r, Solves(r, m)
      PROVE  \E s : Solves(s, m + 1)
  <2> DEFINE s == [n \in 0 .. (m + 1) |->
                     IF n = m + 1 THEN VisitFrom(E, r[m], m) ELSE r[n]]
  <2>1. \A n \in 0 .. m : s[n] = r[n]
      OBVIOUS
  <2>2. s[m + 1] = VisitFrom(E, s[m], m)
      BY <2>1
  <2>3. \A n \in 0 .. m : r[n] = IF n = 0 THEN fresh ELSE VisitFrom(E, r[n - 1], n - 1)
      BY <1>2
  <2>4. s = [n \in 0 .. (m + 1) |-> s[n]]
      OBVIOUS
  <2> HIDE DEF s
  <2>5. \A n \in 0 .. (m + 1) :
           s[n] = IF n = 0 THEN fresh ELSE VisitFrom(E, s[n - 1], n - 1)
    <3> TAKE n \in 0 .. (m + 1)
    <3>1. CASE n = m + 1
        BY <3>1, <2>2
    <3>2. CASE n # m + 1
      <4>1. n \in 0 .. m /\ (n # 0 => n - 1 \in 0 .. m)
          BY <3>2
      <4>2. n # 0 => s[n - 1] = r[n - 1]
          BY <4>1, <2>1
      <4> QED
          BY <4>1, <4>2, <2>1, <2>3
    <3> QED
        BY <3>1, <3>2
  <2>6. Solves(s, m + 1)
      BY <2>4, <2>5
  <2> QED
      BY <2>6
<1>3. T = {}
  <2> SUFFICES ASSUME T # {} PROVE FALSE
      OBVIOUS
  <2> HIDE DEF Solves
  <2>1. PICK m \in T : \A k \in T : m <= k
      BY LeastNumber
  <2>2. m # 0
      BY <1>1
  <2>3. m \in Nat /\ m - 1 \in Nat /\ m - 1 \notin T
      BY <2>1, <2>2
  <2>4. PICK r : Solves(r, m - 1)
      BY <2>3
  <2>5. \E s : Solves(s, (m - 1) + 1)
      BY <1>2, <2>3, <2>4
  <2> QED
      BY <2>5, <2>3
<1>4. \E r : Solves(r, end)
    BY <1>3
<1> QED
    BY <1>4 DEF ReviewUpTo, fresh

LEMMA ReviewExplores ==
    ASSUME NEW E, FiniteGraph(E), NEW end \in Nat, NEW n \in 0 .. end
    PROVE  LET review == ReviewUpTo(E, end)[n]
           IN  Sound(E, review) /\ \A x \in DOMAIN E : x < n => x \in review.visited
<1> DEFINE R == ReviewUpTo(E, end)
           Good(k) == Sound(E, R[k]) /\ \A x \in DOMAIN E : x < k => x \in R[k].visited
           T == {k \in 0 .. end : ~Good(k)}
<1>1. DOMAIN E \subseteq Nat
    BY DEF FiniteGraph
<1>2. Good(0)
  <2>1. R[0].visited = {} /\ R[0].cycles = <<>>
      BY ReviewEquation
  <2>2. Sound(E, R[0])
      BY <2>1 DEF Sound, Explored, Trapless
  <2> QED
      BY <1>1, <2>2
<1>3. ASSUME NEW k \in 1 .. end, Good(k - 1)
      PROVE  Good(k)
  <2>1. R[k] = VisitFrom(E, R[k - 1], k - 1)
      BY ReviewEquation
  <2>2. /\ Sound(E, R[k]) /\ R[k - 1].visited \subseteq R[k].visited
        /\ k - 1 \in DOMAIN E => k - 1 \in R[k].visited
    <3>1. k - 1 \in Nat /\ Sound(E, R[k - 1])
        BY <1>3
    <3> HIDE DEF R
    <3> QED
        BY <2>1, <3>1, VisitExplores
  <2> HIDE DEF R
  <2>3. \A x \in DOMAIN E : x < k => x < k - 1 \/ x = k - 1
      BY <1>1
  <2> QED
      BY <1>3, <2>2, <2>3
<1>4. T = {}
  <2> SUFFICES ASSUME T # {} PROVE FALSE
      OBVIOUS
  <2> HIDE DEF Good
  <2>0. T \subseteq Nat
      OBVIOUS
  <2>1. PICK m \in T : \A k \in T : m <= k
      BY <2>0, LeastNumber
  <2>2. m # 0
      BY <1>2
  <2>3. m \in 1 .. end /\ m - 1 \in 0 .. end /\ m - 1 \notin T
      BY <2>1, <2>2
  <2> QED
      BY <1>3, <2>1, <2>3
<1> QED
    BY <1>4

-----------------------------------------------------------------------------
(* Catalogs that the review can go through: finitely many recommendations  *)
(* between numbered APIs.                                                  *)
Reviewable(catalogs) ==
    /\ IsFiniteSet(catalogs) /\ IsFiniteSet(Recommending(catalogs))
    /\ Recommending(catalogs) \subseteq Nat
    /\ \A api \in Recommending(catalogs) : Targets(catalogs, api) \subseteq Nat

(* An unambiguous API is recommended what its edge leads to. *)
LEMMA EdgesAreGraph ==
    ASSUME NEW catalogs, Reviewable(catalogs), Ambiguous(catalogs) = {},
           NEW c \in catalogs, NEW api \in DOMAIN c.recs
    PROVE  api \in DOMAIN Edges(catalogs) /\ c.recs[api].api = Edges(catalogs)[api]
<1> DEFINE near == { d \in catalogs : api \in DOMAIN d.recs }
           All == Targets(catalogs, api)
<1>1. api \in Recommending(catalogs)
    BY DEF Recommending
<1>2. IsFiniteSet(All)
  <2>1. IsFiniteSet(near)
      BY FS_Subset DEF Reviewable
  <2>2. [d \in near |-> d.recs[api].api] \in Surjection(near, All)
      BY DEF Surjection, Targets
  <2> QED
      BY <2>1, <2>2, FS_Surjection
<1>3. ~(Cardinality(All) > 1) /\ Cardinality(All) \in Nat
    BY <1>1, <1>2, FS_CardinalityType DEF Ambiguous
<1>4. c.recs[api].api \in All
    BY DEF Targets
<1>5. \A t \in All : t = c.recs[api].api
  <2> SUFFICES ASSUME NEW t \in All, t # c.recs[api].api PROVE FALSE
      OBVIOUS
  <2> DEFINE u == c.recs[api].api
  <2>1. IsFiniteSet({t}) /\ Cardinality({t}) = 1
      BY FS_Singleton
  <2> HIDE DEF u
  <2>2. Cardinality({t} \cup {u}) = 2
    <3>1. u \notin {t}
        BY DEF u
    <3>2. Cardinality({t} \cup {u}) = Cardinality({t}) + 1
        BY <2>1, <3>1, FS_AddElement
    <3> QED
        BY <2>1, <3>2
  <2>3. {t} \cup {u} \in SUBSET All
      BY <1>4 DEF u
  <2>4. 2 <= Cardinality(All)
      BY <1>2, <2>2, <2>3, FS_Subset
  <2> QED
      BY <1>3, <2>4
<1>6. (CHOOSE t \in All : TRUE) = c.recs[api].api
    BY <1>4, <1>5
<1> QED
    BY <1>1, <1>6 DEF Edges

(* The edges of catalogs that can be reviewed are a finite graph, whose    *)
(* sources come before the last round.                                     *)
LEMMA ReviewableEdges ==
    ASSUME NEW catalogs, Reviewable(catalogs)
    PROVE  /\ FiniteGraph(Edges(catalogs))
           /\ \A api \in DOMAIN Edges(catalogs) : Edges(catalogs)[api] \in Targets(catalogs, api)
           /\ Max(Recommending(catalogs) \cup {0}) + 1 \in Nat
           /\ \A x \in DOMAIN Edges(catalogs) : x < Max(Recommending(catalogs) \cup {0}) + 1
<1> DEFINE E == Edges(catalogs)
           D == Recommending(catalogs)
           clear == D \ Ambiguous(catalogs)
<1>1. \A api \in D : \E t : t \in Targets(catalogs, api)
    BY DEF Recommending, Targets
<1>2. DOMAIN E = clear /\ \A api \in clear : E[api] \in Targets(catalogs, api)
    BY <1>1 DEF Edges
<1>3. \A api \in clear : E[api] \in Nat
    BY <1>2 DEF Reviewable
<1>4. IsFiniteSet(clear)
    BY FS_Subset DEF Reviewable
<1>5. E = [api \in clear |-> E[api]]
    BY DEF Edges
<1> HIDE DEF E
<1>6. E \in Surjection(clear, Heads(E))
    BY <1>2, <1>5 DEF Surjection, Heads
<1>7. FiniteGraph(E)
  <2>1. IsFiniteSet(Heads(E))
      BY <1>4, <1>6, FS_Surjection
  <2>2. clear \subseteq Nat
      BY DEF Reviewable
  <2> QED
      BY <1>2, <1>3, <2>1, <2>2 DEF FiniteGraph, Heads
<1>8. Max(D \cup {0}) + 1 \in Nat /\ \A x \in D : x < Max(D \cup {0}) + 1
  <2>1. D \cup {0} \subseteq Nat /\ IsFiniteSet(D \cup {0}) /\ D \cup {0} # {}
      BY FS_AddElement DEF Reviewable
  <2>2. Max(D \cup {0}) \in Nat /\ \A x \in D \cup {0} : x <= Max(D \cup {0}) /\ x \in Nat
      BY <2>1, GreatestNumber
  <2> QED
      BY <2>2
<1> QED
    BY <1>2, <1>7, <1>8 DEF E

(* The graph review accepts no catalogs with a cycle of recommendations,   *)
(* however many APIs and recommendations they have.                        *)
THEOREM AcceptedHasNoCycle ==
    ASSUME NEW catalogs, Reviewable(catalogs), GraphAccepted(catalogs)
    PROVE  ~HasCycle(Graph(catalogs))
<1> DEFINE E == Edges(catalogs)
           D == Recommending(catalogs)
           G == Graph(catalogs)
           end == Max(D \cup {0}) + 1
<1>1. Ambiguous(catalogs) = {} /\ ReviewUpTo(E, end)[end].cycles = <<>>
    BY DEF GraphAccepted, RecommendationCycles
<1>2. DOMAIN E = D /\ \A api \in D : E[api] \in Nat
  <2>1. \A api \in D : \E t : t \in Targets(catalogs, api)
      BY DEF Recommending, Targets
  <2> QED
      BY <1>1, <2>1 DEF Edges, Reviewable
<1>3. FiniteGraph(E)
    BY ReviewableEdges
<1>4. end \in Nat /\ \A x \in D : x < end
    BY <1>2, ReviewableEdges
<1> HIDE DEF end, E
<1>5. PICK V : Explored(E, V) /\ DOMAIN E \subseteq V
    BY <1>1, <1>2, <1>3, <1>4, ReviewExplores DEF Sound
<1> SUFFICES ASSUME NEW S, S # {}, \A x \in S : \E y \in S : <<x, y>> \in G
             PROVE  FALSE
    BY DEF HasCycle
<1>6. \A x \in S : x \in DOMAIN E /\ E[x] \in S
  <2> TAKE x \in S
  <2>1. PICK y \in S : <<x, y>> \in G
      OBVIOUS
  <2>2. PICK c \in catalogs : x \in DOMAIN c.recs /\ y = c.recs[x].api
      BY <2>1 DEF Graph
  <2> QED
      BY <1>1, <2>2, EdgesAreGraph DEF E
<1> QED
    BY <1>5, <1>6 DEF Explored, Trapless

-----------------------------------------------------------------------------
(* The graph review is exact: it reports each cycle, as it is, and once.   *)

LEMMA SmallRemainder ==
    ASSUME NEW a \in Nat, NEW n \in Nat \ {0}
    PROVE  /\ a < n => a % n = a
           /\ n <= a /\ a < n + n => a % n = a - n
OBVIOUS

(* The place that follows k on a cycle of n places. *)
After(k, n) == IF k = n THEN 1 ELSE k + 1

LEMMA AfterIsNext ==
    ASSUME NEW n \in Nat \ {0}, NEW k \in 1 .. n
    PROVE  (k % n) + 1 = After(k, n) /\ After(k, n) \in 1 .. n
BY DEF After

(* The place d steps after k. *)
StepsOn(k, d, n) == IF k + d <= n THEN k + d ELSE k + d - n

LEMMA AheadAdvances ==
    ASSUME NEW n \in Nat \ {0}, NEW k \in 1 .. n, NEW d \in 0 .. n
    PROVE  /\ StepsOn(k, d, n) \in 1 .. n
           /\ StepsOn(k, 0, n) = k
           /\ StepsOn(k, n, n) = k
           /\ d < n => StepsOn(k, d + 1, n) = After(StepsOn(k, d, n), n)
BY DEF After, StepsOn

(* A walk along the edges that returns to its start and passes no API      *)
(* twice.                                                                  *)
Ring(E, c) ==
    /\ c \in Seq(Nat) /\ Len(c) # 0
    /\ \A k \in 1 .. Len(c) : c[k] \in DOMAIN E /\ c[After(k, Len(c))] = E[c[k]]
    /\ \A i, j \in 1 .. Len(c) : c[i] = c[j] => i = j

LeastFirst(c) == \A k \in 1 .. Len(c) : k # 1 => c[1] < c[k]

Spots(c) == { c[k] : k \in 1 .. Len(c) }

LEMMA SpotsAreToSet ==
    ASSUME NEW c \in Seq(Nat)
    PROVE  ToSet(c) = Spots(c) /\ DOMAIN c = 1 .. Len(c) /\ Len(c) \in Nat
BY DEF ToSet, Spots

(* The APIs of a ring are on a cycle. *)
LEMMA RingIsOnCycle ==
    ASSUME NEW E, NEW c, Ring(E, c), NEW k \in 1 .. Len(c)
    PROVE  c[k] \in OnCycle(E)
<1> DEFINE n == Len(c)
<1>1. n \in Nat \ {0}
    BY DEF Ring
<1>2. \A m \in 1 .. n : c[m] \in DOMAIN E /\ c[After(m, n)] = E[c[m]]
    BY DEF Ring
<1>3. SUFFICES ASSUME NEW S \in SUBSET DOMAIN E, E[c[k]] \in DOMAIN E => E[c[k]] \in S,
                      \A y \in S : E[y] \in DOMAIN E => E[y] \in S
               PROVE  c[k] \in S
    BY <1>2 DEF OnCycle
<1> DEFINE T == {d \in 1 .. n : c[StepsOn(k, d, n)] \notin S}
<1> HIDE DEF n
<1>4. 1 \notin T
  <2>0. k \in 1 .. n
      BY DEF n
  <2>1. StepsOn(k, 1, n) = After(k, n) /\ After(k, n) \in 1 .. n
      BY <1>1, <2>0 DEF After, StepsOn
  <2> QED
      BY <2>1, <1>2, <1>3 DEF n
<1>5. ASSUME NEW d \in 1 .. n, d # n, d \notin T
      PROVE  d + 1 \notin T
  <2>1. /\ StepsOn(k, d, n) \in 1 .. n /\ StepsOn(k, d + 1, n) \in 1 .. n
        /\ StepsOn(k, d + 1, n) = After(StepsOn(k, d, n), n)
      BY <1>1, <1>5, AheadAdvances DEF n
  <2>2. c[StepsOn(k, d, n)] \in S
      BY <1>5
  <2>3. c[StepsOn(k, d + 1, n)] = E[c[StepsOn(k, d, n)]] /\ c[StepsOn(k, d + 1, n)] \in DOMAIN E
      BY <2>1, <1>2
  <2> QED
      BY <2>2, <2>3, <1>3
<1>6. T = {}
  <2> SUFFICES ASSUME T # {} PROVE FALSE
      OBVIOUS
  <2>1. T \subseteq Nat
      BY <1>1
  <2>2. PICK m \in T : \A j \in T : m <= j
      BY <2>1, LeastNumber
  <2>3. m \in 1 .. n /\ m # 1
      BY <2>2, <1>4
  <2>4. m - 1 \in 1 .. n /\ m - 1 # n /\ (m - 1) + 1 = m
      BY <2>3, <1>1
  <2> HIDE DEF T
  <2>5. m - 1 \notin T
      BY <2>2, <2>3, <1>1
  <2> QED
      BY <1>5, <2>2, <2>4, <2>5
<1>7. n \in 1 .. n /\ StepsOn(k, n, n) = k
    BY <1>1, AheadAdvances DEF n
<1> QED
    BY <1>6, <1>7

(* Where a walk closes, the closed part is a ring. *)
LEMMA ClosedIsRing ==
    ASSUME NEW E, NEW V, NEW path, Trail(E, path), Fresh(V, path),
           Last(path) \in DOMAIN E, NEW k \in 1 .. Len(path), path[k] = E[Last(path)]
    PROVE  /\ Ring(E, ClosedPart(E, path))
           /\ Spots(ClosedPart(E, path)) = {path[m] : m \in k .. Len(path)}
<1> DEFINE n == Len(path)
           c == ClosedPart(E, path)
<1>1. /\ path \in Seq(Nat) /\ n \in Nat \ {0} /\ DOMAIN path = 1 .. n
      /\ Last(path) = path[n]
    BY EmptySeq DEF Trail, Last
<1>2. \A i \in 1 .. (n - 1) : path[i] \in DOMAIN E /\ path[i + 1] = E[path[i]]
    BY DEF Trail
<1>3. \A i, j \in 1 .. n : path[i] = path[j] => i = j
    BY DEF Fresh
<1>4. (CHOOSE i \in DOMAIN path : path[i] = E[Last(path)]) = k
    BY <1>1, <1>3
<1>5. E[Last(path)] \in ToSet(path)
    BY <1>1 DEF ToSet
<1>6. c = SubSeq(path, k, n)
    BY <1>4, <1>5 DEF ClosedPart
<1> HIDE DEF c, n
<1>7. k \in 1 .. n /\ n \in 1 .. n
    BY <1>1 DEF n
<1>8. /\ c \in Seq(Nat) /\ Len(c) = n - k + 1
      /\ \A i \in 1 .. (n - k + 1) : c[i] = path[k + i - 1]
    BY <1>1, <1>6, <1>7, SubSeqProperties
<1>9. \A i \in 1 .. Len(c) : k + i - 1 \in 1 .. n /\ c[i] = path[k + i - 1]
    BY <1>1, <1>7, <1>8
<1>10. ASSUME NEW i \in 1 .. Len(c)
       PROVE  c[i] \in DOMAIN E /\ c[After(i, Len(c))] = E[c[i]]
  <2>1. CASE i = Len(c)
    <3>1. k + i - 1 = n /\ After(i, Len(c)) = 1 /\ 1 \in 1 .. Len(c) /\ k + 1 - 1 = k
        BY <2>1, <1>1, <1>7, <1>8 DEF After
    <3>2. c[i] = path[n] /\ c[1] = path[k]
        BY <3>1, <1>9
    <3> QED
        BY <3>1, <3>2, <1>1
  <2>2. CASE i # Len(c)
    <3>1. /\ k + i - 1 \in 1 .. (n - 1) /\ After(i, Len(c)) = i + 1 /\ i + 1 \in 1 .. Len(c)
          /\ k + (i + 1) - 1 = (k + i - 1) + 1
        BY <2>2, <1>1, <1>7, <1>8 DEF After
    <3>2. c[i] = path[k + i - 1] /\ c[i + 1] = path[(k + i - 1) + 1]
        BY <3>1, <1>9
    <3> QED
        BY <3>1, <3>2, <1>2
  <2> QED
      BY <2>1, <2>2
<1>11. ASSUME NEW i \in 1 .. Len(c), NEW j \in 1 .. Len(c), c[i] = c[j]
       PROVE  i = j
  <2>1. k + i - 1 = k + j - 1
      BY <1>3, <1>9, <1>11
  <2> QED
      BY <2>1, <1>7, <1>8, <1>1
<1>12. Spots(c) = {path[m] : m \in k .. n}
  <2>1. ASSUME NEW m \in k .. n PROVE \E i \in 1 .. Len(c) : c[i] = path[m]
    <3>1. m - k + 1 \in 1 .. Len(c) /\ k + (m - k + 1) - 1 = m
        BY <1>1, <1>7, <1>8
    <3> QED
        BY <3>1, <1>9
  <2>2. ASSUME NEW i \in 1 .. Len(c) PROVE \E m \in k .. n : c[i] = path[m]
    <3>1. k + i - 1 \in k .. n
        BY <1>1, <1>7, <1>8
    <3> QED
        BY <3>1, <1>9
  <2>3. {path[m] : m \in k .. n} \subseteq {c[i] : i \in 1 .. Len(c)}
      BY <2>1
  <2>4. {c[i] : i \in 1 .. Len(c)} \subseteq {path[m] : m \in k .. n}
      BY <2>2
  <2> QED
      BY <2>3, <2>4 DEF Spots
<1>13. Len(c) # 0
    BY <1>1, <1>7, <1>8
<1> QED
    BY <1>8, <1>10, <1>11, <1>12, <1>13 DEF Ring, c, n

(* An API on a walk that is on a cycle is in the part that the walk closes. *)
LEMMA OnCycleIsClosed ==
    ASSUME NEW E, NEW V, NEW path, Trail(E, path), Stops(E, V, path), Fresh(V, path),
           \A x \in V : x \in DOMAIN E => E[x] \in V,
           NEW j \in 1 .. Len(path), path[j] \in OnCycle(E)
    PROVE  Last(path) \in DOMAIN E /\ \E k \in 1 .. j : path[k] = E[Last(path)]
<1> DEFINE n == Len(path)
<1>1. /\ path \in Seq(Nat) /\ n \in Nat \ {0} /\ DOMAIN path = 1 .. n
      /\ Last(path) = path[n]
    BY EmptySeq DEF Trail, Last
<1>2. \A i \in 1 .. (n - 1) : path[i] \in DOMAIN E /\ path[i + 1] = E[path[i]]
    BY DEF Trail
<1>3. /\ \A i \in 1 .. n : path[i] \notin V
      /\ \A i, m \in 1 .. n : path[i] = path[m] => i = m
    BY DEF Fresh
<1>4. SUFFICES ASSUME ~(Last(path) \in DOMAIN E /\ \E k \in 1 .. j : path[k] = E[Last(path)])
               PROVE  FALSE
    OBVIOUS
<1> HIDE DEF n
<1> DEFINE Rest == {path[m] : m \in (j + 1) .. n}
           S == (Rest \cup V) \cap DOMAIN E
<1>5. j \in 1 .. n
    BY DEF n
<1>6. path[n] \in DOMAIN E => E[path[n]] \in Rest \cup V
  <2> SUFFICES ASSUME path[n] \in DOMAIN E, E[path[n]] \notin V PROVE E[path[n]] \in Rest
      OBVIOUS
  <2>1. PICK k \in 1 .. n : path[k] = E[path[n]]
      BY <1>1 DEF Stops, ToSet
  <2>2. k \notin 1 .. j
      BY <2>1, <1>1, <1>4
  <2>3. k \in (j + 1) .. n
      BY <2>2, <1>1, <1>5
  <2> QED
      BY <2>1, <2>3
<1>7. ASSUME NEW i \in j .. n, path[i] \in DOMAIN E PROVE E[path[i]] \in Rest \cup V
  <2>1. CASE i = n
      BY <2>1, <1>6, <1>7
  <2>2. CASE i # n
    <3>1. i \in 1 .. (n - 1) /\ i + 1 \in (j + 1) .. n
        BY <2>2, <1>1, <1>5
    <3> QED
        BY <3>1, <1>2
  <2> QED
      BY <2>1, <2>2
<1>8. j \in j .. n /\ \A i \in (j + 1) .. n : i \in j .. n /\ i \in 1 .. n /\ i # j
    BY <1>1, <1>5
<1>9. path[j] \notin Rest \cup V
    BY <1>3, <1>5, <1>8
<1>10. path[j] \in DOMAIN E
    BY DEF OnCycle
<1>11. \A y \in S : E[y] \in Rest \cup V
    BY <1>7, <1>8
<1>12. E[path[j]] \in Rest \cup V
    BY <1>7, <1>8, <1>10
<1> HIDE DEF Rest
<1>13. /\ S \in SUBSET DOMAIN E
       /\ E[path[j]] \in DOMAIN E => E[path[j]] \in S
       /\ \A y \in S : E[y] \in DOMAIN E => E[y] \in S
       /\ path[j] \notin S
    BY <1>9, <1>11, <1>12
<1> HIDE DEF S
<1> QED
    BY <1>13 DEF OnCycle

(* The rotation of a ring that begins with its least API is the same ring. *)
LEMMA CanonicalIsRing ==
    ASSUME NEW E, NEW c, Ring(E, c)
    PROVE  /\ Ring(E, Canonical(c)) /\ LeastFirst(Canonical(c))
           /\ Spots(Canonical(c)) = Spots(c)
<1> DEFINE n == Len(c)
           d == Canonical(c)
           start == CHOOSE i \in DOMAIN c : \A j \in DOMAIN c : c[i] <= c[j]
<1>1. /\ n \in Nat \ {0} /\ DOMAIN c = 1 .. n /\ \A k \in 1 .. n : c[k] \in Nat
      /\ \A i, j \in 1 .. n : c[i] = c[j] => i = j
      /\ \A k \in 1 .. n : c[k] \in DOMAIN E /\ c[After(k, n)] = E[c[k]]
    BY DEF Ring
<1>2. start \in 1 .. n /\ \A j \in 1 .. n : c[start] <= c[j]
  <2>1. Spots(c) \subseteq Nat /\ Spots(c) # {}
      BY <1>1 DEF Spots
  <2>2. PICK m \in Spots(c) : \A k \in Spots(c) : m <= k
      BY <2>1, LeastNumber
  <2>3. \E i \in 1 .. n : \A j \in 1 .. n : c[i] <= c[j]
      BY <2>2 DEF Spots
  <2> QED
      BY <1>1, <2>3
<1>3. d = [k \in 1 .. n |-> c[((start + k - 2) % n) + 1]]
    BY <1>1 DEF Canonical
<1> HIDE DEF start, d, n
<1>4. ASSUME NEW k \in 1 .. n
      PROVE  ((start + k - 2) % n) + 1 = StepsOn(start, k - 1, n) /\ StepsOn(start, k - 1, n) \in 1 .. n
  <2>1. /\ start + k - 2 \in Nat /\ start + k - 2 < n + n
        /\ start \in Nat /\ k \in Nat /\ n \in Nat \ {0} /\ start <= n /\ k <= n
        /\ 1 <= k /\ 1 <= start
      BY <1>1, <1>2
  <2>2. CASE start + k - 2 < n
    <3>1. (start + k - 2) % n = start + k - 2
        BY <2>1, <2>2, SmallRemainder
    <3> QED
        BY <2>1, <2>2, <3>1 DEF StepsOn
  <2>3. CASE ~(start + k - 2 < n)
    <3> DEFINE a == start + k - 2
    <3>1. a \in Nat /\ n <= a /\ a < n + n
        BY <2>1, <2>3
    <3> HIDE DEF a
    <3>2. a % n = a - n
        BY <2>1, <3>1, SmallRemainder
    <3> QED
        BY <2>1, <2>3, <3>2 DEF StepsOn, a
  <2> QED
      BY <2>2, <2>3
<1>5. \A k \in 1 .. n : d[k] = c[StepsOn(start, k - 1, n)] /\ d[k] \in Nat
    BY <1>1, <1>3, <1>4
<1>6. d \in Seq(Nat) /\ Len(d) = n
    BY <1>1, <1>3, <1>5
<1>7. ASSUME NEW k \in 1 .. n
      PROVE  After(k, n) \in 1 .. n /\ StepsOn(start, After(k, n) - 1, n) = After(StepsOn(start, k - 1, n), n)
    BY <1>1, <1>2 DEF After, StepsOn
<1>8. ASSUME NEW k \in 1 .. n
      PROVE  d[k] \in DOMAIN E /\ d[After(k, n)] = E[d[k]]
  <2> DEFINE p == StepsOn(start, k - 1, n)
  <2>1. p \in 1 .. n /\ After(k, n) \in 1 .. n /\ StepsOn(start, After(k, n) - 1, n) = After(p, n)
      BY <1>4, <1>7
  <2>2. d[k] = c[p] /\ d[After(k, n)] = c[StepsOn(start, After(k, n) - 1, n)]
      BY <1>5, <2>1
  <2> HIDE DEF p
  <2> QED
      BY <1>1, <2>1, <2>2
<1>9. ASSUME NEW i \in 1 .. n, NEW j \in 1 .. n, d[i] = d[j]
      PROVE  i = j
  <2>1. StepsOn(start, i - 1, n) = StepsOn(start, j - 1, n)
      BY <1>1, <1>4, <1>5, <1>9
  <2> QED
      BY <2>1, <1>1, <1>2 DEF StepsOn
<1>10. Spots(d) = Spots(c)
  <2>1. ASSUME NEW i \in 1 .. n PROVE \E k \in 1 .. n : StepsOn(start, k - 1, n) = i
    <3>1. CASE i >= start
      <4>1. i - start + 1 \in 1 .. n /\ StepsOn(start, (i - start + 1) - 1, n) = i
          BY <3>1, <1>1, <1>2 DEF StepsOn
      <4> QED
          BY <4>1
    <3>2. CASE i < start
      <4>1. i + n - start + 1 \in 1 .. n /\ StepsOn(start, (i + n - start + 1) - 1, n) = i
          BY <3>2, <1>1, <1>2 DEF StepsOn
      <4> QED
          BY <4>1
    <3> QED
        BY <3>1, <3>2, <1>2
  <2>2. {c[k] : k \in 1 .. n} \subseteq {d[k] : k \in 1 .. n}
      BY <2>1, <1>5
  <2>3. {d[k] : k \in 1 .. n} \subseteq {c[k] : k \in 1 .. n}
      BY <1>4, <1>5
  <2> QED
      BY <2>2, <2>3, <1>6 DEF Spots, n
<1>11. d[1] = c[start]
  <2>1. 1 \in 1 .. n /\ StepsOn(start, 1 - 1, n) = start
      BY <1>1, <1>2 DEF StepsOn
  <2> QED
      BY <2>1, <1>5
<1>12. ASSUME NEW k \in 1 .. n, k # 1 PROVE d[1] < d[k]
  <2>1. d[1] <= d[k] /\ d[1] \in Nat /\ d[k] \in Nat
      BY <1>1, <1>2, <1>4, <1>5, <1>11
  <2>2. d[1] # d[k]
      BY <1>1, <1>9, <1>12
  <2> QED
      BY <2>1, <2>2
<1> QED
    BY <1>1, <1>6, <1>8, <1>9, <1>10, <1>12 DEF Ring, LeastFirst, d

(* What has been visited is closed, and its cycles are those reported:     *)
(* each API of them in one report, and only once.                          *)
Exact(E, review) ==
    /\ review.cycles \in Seq(Seq(Nat))
    /\ \A x \in review.visited : x \in DOMAIN E => E[x] \in review.visited
    /\ \A i \in 1 .. Len(review.cycles) :
          /\ Ring(E, review.cycles[i]) /\ LeastFirst(review.cycles[i])
          /\ Spots(review.cycles[i]) \subseteq review.visited
    /\ \A i, j \in 1 .. Len(review.cycles) :
          i # j => Spots(review.cycles[i]) \cap Spots(review.cycles[j]) = {}
    /\ \A x \in review.visited :
          x \in OnCycle(E) => \E i \in 1 .. Len(review.cycles) : x \in Spots(review.cycles[i])

LEMMA VisitStaysExact ==
    ASSUME NEW E, FiniteGraph(E), NEW review, Exact(E, review), NEW start \in Nat
    PROVE  LET next == VisitFrom(E, review, start)
           IN  /\ Exact(E, next) /\ review.visited \subseteq next.visited
               /\ start \in DOMAIN E => start \in next.visited
<1> DEFINE V == review.visited
           path == Walk(E, V)[<<start>>]
           cycle == ClosedPart(E, path)
           next == VisitFrom(E, review, start)
<1>1. CASE start \notin DOMAIN E \/ start \in V
    BY <1>1 DEF VisitFrom
<1>2. CASE ~(start \notin DOMAIN E \/ start \in V)
  <2>1. Trail(E, path) /\ Stops(E, V, path) /\ Fresh(V, path) /\ path[1] = start
      BY <1>2, WalkEnds
  <2>2. /\ next.visited = V \cup ToSet(path)
        /\ next.cycles = IF cycle = <<>> THEN review.cycles ELSE Append(review.cycles, Canonical(cycle))
      BY <1>2 DEF VisitFrom
  <2> HIDE DEF next, cycle, path
  <2>3. path \in Seq(Nat) /\ Len(path) \in Nat \ {0} /\ ToSet(path) = Spots(path)
        /\ Last(path) = path[Len(path)]
      BY <2>1, SpotsAreToSet, EmptySeq DEF Trail, Last
  <2>4. start \in ToSet(path)
      BY <2>1, <2>3 DEF Spots
  <2>5. \A x \in V : x \in DOMAIN E => E[x] \in V
      BY DEF Exact
  <2>6. ASSUME NEW x \in V \cup ToSet(path), x \in DOMAIN E
        PROVE  E[x] \in V \cup ToSet(path)
    <3>1. CASE x \in V
        BY <2>5, <2>6, <3>1
    <3>2. CASE x \notin V
      <4>1. PICK i \in 1 .. Len(path) : x = path[i]
          BY <2>3, <2>6, <3>2 DEF Spots
      <4>2. CASE i = Len(path)
          BY <2>1, <2>3, <2>6, <4>1, <4>2 DEF Stops
      <4>3. CASE i # Len(path)
        <5>1. i \in 1 .. (Len(path) - 1) /\ i + 1 \in 1 .. Len(path)
            BY <4>3, <2>3
        <5>2. path[i + 1] = E[path[i]]
            BY <5>1, <2>1 DEF Trail
        <5> QED
            BY <5>1, <5>2, <4>1, <2>3 DEF Spots
      <4> QED
          BY <4>2, <4>3
    <3> QED
        BY <3>1, <3>2
  <2>7. CASE ~(Last(path) \in DOMAIN E /\ E[Last(path)] \in ToSet(path))
    <3>1. next.cycles = review.cycles
        BY <2>2, <2>7 DEF ClosedPart, cycle
    <3>2. \A j \in 1 .. Len(path) : path[j] \notin OnCycle(E)
      <4> SUFFICES ASSUME NEW j \in 1 .. Len(path), path[j] \in OnCycle(E) PROVE FALSE
          OBVIOUS
      <4>1. Last(path) \in DOMAIN E /\ \E k \in 1 .. j : path[k] = E[Last(path)]
          BY <2>1, <2>5, OnCycleIsClosed
      <4>2. \A k \in 1 .. j : path[k] \in ToSet(path)
          BY <2>3 DEF Spots
      <4> QED
          BY <4>1, <4>2, <2>7
    <3>3. \A x \in ToSet(path) : x \notin OnCycle(E)
        BY <3>2, <2>3 DEF Spots
    <3>4. Exact(E, next)
        BY <2>2, <2>6, <3>1, <3>3 DEF Exact
    <3> QED
        BY <2>2, <2>4, <3>4 DEF next
  <2>8. CASE Last(path) \in DOMAIN E /\ E[Last(path)] \in ToSet(path)
    <3>1. PICK k \in 1 .. Len(path) : path[k] = E[Last(path)]
        BY <2>3, <2>8 DEF Spots
    <3>2. Ring(E, cycle) /\ Spots(cycle) = {path[m] : m \in k .. Len(path)}
        BY <2>1, <2>8, <3>1, ClosedIsRing DEF cycle
    <3> DEFINE new == Canonical(cycle)
               n == Len(review.cycles)
    <3>3. Ring(E, new) /\ LeastFirst(new) /\ Spots(new) = {path[m] : m \in k .. Len(path)}
        BY <3>2, CanonicalIsRing
    <3>4. next.cycles = Append(review.cycles, new)
      <4>1. cycle # <<>>
          BY <3>2 DEF Ring
      <4> QED
          BY <2>2, <4>1
    <3> HIDE DEF new, n
    <3>5. /\ next.cycles \in Seq(Seq(Nat)) /\ Len(next.cycles) = n + 1 /\ n \in Nat
          /\ next.cycles[n + 1] = new /\ \A i \in 1 .. n : next.cycles[i] = review.cycles[i]
        BY <3>3, <3>4, AppendProperties DEF Exact, Ring, n
    <3>6. Spots(new) \subseteq ToSet(path) /\ Spots(new) \cap V = {}
      <4>1. \A m \in k .. Len(path) : m \in 1 .. Len(path)
          BY <2>3
      <4>2. \A m \in 1 .. Len(path) : path[m] \in ToSet(path) /\ path[m] \notin V
          BY <2>1, <2>3 DEF Spots, Fresh
      <4> QED
          BY <3>3, <4>1, <4>2
    <3>7. \A i \in 1 .. n : /\ Ring(E, review.cycles[i]) /\ LeastFirst(review.cycles[i])
                            /\ Spots(review.cycles[i]) \subseteq V
        BY DEF Exact, n
    <3>8. \A i \in 1 .. (n + 1) : i \in 1 .. n \/ i = n + 1
        BY <3>5
    <3>9. \A i \in 1 .. Len(next.cycles) :
             /\ Ring(E, next.cycles[i]) /\ LeastFirst(next.cycles[i])
             /\ Spots(next.cycles[i]) \subseteq next.visited
        BY <2>2, <3>3, <3>5, <3>6, <3>7, <3>8
    <3>10. \A i, j \in 1 .. Len(next.cycles) :
              i # j => Spots(next.cycles[i]) \cap Spots(next.cycles[j]) = {}
      <4> TAKE i, j \in 1 .. Len(next.cycles)
      <4>1. CASE i \in 1 .. n /\ j \in 1 .. n
          BY <4>1, <3>5 DEF Exact, n
      <4>2. CASE i = n + 1 /\ j \in 1 .. n
          BY <4>2, <3>5, <3>6, <3>7
      <4>3. CASE j = n + 1 /\ i \in 1 .. n
          BY <4>3, <3>5, <3>6, <3>7
      <4> QED
          BY <3>5, <3>8, <4>1, <4>2, <4>3
    <3>11. ASSUME NEW x \in next.visited, x \in OnCycle(E)
           PROVE  \E i \in 1 .. Len(next.cycles) : x \in Spots(next.cycles[i])
      <4>1. CASE x \in V
        <5>1. PICK i \in 1 .. n : x \in Spots(review.cycles[i])
            BY <3>11, <4>1 DEF Exact, n
        <5>2. i \in 1 .. Len(next.cycles)
            BY <3>5
        <5> QED
            BY <5>1, <5>2, <3>5
      <4>2. CASE x \notin V
        <5>1. PICK j \in 1 .. Len(path) : x = path[j]
            BY <2>2, <2>3, <3>11, <4>2 DEF Spots
        <5>2. PICK m \in 1 .. j : path[m] = E[Last(path)]
            BY <2>1, <2>5, <3>11, <5>1, OnCycleIsClosed
        <5>3. m = k
            BY <2>1, <2>3, <3>1, <5>2 DEF Fresh
        <5>4. j \in k .. Len(path)
            BY <2>3, <5>2, <5>3
        <5>5. x \in Spots(new)
            BY <3>3, <5>1, <5>4
        <5>6. n + 1 \in 1 .. Len(next.cycles)
            BY <3>5
        <5> QED
            BY <3>5, <5>5, <5>6
      <4> QED
          BY <4>1, <4>2
    <3>12. Exact(E, next)
        BY <2>2, <2>6, <3>5, <3>9, <3>10, <3>11 DEF Exact
    <3> QED
        BY <2>2, <2>4, <3>12 DEF next
  <2> QED
      BY <2>7, <2>8
<1> QED
    BY <1>1, <1>2

(* The loop stays exact and visits every source that it has passed.        *)
LEMMA ReviewStaysExact ==
    ASSUME NEW E, FiniteGraph(E), NEW end \in Nat, NEW n \in 0 .. end
    PROVE  LET review == ReviewUpTo(E, end)[n]
           IN  Exact(E, review) /\ \A x \in DOMAIN E : x < n => x \in review.visited
<1> DEFINE R == ReviewUpTo(E, end)
           Good(k) == Exact(E, R[k]) /\ \A x \in DOMAIN E : x < k => x \in R[k].visited
           T == {k \in 0 .. end : ~Good(k)}
<1>1. DOMAIN E \subseteq Nat
    BY DEF FiniteGraph
<1>2. Good(0)
  <2>1. R[0].visited = {} /\ R[0].cycles = <<>>
      BY ReviewEquation
  <2>2. Exact(E, R[0])
      BY <2>1 DEF Exact
  <2> QED
      BY <1>1, <2>2
<1>3. ASSUME NEW k \in 1 .. end, Good(k - 1)
      PROVE  Good(k)
  <2>1. R[k] = VisitFrom(E, R[k - 1], k - 1)
      BY ReviewEquation
  <2>2. /\ Exact(E, R[k]) /\ R[k - 1].visited \subseteq R[k].visited
        /\ k - 1 \in DOMAIN E => k - 1 \in R[k].visited
    <3>1. k - 1 \in Nat /\ Exact(E, R[k - 1])
        BY <1>3
    <3> HIDE DEF R
    <3> QED
        BY <2>1, <3>1, VisitStaysExact
  <2> HIDE DEF R
  <2>3. \A x \in DOMAIN E : x < k => x < k - 1 \/ x = k - 1
      BY <1>1
  <2> QED
      BY <1>3, <2>2, <2>3
<1>4. T = {}
  <2> SUFFICES ASSUME T # {} PROVE FALSE
      OBVIOUS
  <2> HIDE DEF Good
  <2>0. T \subseteq Nat
      OBVIOUS
  <2>1. PICK m \in T : \A k \in T : m <= k
      BY <2>0, LeastNumber
  <2>2. m # 0
      BY <1>2
  <2>3. m \in 1 .. end /\ m - 1 \in 0 .. end /\ m - 1 \notin T
      BY <2>1, <2>2
  <2> QED
      BY <1>3, <2>1, <2>3
<1> QED
    BY <1>4

(* What the loop has reported at its end.                                  *)
LEMMA CyclesAreExact ==
    ASSUME NEW catalogs, Reviewable(catalogs)
    PROVE  \E review : /\ Exact(Edges(catalogs), review)
                       /\ DOMAIN Edges(catalogs) \subseteq review.visited
                       /\ review.cycles = RecommendationCycles(catalogs)
<1> DEFINE E == Edges(catalogs)
           end == Max(Recommending(catalogs) \cup {0}) + 1
<1>1. FiniteGraph(E) /\ end \in Nat /\ \A x \in DOMAIN E : x < end
    BY ReviewableEdges
<1>2. RecommendationCycles(catalogs) = ReviewUpTo(E, end)[end].cycles
    BY DEF RecommendationCycles
<1> HIDE DEF E, end
<1>3. end \in 0 .. end
    BY <1>1
<1>4. /\ Exact(E, ReviewUpTo(E, end)[end])
      /\ \A x \in DOMAIN E : x < end => x \in ReviewUpTo(E, end)[end].visited
    BY <1>1, <1>3, ReviewStaysExact
<1> QED
    BY <1>1, <1>2, <1>4 DEF E

(* The graph review reports exactly the cycles of the unambiguous part of  *)
(* the graph, each once and from its least API, however many catalogs,     *)
(* APIs and recommendations there are.                                     *)
THEOREM ReviewReportsCycles ==
    ASSUME NEW catalogs, Reviewable(catalogs)
    PROVE  ReviewExact(catalogs)
<1> DEFINE f == Edges(catalogs)
           cycles == RecommendationCycles(catalogs)
<1>1. PICK review : Exact(f, review) /\ DOMAIN f \subseteq review.visited /\ review.cycles = cycles
    BY CyclesAreExact
<1> HIDE DEF f, cycles
<1>2. cycles \in Seq(Seq(Nat)) /\ DOMAIN cycles = 1 .. Len(cycles)
    BY <1>1 DEF Exact
<1>3. ASSUME NEW i \in DOMAIN cycles
      PROVE  /\ Ring(f, cycles[i]) /\ LeastFirst(cycles[i])
             /\ ToSet(cycles[i]) = Spots(cycles[i]) /\ DOMAIN cycles[i] = 1 .. Len(cycles[i])
             /\ Len(cycles[i]) \in Nat \ {0}
  <2>1. Ring(f, cycles[i]) /\ LeastFirst(cycles[i])
      BY <1>1, <1>2 DEF Exact
  <2> QED
      BY <2>1, SpotsAreToSet DEF Ring
<1>4. \A x \in OnCycle(f) : \E i \in DOMAIN cycles : x \in ToSet(cycles[i])
  <2> TAKE x \in OnCycle(f)
  <2>1. x \in review.visited
      BY <1>1 DEF OnCycle
  <2>2. PICK i \in 1 .. Len(cycles) : x \in Spots(cycles[i])
      BY <1>1, <2>1 DEF Exact
  <2> QED
      BY <1>2, <1>3, <2>2
<1>5. \A i \in DOMAIN cycles : ToSet(cycles[i]) \subseteq OnCycle(f)
  <2> TAKE i \in DOMAIN cycles
  <2>1. \A k \in 1 .. Len(cycles[i]) : cycles[i][k] \in OnCycle(f)
      BY <1>3, RingIsOnCycle
  <2> QED
      BY <1>3, <2>1 DEF Spots
<1>6. UNION { ToSet(cycles[i]) : i \in DOMAIN cycles } = OnCycle(f)
    BY <1>4, <1>5
<1>7. \A i, j \in DOMAIN cycles : i # j => ToSet(cycles[i]) \cap ToSet(cycles[j]) = {}
    BY <1>1, <1>2, <1>3 DEF Exact
<1>8. ASSUME NEW i \in DOMAIN cycles, NEW k \in DOMAIN cycles[i]
      PROVE  /\ k # 1 => cycles[i][1] < cycles[i][k]
             /\ cycles[i][(k % Len(cycles[i])) + 1] = f[cycles[i][k]]
  <2>1. (k % Len(cycles[i])) + 1 = After(k, Len(cycles[i])) /\ k \in 1 .. Len(cycles[i])
      BY <1>3, AfterIsNext
  <2> QED
      BY <1>3, <2>1 DEF Ring, LeastFirst
<1> QED
    BY <1>6, <1>7, <1>8 DEF ReviewExact, f, cycles

(* The graph blocks no review without a reason: one that is refused has an *)
(* API with two targets or a cycle of recommendations.                     *)
THEOREM AcceptedUnlessCyclic ==
    ASSUME NEW catalogs, Reviewable(catalogs), Ambiguous(catalogs) = {},
           ~HasCycle(Graph(catalogs))
    PROVE  GraphAccepted(catalogs)
<1> DEFINE E == Edges(catalogs)
           cycles == RecommendationCycles(catalogs)
<1>1. PICK review : Exact(E, review) /\ review.cycles = cycles
    BY CyclesAreExact
<1>2. \A x \in DOMAIN E : E[x] \in Targets(catalogs, x)
    BY ReviewableEdges
<1> HIDE DEF E, cycles
<1> SUFFICES ASSUME cycles # <<>> PROVE FALSE
    BY DEF GraphAccepted, cycles
<1>3. 1 \in 1 .. Len(cycles)
    BY <1>1, EmptySeq DEF Exact
<1>4. Ring(E, cycles[1])
    BY <1>1, <1>3 DEF Exact
<1> DEFINE c == cycles[1]
           S == Spots(c)
<1>5. ASSUME NEW x \in S PROVE \E y \in S : <<x, y>> \in Graph(catalogs)
  <2>1. PICK k \in 1 .. Len(c) : x = c[k]
      BY DEF Spots
  <2>2. x \in DOMAIN E /\ c[After(k, Len(c))] = E[x]
      BY <1>4, <2>1 DEF Ring
  <2>3. Len(c) \in Nat \ {0}
      BY <1>4 DEF Ring
  <2>4. After(k, Len(c)) \in 1 .. Len(c)
      BY <2>3, AfterIsNext
  <2>5. E[x] \in S
      BY <2>2, <2>4 DEF Spots
  <2>6. <<x, E[x]>> \in Graph(catalogs)
      BY <1>2, <2>2 DEF Targets, Graph
  <2> QED
      BY <2>5, <2>6
<1>6. S # {}
  <2>1. 1 \in 1 .. Len(c)
      BY <1>4 DEF Ring
  <2> QED
      BY <2>1 DEF Spots
<1> HIDE DEF S, c
<1>7. S \in SUBSET { e[1] : e \in Graph(catalogs) }
  <2> SUFFICES ASSUME NEW x \in S PROVE x \in { e[1] : e \in Graph(catalogs) }
      OBVIOUS
  <2>1. PICK y \in S : <<x, y>> \in Graph(catalogs)
      BY <1>5
  <2>2. <<x, y>>[1] = x
      OBVIOUS
  <2> QED
      BY <2>1, <2>2
<1> QED
    BY <1>5, <1>6, <1>7 DEF HasCycle

(* Every graph of up to so many APIs can be reviewed.                      *)
LEMMA SmallIsReviewable ==
    ASSUME NEW n \in Nat, NEW catalogs \in SmallGraphs(n)
    PROVE  Reviewable(catalogs)
<1> DEFINE points == { f \in UNION { [D -> 1 .. n] : D \in SUBSET (1 .. n) } :
                          \A x \in DOMAIN f : f[x] # x }
           catalog(f) == [recs |-> [ x \in DOMAIN f |-> [api |-> f[x]] ]]
<1>1. PICK f \in points, g \in points : catalogs = {catalog(f), catalog(g)}
    BY DEF SmallGraphs
<1>2. \A h \in points : /\ DOMAIN h \subseteq 1 .. n
                        /\ \A x \in DOMAIN h : h[x] \in 1 .. n
    OBVIOUS
<1>3. ASSUME NEW c \in catalogs
      PROVE  DOMAIN c.recs \subseteq 1 .. n /\ \A x \in DOMAIN c.recs : c.recs[x].api \in 1 .. n
  <2>1. PICK h \in points : c = catalog(h)
      BY <1>1, <1>3
  <2> QED
      BY <1>2, <2>1
<1>4. IsFiniteSet(catalogs)
  <2> DEFINE a == catalog(f)
             b == catalog(g)
  <2>1. catalogs = {a} \cup {b}
      BY <1>1
  <2> HIDE DEF a, b
  <2> QED
      BY <2>1, FS_Singleton, FS_AddElement
<1> HIDE DEF points, catalog
<1>5. Recommending(catalogs) \subseteq 1 .. n
    BY <1>3 DEF Recommending
<1>6. IsFiniteSet(Recommending(catalogs))
    BY <1>5, FS_Interval, FS_Subset
<1>7. \A api \in Recommending(catalogs) : Targets(catalogs, api) \subseteq Nat
    BY <1>3 DEF Targets
<1> QED
    BY <1>4, <1>5, <1>6, <1>7 DEF Reviewable

(* The graph review reports every cycle exactly once, in every state of    *)
(* the pipeline and over the graphs of any size.                           *)
THEOREM CyclesReportedOnce == Spec => []GraphReviewIsExact
<1>1. GraphReviewIsExact
    BY PipelineAssumption, SmallIsReviewable, ReviewReportsCycles
       DEF GraphReviewIsExact, EveryGraph, GraphReviewExact
<1> QED
    BY <1>1, PTL

-----------------------------------------------------------------------------
(* Every product's evidence has been promoted since it was harvested. *)
Settled == \A p \in Products : source[p] = Missing \/ settled[p]

Acyclic == ~HasCycle(Graph(Range(Sources)))

(* The catalogs that have been harvested can be reviewed. *)
LEMMA SourcesReviewable == ASSUME Inv PROVE Reviewable(Range(Sources))
<1> DEFINE read == { p \in Products : IsWhole(source[p]) }
           cats == Range(Sources)
<1>1. IsFiniteSet(read)
    BY PipelineAssumption, FS_Subset
<1>2. Sources \in Surjection(read, cats)
    BY DEF Sources, Range, Surjection
<1>3. IsFiniteSet(cats)
    BY <1>1, <1>2, FS_Surjection
<1>4. ASSUME NEW c \in cats PROVE IsCatalog(c)
  <2>1. PICK p \in read : c = source[p].holds
      BY DEF Range, Sources
  <2> QED
      BY <2>1, WholeCatalogs
<1> HIDE DEF cats
<1>5. IsFiniteSet(Recommending(cats))
  <2> DEFINE parts == { DOMAIN c.recs : c \in cats }
  <2>1. \A S \in parts : IsFiniteSet(S)
      BY <1>4, FS_Subset DEF IsCatalog
  <2>2. [c \in cats |-> DOMAIN c.recs] \in Surjection(cats, parts)
      BY DEF Surjection
  <2>3. IsFiniteSet(parts)
      BY <1>3, <2>2, FS_Surjection
  <2> QED
      BY <2>1, <2>3, FS_UNION DEF Recommending
<1>6. /\ Recommending(cats) \subseteq Nat
      /\ \A api \in Recommending(cats) : Targets(cats, api) \subseteq Nat
    BY <1>4 DEF Recommending, Targets, IsCatalog
<1> QED
    BY <1>3, <1>5, <1>6 DEF Reviewable, cats

LEMMA RunningAcyclic == ASSUME Inv, ~Resting PROVE Acyclic
BY SourcesReviewable, AcceptedHasNoCycle DEF Inv, Running, ReviewReady, Acyclic

(* Evidence that is harvested has not been promoted. *)
LEMMA HarvestUnsettles == ASSUME Inv, NEW p \in Products, Harvest(p) PROVE ~Settled'
<1>1. PICK file \in {Torn} \cup { Whole(History[p][n]) : n \in DOMAIN History[p] } :
         source' = [source EXCEPT ![p] = file]
    BY DEF Harvest
<1>2. settled' = [settled EXCEPT ![p] = FALSE] /\ IsFcn(settled, Products)
      /\ IsFcn(source, Products)
    BY DEF Harvest, Inv, Shape
<1>3. source'[p] = file /\ settled'[p] = FALSE
    BY <1>1, <1>2 DEF IsFcn
<1>4. file # Missing
    BY FileKinds
<1> QED
    BY <1>3, <1>4 DEF Settled

(* Evidence promoted everywhere since it was harvested has no cycle of     *)
(* recommendations, although every review saw the sources of its own       *)
(* moment: the last promotion saw them as they are, and no evidence may    *)
(* change after it without being promoted itself.                          *)
THEOREM SettledStaysAcyclic == Spec => []SettledIsAcyclic
<1> DEFINE Goal == Resting /\ Settled => Acyclic
<1>1. Init => Goal
  <2> SUFFICES ASSUME Init PROVE Acyclic
      OBVIOUS
  <2>1. \A p \in Products : ~IsWhole(source[p])
      BY FileKinds DEF Init
  <2>2. Range(Sources) = {}
      BY <2>1 DEF Sources, Range
  <2>3. Graph({}) = {}
      BY DEF Graph
  <2>4. ~HasCycle({})
    <3>1. HasCycle({}) => \E S : S \in SUBSET { e[1] : e \in {} } /\ S # {}
        BY DEF HasCycle
    <3>2. \A S : S \in SUBSET { e[1] : e \in {} } => S = {}
        OBVIOUS
    <3> QED
        BY <3>1, <3>2
  <2> QED
      BY <2>2, <2>3, <2>4 DEF Acyclic
<1>2. ASSUME Inv, Goal, [Next]_vars PROVE Goal'
  <2>1. CASE \E p \in Products : Harvest(p)
      BY <1>2, <2>1, HarvestUnsettles
  <2>2. ASSUME Resting, UNCHANGED <<source, settled, promotion>> PROVE Goal'
      BY <1>2, <2>2 DEF Resting, Settled, Acyclic, Sources
  <2>3. ASSUME ~Resting, UNCHANGED source PROVE Goal'
    <3>1. Acyclic
        BY <1>2, <2>3, RunningAcyclic
    <3> QED
        BY <2>3, <3>1 DEF Acyclic, Sources
  <2>4. ASSUME UNCHANGED vars PROVE Goal'
      BY <1>2, <2>4 DEF vars, Resting, Settled, Acyclic, Sources
  <2>5. CASE \E p \in Products : Generate(p) \/ EditDraft(p) \/ RaiseVersion(p)
      BY <2>2, <2>5 DEF Generate, EditDraft, RaiseVersion
  <2>6. CASE \E p \in Products : StartPromotion(p)
    <3>1. PICK p \in Products : StartPromotion(p)
        BY <2>6
    <3>2. promotion' = [product |-> p, step |-> 1]
        BY <3>1 DEF StartPromotion
    <3>3. ~Resting'
        BY <3>2, Rests DEF Resting
    <3> QED
        BY <3>3
  <2>7. CASE WriteNext \/ Break
      BY <2>3, <2>7 DEF WriteNext, Break
  <2> HIDE DEF Goal
  <2> QED
      BY <1>2, <2>1, <2>4, <2>5, <2>6, <2>7 DEF Next
<1>3. Goal => SettledIsAcyclic
    BY DEF SettledIsAcyclic, Settled, Acyclic
<1> HIDE DEF Goal
<1> QED
    BY <1>1, <1>2, <1>3, PipelineInvariant, PTL DEF Spec
=============================================================================
