---------------------- MODULE ReleasePublicationProofs ----------------------
(***************************************************************************)
(* Theorems about ReleasePublication, for any number of runs, platforms,   *)
(* channels, plugins and versions.                                         *)
(***************************************************************************)
EXTENDS ReleasePublication, FiniteSetTheorems, TLAPS

Fields == {"status", "release", "platforms", "tree", "step", "done", "file",
           "entries", "merged"}

Running == run.status = "running"

(* The shape of the state; what an index holds is left open. *)
Shapes ==
    /\ DOMAIN archives = ArchiveNames
    /\ DOMAIN docs = Documents
    /\ \A d \in Documents : docs[d] \in {Missing, Torn, Whole(docs[d].holds)}
    /\ DOMAIN run = Fields
    /\ run.status \in {"idle", "running", "done", "failed"}
    /\ run.step \in 1..11 /\ run.done \in Nat
    /\ run.file \in {"untouched", "created", "written"}
    /\ Running => /\ run.release \in CoreReleases
                  /\ run.platforms \in Lists
                  /\ run.tree \in [Plugins -> PluginStates]

-----------------------------------------------------------------------------
(* Steps are numbered. *)
LEMMA StepNames ==
    ASSUME Shapes
    PROVE  /\ AtEnd(run) <=> run.step = 11
           /\ At("core-archives")    <=> Running /\ run.step = 1
           /\ At("core-index")       <=> Running /\ run.step = 2
           /\ At("core-signature")   <=> Running /\ run.step = 3
           /\ At("scripts")          <=> Running /\ run.step = 4
           /\ At("plugin-archives")  <=> Running /\ run.step = 5
           /\ At("plugin-index")     <=> Running /\ run.step = 6
           /\ At("plugin-signature") <=> Running /\ run.step = 7
           /\ At("mirror-index")     <=> Running /\ run.step = 8
           /\ At("mirror-signature") <=> Running /\ run.step = 9
           /\ At("mirror-manifest")  <=> Running /\ run.step = 10
<1>1. PICK k \in 1..11 : run.step = k
    BY DEF Shapes
<1>2. AtEnd(run) <=> k = 11
    BY <1>1 DEF AtEnd, Steps
<1>3. \A name : At(name) <=> Running /\ k # 11 /\ Steps[k] = name
    BY <1>1, <1>2 DEF At, Running
<1>4. CASE k = 11
    BY <1>1, <1>2, <1>3, <1>4
<1>5. CASE k \in 1..10
    <2>1. /\ Steps[k] = "core-archives" <=> k = 1
          /\ Steps[k] = "core-index" <=> k = 2
          /\ Steps[k] = "core-signature" <=> k = 3
          /\ Steps[k] = "scripts" <=> k = 4
          /\ Steps[k] = "plugin-archives" <=> k = 5
          /\ Steps[k] = "plugin-index" <=> k = 6
          /\ Steps[k] = "plugin-signature" <=> k = 7
          /\ Steps[k] = "mirror-index" <=> k = 8
          /\ Steps[k] = "mirror-signature" <=> k = 9
          /\ Steps[k] = "mirror-manifest" <=> k = 10
        BY <1>5 DEF Steps
    <2> QED
        BY <1>1, <1>2, <1>3, <1>5, <2>1
<1> QED
    BY <1>4, <1>5

(* The step of a document. *)
DocStep(d) ==
    IF d = "core-index" THEN 2 ELSE IF d = "core-signature" THEN 3
    ELSE IF d = "plugin-index" THEN 6 ELSE IF d = "plugin-signature" THEN 7
    ELSE IF d = "mirror-index" THEN 8 ELSE IF d = "mirror-signature" THEN 9 ELSE 10

LEMMA DocumentSteps ==
    ASSUME Shapes, NEW d \in Documents, At(d)
    PROVE  Running /\ run.step = DocStep(d)
BY StepNames DEF Documents, DocStep

(* What the run goes on with. *)
LEMMA Advance ==
    ASSUME Shapes, run.step \in 1..10, NEW m,
           \/ run' = [NextStep(run) EXCEPT !.merged = m]
           \/ run' = NextStep(run) /\ m = NoEntries
    PROVE  /\ DOMAIN run' = Fields
           /\ run'.status = run.status /\ run'.release = run.release
           /\ run'.platforms = run.platforms /\ run'.tree = run.tree
           /\ run'.step = run.step + 1 /\ run'.done = 0 /\ run'.file = "untouched"
           /\ run'.entries = NoEntries /\ run'.merged = m
<1> DEFINE a == [run EXCEPT !.step = @ + 1, !.done = 0]
           b == [a EXCEPT !.file = "untouched", !.entries = NoEntries]
           c == [b EXCEPT !.merged = NoEntries]
<1>1. DOMAIN run = Fields
    BY DEF Shapes
<1>2. /\ DOMAIN a = Fields /\ a.status = run.status /\ a.release = run.release
      /\ a.platforms = run.platforms /\ a.tree = run.tree
      /\ a.step = run.step + 1 /\ a.done = 0
    BY <1>1 DEF Fields
<1>3. NextStep(run) = c
    BY DEF NextStep
<1> HIDE DEF a
<1>4. /\ DOMAIN b = Fields /\ b.status = run.status /\ b.release = run.release
      /\ b.platforms = run.platforms /\ b.tree = run.tree
      /\ b.step = run.step + 1 /\ b.done = 0 /\ b.file = "untouched"
      /\ b.entries = NoEntries
    BY <1>2 DEF Fields
<1> HIDE DEF b
<1>5. /\ DOMAIN c = Fields /\ c.status = run.status /\ c.release = run.release
      /\ c.platforms = run.platforms /\ c.tree = run.tree
      /\ c.step = run.step + 1 /\ c.done = 0 /\ c.file = "untouched"
      /\ c.entries = NoEntries /\ c.merged = NoEntries
    BY <1>4 DEF Fields
<1> HIDE DEF c
<1>6. run' = [c EXCEPT !.merged = m] \/ (run' = c /\ m = NoEntries)
    BY <1>3
<1> QED
    BY <1>5, <1>6 DEF Fields

(* A run that is not under way, whatever it did. *)
LEMMA AtRest ==
    ASSUME NEW s, run' = [Idle EXCEPT !.status = s]
    PROVE  /\ DOMAIN run' = Fields /\ run'.status = s /\ run'.step = 1 /\ run'.done = 0
           /\ run'.file = "untouched" /\ run'.entries = NoEntries
           /\ run'.merged = NoEntries
BY DEF Idle, Fields

(* The state in which a run starts. *)
LEMMA Starts ==
    ASSUME Start
    PROVE  /\ DOMAIN run' = Fields /\ run'.status = "running" /\ run'.step = 1
           /\ run'.release \in CoreReleases /\ run'.platforms \in Lists
           /\ run'.tree \in [Plugins -> PluginStates]
           /\ run'.done = 0 /\ run'.file = "untouched"
           /\ run'.entries = NoEntries /\ run'.merged = NoEntries
<1>1. PICK release \in CoreReleases, tree \in [Plugins -> PluginStates],
           platforms \in Lists :
               run' = [Idle EXCEPT !.status = "running", !.release = release,
                                   !.platforms = platforms, !.tree = tree]
    BY DEF Start, Lists
<1> DEFINE a == [Idle EXCEPT !.status = "running", !.release = release]
<1>2. /\ DOMAIN a = Fields /\ a.status = "running" /\ a.release = release /\ a.step = 1
      /\ a.done = 0 /\ a.file = "untouched" /\ a.entries = NoEntries
      /\ a.merged = NoEntries
    BY DEF Idle, Fields
<1>3. run' = [a EXCEPT !.platforms = platforms, !.tree = tree]
    BY <1>1
<1> HIDE DEF a
<1> QED
    BY <1>2, <1>3 DEF Fields

(* The next plugin is one of the plugins. *)
LEMMA NextPluginIsOne ==
    ASSUME Shapes, run.done < Cardinality(Plugins)
    PROVE  NextPlugin \in Plugins
<1>1. Cardinality(Plugins) \in Nat /\ ExistsBijection(1..Cardinality(Plugins), Plugins)
    BY PluginsAssumption, FS_CardinalityType
<1>2. PICK f : f \in Bijection(1..Cardinality(Plugins), Plugins)
    BY <1>1 DEF ExistsBijection
<1>3. f \in [1..Cardinality(Plugins) -> Plugins] /\ IsInjective(f)
    BY <1>2 DEF Bijection, Injection, IsInjective
<1>4. PluginOrder \in [1..Cardinality(Plugins) -> Plugins]
    BY <1>3 DEF PluginOrder
<1>5. run.done + 1 \in 1..Cardinality(Plugins)
    BY <1>1 DEF Shapes
<1> QED
    BY <1>4, <1>5 DEF NextPlugin

LEMMA ShapesInit == Init => Shapes
BY DEF Init, Shapes, Idle, Fields, Running, Missing, Torn, Whole

LEMMA ShapesStep == Shapes /\ [Next]_vars => Shapes'
<1> SUFFICES ASSUME Shapes, [Next]_vars PROVE Shapes'
    OBVIOUS
<1> DEFINE Archives == DOMAIN archives' = ArchiveNames
           Docs == /\ DOMAIN docs' = Documents
                   /\ \A d \in Documents : docs'[d] \in {Missing, Torn, Whole(docs'[d].holds)}
<1>1. ASSUME UNCHANGED docs PROVE Docs
    BY <1>1 DEF Shapes
<1>2. ASSUME UNCHANGED archives PROVE Archives
    BY <1>2 DEF Shapes
<1>3. ASSUME Archives, Docs, DOMAIN run' = Fields,
             run'.status \in {"idle", "running", "done", "failed"},
             run'.step \in 1..11, run'.done \in Nat,
             run'.file \in {"untouched", "created", "written"},
             run'.status = "running" => /\ run'.release \in CoreReleases
                                        /\ run'.platforms \in Lists
                                        /\ run'.tree \in [Plugins -> PluginStates]
      PROVE  Shapes'
    BY <1>3 DEF Shapes, Running
<1>4. CASE UNCHANGED vars
    BY <1>4 DEF vars, Shapes, Running
<1>5. CASE Start
    <2>1. UNCHANGED <<archives, docs>>
        BY <1>5 DEF Start
    <2> HIDE DEF Archives, Docs
    <2>2. Archives /\ Docs
        BY <1>1, <1>2, <2>1
    <2> QED
        BY <1>3, <1>5, <2>2, Starts
<1>6. CASE Stop \/ Finish
    <2>1. PICK s \in {"failed", "done"} : run' = [Idle EXCEPT !.status = s]
        BY <1>6 DEF Stop, Finish
    <2> QED
        BY <1>1, <1>2, <1>3, <1>6, <2>1, AtRest DEF Stop, Finish
<1>7. CASE CreateCoreArchive \/ WriteCoreArchive
    <2>1. PICK f \in {"created", "written"} : run' = [run EXCEPT !.file = f]
        BY <1>7 DEF CreateCoreArchive, WriteCoreArchive
    <2>2. Archives /\ UNCHANGED docs
        BY <1>7 DEF CreateCoreArchive, WriteCoreArchive, Shapes
    <2>3. /\ DOMAIN run' = Fields /\ run'.file = f /\ run'.status = run.status
          /\ run'.step = run.step /\ run'.done = run.done /\ run'.release = run.release
          /\ run'.platforms = run.platforms /\ run'.tree = run.tree
        BY <2>1 DEF Shapes, Fields
    <2> HIDE DEF Archives, Docs
    <2> QED
        BY <1>1, <1>3, <2>2, <2>3 DEF Shapes, Running
<1>8. CASE DigestCoreArchive \/ DigestPlugin
    <2>1. PICK m : run' = [run EXCEPT !.entries = m, !.done = @ + 1, !.file = "untouched"]
        BY <1>8 DEF DigestCoreArchive, DigestPlugin
    <2>2. /\ DOMAIN run' = Fields /\ run'.file = "untouched" /\ run'.status = run.status
          /\ run'.step = run.step /\ run'.done = run.done + 1 /\ run'.release = run.release
          /\ run'.platforms = run.platforms /\ run'.tree = run.tree
        BY <2>1 DEF Shapes, Fields
    <2>3. UNCHANGED <<archives, docs>>
        BY <1>8 DEF DigestCoreArchive, DigestPlugin
    <2> HIDE DEF Archives, Docs
    <2> QED
        BY <1>1, <1>2, <1>3, <2>2, <2>3 DEF Shapes, Running
<1>9. CASE MergeCoreIndex \/ MergeRegistryIndex \/ CopyInstallerScripts
    <2>1. run.step \in 1..10 /\ UNCHANGED <<archives, docs>>
        BY <1>9, StepNames DEF MergeCoreIndex, MergeRegistryIndex, CopyInstallerScripts
    <2>2. \/ run' = NextStep(run)
          \/ \E m : run' = [NextStep(run) EXCEPT !.merged = m]
        BY <1>9 DEF MergeCoreIndex, MergeRegistryIndex, CopyInstallerScripts
    <2>3. /\ DOMAIN run' = Fields /\ run'.file = "untouched" /\ run'.status = run.status
          /\ run'.step = run.step + 1 /\ run'.done = 0 /\ run'.release = run.release
          /\ run'.platforms = run.platforms /\ run'.tree = run.tree
        BY <2>1, <2>2, Advance
    <2> HIDE DEF Archives, Docs
    <2> QED
        BY <1>1, <1>2, <1>3, <2>1, <2>3 DEF Shapes, Running
<1>10. CASE Truncate
    <2>1. Docs
        BY <1>10 DEF Truncate, Shapes
    <2>2. /\ DOMAIN run' = Fields /\ run'.file = "created" /\ run'.status = run.status
          /\ run'.step = run.step /\ run'.done = run.done /\ run'.release = run.release
          /\ run'.platforms = run.platforms /\ run'.tree = run.tree
        BY <1>10 DEF Truncate, Shapes, Fields
    <2>3. UNCHANGED archives
        BY <1>10 DEF Truncate
    <2> HIDE DEF Archives, Docs
    <2> QED
        BY <1>2, <1>3, <2>1, <2>2, <2>3 DEF Shapes, Running
<1>11. CASE Fill
    <2>1. Docs
        BY <1>11 DEF Fill, Shapes, Whole
    <2>2. run.step \in 1..10
        <3>1. PICK d \in Documents : At(d)
            BY <1>11 DEF Fill
        <3> QED
            BY <3>1, DocumentSteps DEF DocStep
    <2>3. /\ DOMAIN run' = Fields /\ run'.file = "untouched" /\ run'.status = run.status
          /\ run'.step = run.step + 1 /\ run'.done = 0 /\ run'.release = run.release
          /\ run'.platforms = run.platforms /\ run'.tree = run.tree
        BY <1>11, <2>2, Advance DEF Fill
    <2>4. UNCHANGED archives
        BY <1>11 DEF Fill
    <2> HIDE DEF Archives, Docs
    <2> QED
        BY <1>2, <1>3, <2>1, <2>2, <2>3, <2>4 DEF Shapes, Running
<1>12. CASE PackPlugin
    <2>1. Archives /\ UNCHANGED docs
        BY <1>12 DEF PackPlugin, Shapes
    <2>2. /\ DOMAIN run' = Fields /\ run'.file = "written" /\ run'.status = run.status
          /\ run'.step = run.step /\ run'.done = run.done /\ run'.release = run.release
          /\ run'.platforms = run.platforms /\ run'.tree = run.tree
        BY <1>12 DEF PackPlugin, Shapes, Fields
    <2> HIDE DEF Archives, Docs
    <2> QED
        BY <1>1, <1>3, <2>1, <2>2 DEF Shapes, Running
<1> QED
    BY <1>4, <1>5, <1>6, <1>7, <1>8, <1>9, <1>10, <1>11, <1>12 DEF Next

-----------------------------------------------------------------------------
(* What an index has once named stays in it.                               *)

(* The merge that a document is written from has every key the document    *)
(* ever had; the mirror index follows the plugin index.                    *)
KeysKept ==
    /\ \A e \in published : e[1] \in Indexes /\ e = <<e[1], e[2]>>
    /\ \A e \in published :
          /\ docs[e[1]].is # "missing"
          /\ docs[e[1]].is = "whole" => e[2] \in DOMAIN docs[e[1]].holds
          /\ Running /\ run.step = 2 /\ e[1] = "core-index" => e[2] \in DOMAIN run.merged
          /\ Running /\ run.step = 6 /\ e[1] = "plugin-index" => e[2] \in DOMAIN run.merged
          /\ Running /\ run.step \in 6..8 /\ e[1] = "mirror-index"
                => e[2] \in DOMAIN run.merged
          /\ e[1] = "mirror-index" => <<"plugin-index", e[2]>> \in published
    /\ Running /\ run.step \in 7..8 =>
          \A k \in DOMAIN run.merged : <<"plugin-index", k>> \in published

(* A document that was loaded has every key it ever had. *)
LEMMA LoadedKeys ==
    ASSUME Shapes, KeysKept, NEW d \in Indexes, Loads(docs[d]), NEW e \in published, e[1] = d
    PROVE  e[2] \in DOMAIN docs[d].holds
<1>1. d \in Documents
    BY DEF Indexes, Documents
<1>2. docs[d].is \in {"missing", "torn", "whole"}
    BY <1>1 DEF Shapes, Missing, Torn, Whole
<1>3. docs[e[1]].is # "missing" /\ (docs[e[1]].is = "whole" => e[2] \in DOMAIN docs[e[1]].holds)
    BY DEF KeysKept
<1> QED
    BY <1>2, <1>3 DEF Loads

LEMMA KeysKeptStep == Shapes /\ Shapes' /\ KeysKept /\ [Next]_vars => KeysKept'
<1> SUFFICES ASSUME Shapes, Shapes', KeysKept, [Next]_vars PROVE KeysKept'
    OBVIOUS
<1>1. CASE UNCHANGED vars
    BY <1>1 DEF vars, KeysKept, Running
<1>2. CASE Start \/ Stop \/ Finish
    <2>1. run'.step = 1 /\ UNCHANGED <<docs, published>>
        BY <1>2, Starts, AtRest DEF Start, Stop, Finish
    <2> QED
        BY <2>1 DEF KeysKept
<1>3. CASE \/ CreateCoreArchive \/ WriteCoreArchive \/ DigestCoreArchive
           \/ PackPlugin \/ DigestPlugin
    <2>1. run.step \in {1, 5} /\ UNCHANGED <<docs, published>>
        BY <1>3, StepNames DEF CreateCoreArchive, WriteCoreArchive, DigestCoreArchive,
                               PackPlugin, DigestPlugin
    <2>2. run'.step = run.step
        BY <1>3 DEF CreateCoreArchive, WriteCoreArchive, DigestCoreArchive,
                    PackPlugin, DigestPlugin, Shapes, Fields
    <2> QED
        BY <2>1, <2>2 DEF KeysKept
<1>4. CASE CopyInstallerScripts
    <2>1. run.step = 4 /\ run' = NextStep(run) /\ UNCHANGED <<docs, published>>
        BY <1>4, StepNames DEF CopyInstallerScripts
    <2>2. run'.step = 5
        BY <2>1, Advance
    <2> QED
        BY <2>1, <2>2 DEF KeysKept
<1>5. CASE MergeCoreIndex
    <2> DEFINE m == UpsertCoreRelease(docs["core-index"].holds, run.entries)
    <2>1. /\ run.step = 1 /\ Loads(docs["core-index"]) /\ UNCHANGED <<docs, published>>
          /\ run' = [NextStep(run) EXCEPT !.merged = m]
        BY <1>5, StepNames DEF MergeCoreIndex
    <2>2. DOMAIN docs["core-index"].holds \subseteq DOMAIN m
        BY DEF UpsertCoreRelease, Over
    <2> HIDE DEF m
    <2>3. run'.step = 2 /\ run'.merged = m
        BY <2>1, Advance
    <2>4. \A e \in published : e[1] = "core-index" => e[2] \in DOMAIN m
        BY <2>1, <2>2, LoadedKeys DEF Indexes
    <2> QED
        BY <2>1, <2>3, <2>4 DEF KeysKept
<1>6. CASE MergeRegistryIndex
    <2> DEFINE m == UpsertPlugins(docs["plugin-index"].holds, run.entries)
    <2>1. /\ run.step = 5 /\ Loads(docs["plugin-index"]) /\ UNCHANGED <<docs, published>>
          /\ run' = [NextStep(run) EXCEPT !.merged = m]
        BY <1>6, StepNames DEF MergeRegistryIndex
    <2>2. DOMAIN docs["plugin-index"].holds \subseteq DOMAIN m
        BY DEF UpsertPlugins, Over
    <2> HIDE DEF m
    <2>3. run'.step = 6 /\ run'.merged = m
        BY <2>1, Advance
    <2>4. \A e \in published : e[1] = "plugin-index" => e[2] \in DOMAIN m
        BY <2>1, <2>2, LoadedKeys DEF Indexes
    <2>5. \A e \in published : e[1] = "mirror-index" => e[2] \in DOMAIN m
        <3> TAKE e \in published
        <3> HAVE e[1] = "mirror-index"
        <3>1. <<"plugin-index", e[2]>> \in published
            BY DEF KeysKept
        <3> QED
            BY <2>4, <3>1
    <2> QED
        BY <2>1, <2>3, <2>4, <2>5 DEF KeysKept
<1>7. CASE Truncate
    <2>1. PICK d \in Documents :
              At(d) /\ docs' = [docs EXCEPT ![d] = Torn]
        BY <1>7 DEF Truncate
    <2>2. /\ run'.step = run.step /\ run'.status = run.status /\ run'.merged = run.merged
          /\ UNCHANGED published
        BY <1>7 DEF Truncate, Shapes, Fields
    <2>3. \A x \in Documents : docs'[x] = docs[x] \/ docs'[x] = Torn
        BY <2>1 DEF Shapes
    <2>4. \A e \in published : e[1] \in Documents
        BY DEF KeysKept, Indexes, Documents
    <2> QED
        BY <2>2, <2>3, <2>4 DEF KeysKept, Torn, Running
<1>8. CASE Fill
    <2>1. PICK d \in Documents :
              /\ At(d) /\ docs' = [docs EXCEPT ![d] = Whole(run.merged)]
              /\ published' = IF d \in Indexes
                              THEN published \cup ({d} \X DOMAIN run.merged)
                              ELSE published
        BY <1>8 DEF Fill
    <2>2. Running /\ run.step = DocStep(d)
        BY <2>1, DocumentSteps
    <2>3. /\ run'.step = run.step + 1 /\ run'.status = run.status
          /\ run'.merged = run.merged
        BY <1>8, <2>2, Advance DEF Fill, DocStep
    <2>4. /\ docs'[d] = Whole(run.merged)
          /\ \A x \in Documents \ {d} : docs'[x] = docs[x]
        BY <2>1 DEF Shapes
    <2>5. \A e \in published : e[1] = d => e[2] \in DOMAIN run.merged
        <3> TAKE e \in published
        <3> HAVE e[1] = d
        <3>1. d \in {"core-index", "plugin-index", "mirror-index"}
            BY DEF KeysKept, Indexes
        <3>2. CASE d = "core-index"
            BY <2>2, <3>2 DEF KeysKept, DocStep
        <3>3. CASE d = "plugin-index"
            BY <2>2, <3>3 DEF KeysKept, DocStep
        <3>4. CASE d = "mirror-index"
            <4>1. Running /\ run.step = 8
                BY <2>2, <3>4 DEF DocStep
            <4>2. run.step \in 6..8
                BY <4>1
            <4> QED
                BY <3>4, <4>1, <4>2 DEF KeysKept
        <3> QED
            BY <3>1, <3>2, <3>3, <3>4
    <2>6. \A e \in published' :
              \/ e \in published
              \/ /\ d \in Indexes
                 /\ e[1] = d
                 /\ e[2] \in DOMAIN run.merged
                 /\ e = <<e[1], e[2]>>
        <3> TAKE e \in published'
        <3>1. \/ e \in published
              \/ d \in Indexes /\ \E k \in DOMAIN run.merged : e = <<d, k>>
            BY <2>1
        <3>2. ASSUME d \in Indexes, NEW k \in DOMAIN run.merged, e = <<d, k>>
              PROVE  e[1] = d /\ e[2] = k /\ e = <<e[1], e[2]>>
            BY <3>2
        <3> QED
            BY <3>1, <3>2
    <2>7. published \subseteq published'
        BY <2>1
    <2>8. Indexes \subseteq Documents
        BY DEF Indexes, Documents
    <2> SUFFICES ASSUME NEW e \in published'
                 PROVE  /\ e[1] \in Indexes /\ e = <<e[1], e[2]>>
                        /\ docs'[e[1]].is # "missing"
                        /\ docs'[e[1]].is = "whole" => e[2] \in DOMAIN docs'[e[1]].holds
                        /\ Running' /\ run'.step = 2 /\ e[1] = "core-index"
                              => e[2] \in DOMAIN run'.merged
                        /\ Running' /\ run'.step = 6 /\ e[1] = "plugin-index"
                              => e[2] \in DOMAIN run'.merged
                        /\ Running' /\ run'.step \in 6..8 /\ e[1] = "mirror-index"
                              => e[2] \in DOMAIN run'.merged
                        /\ e[1] = "mirror-index" => <<"plugin-index", e[2]>> \in published'
        <3>1. Running' /\ run'.step \in 7..8 =>
                  \A k \in DOMAIN run'.merged : <<"plugin-index", k>> \in published'
            <4> SUFFICES ASSUME run'.step \in 7..8, NEW k \in DOMAIN run.merged
                         PROVE  <<"plugin-index", k>> \in published'
                BY <2>3
            <4>1. CASE d = "plugin-index"
                BY <2>1, <4>1 DEF Indexes
            <4>2. CASE d = "plugin-signature"
                BY <2>2, <2>7, <4>2 DEF KeysKept, DocStep
            <4>3. d \in {"plugin-index", "plugin-signature"}
                BY <2>2, <2>3 DEF DocStep
            <4> QED
                BY <4>1, <4>2, <4>3
        <3> QED
            BY <3>1 DEF KeysKept
    <2>9. e[1] \in Indexes /\ e = <<e[1], e[2]>>
        BY <2>6 DEF KeysKept
    <2>10. CASE e[1] = d
        <3>1. e[2] \in DOMAIN run.merged
            BY <2>5, <2>6, <2>10
        <3>2. d = "mirror-index" => <<"plugin-index", e[2]>> \in published'
            BY <2>2, <2>7, <3>1 DEF KeysKept, DocStep
        <3> QED
            BY <2>3, <2>4, <2>9, <2>10, <3>1, <3>2 DEF Whole
    <2>11. CASE e[1] # d
        <3>1. e \in published /\ docs'[e[1]] = docs[e[1]]
            BY <2>4, <2>6, <2>8, <2>9, <2>11
        <3>2. run'.step = 2 => FALSE
            BY <2>2, <2>3 DEF DocStep
        <3>3. run'.step = 6 => FALSE
            BY <2>2, <2>3 DEF DocStep
        <3>4. run'.step \in 6..8 => run.step \in 6..8
            BY <2>2, <2>3 DEF DocStep
        <3> QED
            BY <2>2, <2>3, <2>7, <2>9, <3>1, <3>2, <3>3, <3>4 DEF KeysKept
    <2> QED
        BY <2>10, <2>11
<1> QED
    BY <1>1, <1>2, <1>3, <1>4, <1>5, <1>6, <1>7, <1>8 DEF Next

(* tools/release: a channel, or a plugin and its channel, that an index of *)
(* the output directory once named is in it whenever it can be read,       *)
(* however many runs, for other channels and plugins, failed or were       *)
(* killed since.                                                           *)
THEOREM EntriesSurvive == Spec => []EntriesPreserved
<1>1. Init => Shapes /\ KeysKept
    BY ShapesInit DEF Init, KeysKept, Running, Idle
<1>2. Shapes /\ KeysKept /\ [Next]_vars => Shapes' /\ KeysKept'
    BY ShapesStep, KeysKeptStep
<1>3. KeysKept => EntriesPreserved
    BY DEF KeysKept, EntriesPreserved, IsWhole
<1> QED
    BY <1>1, <1>2, <1>3, PTL DEF Spec

-----------------------------------------------------------------------------
(* What the plugin indexes name is what the output directory has.          *)

(* Archives have the same name only if they are of the same kind, plugin,  *)
(* platform and version.                                                   *)
LEMMA NamesApart ==
    ASSUME NEW a, NEW b, NEW v, NEW w
    PROVE  /\ PluginArchive(a, v) = PluginArchive(b, w) => a = b /\ v = w
           /\ CoreArchive(v, a) = CoreArchive(w, b) => a = b /\ v = w
           /\ CoreArchive(v, a) # PluginArchive(b, w)
BY DEF PluginArchive, CoreArchive

(* An archive of a plugin is missing, or whole with a state that has its   *)
(* version: it is moved to its name when it is complete.                   *)
Packed ==
    \A p \in Plugins, s \in PluginStates :
        \/ archives[PluginArchive(p, s.version)] = Missing
        \/ \E content : /\ archives[PluginArchive(p, s.version)] = Whole(content)
                        /\ content.packs \in PluginStates
                        /\ content.packs.version = s.version

(* The archive of a version that is packed once does not change. *)
Stay ==
    \A p \in Plugins, s \in PluginStates :
        PackedOnce(s.version) /\ archives[PluginArchive(p, s.version)] # Missing
            => archives'[PluginArchive(p, s.version)] = archives[PluginArchive(p, s.version)]

(* The entries m are of plugins, and the archives of those whose version   *)
(* is packed once have their digests.                                      *)
Match(m, files) ==
    \A key \in DOMAIN m :
        /\ key[1] \in Plugins
        /\ \E s \in PluginStates : s.version = m[key].version
        /\ PackedOnce(m[key].version) =>
              files[PluginArchive(key[1], m[key].version)] = Whole(m[key].digest)

PluginsMatch ==
    /\ Packed
    /\ Match(docs["plugin-index"].holds, archives)
    /\ Running /\ run.step = 5 =>
          /\ Match(run.entries, archives)
          /\ run.file # "untouched" =>
                run.done < Cardinality(Plugins) /\ archives[PluginName] # Missing
    /\ Running /\ run.step \in 6..11 => Match(run.merged, archives)

(* The archive a plugin's turn is about. *)
LEMMA PluginsTurn ==
    ASSUME Shapes, Running, run.done < Cardinality(Plugins)
    PROVE  /\ NextPlugin \in Plugins /\ run.tree[NextPlugin] \in PluginStates
           /\ PluginName = PluginArchive(NextPlugin, run.tree[NextPlugin].version)
           /\ PluginName \in DOMAIN archives
<1>1. NextPlugin \in Plugins
    BY NextPluginIsOne
<1>2. run.tree[NextPlugin] \in PluginStates
    BY <1>1 DEF Shapes
<1> QED
    BY <1>1, <1>2 DEF PluginName, Shapes, ArchiveNames

(* Archives of a version packed once are written once: what is packed      *)
(* again has the payload of what is there.                                 *)
LEMMA ArchivesStay ==
    ASSUME Shapes, Packed, [Next]_vars
    PROVE  Stay /\ Packed'
<1>2. CASE \A p \in Plugins, s \in PluginStates :
               archives'[PluginArchive(p, s.version)] = archives[PluginArchive(p, s.version)]
    BY <1>2 DEF Stay, Packed
<1>3. CASE CreateCoreArchive \/ WriteCoreArchive
    <2>1. PICK file : archives' = [archives EXCEPT ![CoreName] = file]
        BY <1>3 DEF CreateCoreArchive, WriteCoreArchive
    <2>2. \A p \in Plugins, s \in PluginStates :
              /\ PluginArchive(p, s.version) \in DOMAIN archives
              /\ PluginArchive(p, s.version) # CoreName
        BY NamesApart DEF Shapes, ArchiveNames, CoreName
    <2> QED
        BY <1>2, <2>1, <2>2
<1>4. CASE PackPlugin
    <2> DEFINE t == run.tree[NextPlugin]
               c == [packs |-> t, build |-> runs]
    <2>1. Running /\ run.done < Cardinality(Plugins)
        BY <1>4 DEF PackPlugin, At, Running
    <2>2. /\ NextPlugin \in Plugins /\ t \in PluginStates
          /\ PluginName = PluginArchive(NextPlugin, t.version)
          /\ PluginName \in DOMAIN archives
        BY <2>1, PluginsTurn
    <2>3. Candidate = Whole(c) /\ Candidate.holds.packs = t
        BY DEF Candidate, Whole
    <2>4. c.packs = t
        OBVIOUS
    <2> HIDE DEF t, c
    <2>5. CASE SamePayload(archives[PluginName], Candidate)
        BY <1>2, <1>4, <2>5 DEF PackPlugin
    <2>6. CASE ~SamePayload(archives[PluginName], Candidate)
        <3>1. archives' = [archives EXCEPT ![PluginName] = Whole(c)]
            BY <1>4, <2>3, <2>6 DEF PackPlugin
        <3>2. \A p \in Plugins, s \in PluginStates :
                  \/ archives'[PluginArchive(p, s.version)]
                         = archives[PluginArchive(p, s.version)]
                  \/ /\ PluginArchive(p, s.version) = PluginName
                     /\ s.version = t.version
                     /\ archives'[PluginArchive(p, s.version)] = Whole(c)
            BY <2>2, <3>1, NamesApart DEF Shapes, ArchiveNames
        <3>3. Packed'
            BY <2>2, <2>4, <3>2 DEF Packed
        <3>4. ASSUME NEW p \in Plugins, NEW s \in PluginStates, PackedOnce(s.version),
                     archives[PluginArchive(p, s.version)] # Missing,
                     PluginArchive(p, s.version) = PluginName, s.version = t.version
              PROVE  FALSE
            <4>1. PICK content : /\ archives[PluginName] = Whole(content)
                                 /\ content.packs \in PluginStates
                                 /\ content.packs.version = s.version
                BY <3>4 DEF Packed
            <4>2. content.packs = t
                BY <2>2, <3>4, <4>1 DEF PackedOnce
            <4> QED
                BY <2>3, <2>6, <4>1, <4>2 DEF SamePayload, IsWhole, Whole
        <3>5. Stay
            BY <3>2, <3>4 DEF Stay
        <3> QED
            BY <3>3, <3>5
    <2> QED
        BY <2>5, <2>6
<1>5. CASE UNCHANGED archives
    BY <1>2, <1>5
<1> QED
    BY <1>3, <1>4, <1>5
    DEF Next, vars, Start, Stop, Finish, DigestCoreArchive, MergeCoreIndex, Truncate, Fill,
        CopyInstallerScripts, DigestPlugin, MergeRegistryIndex

(* Entries that match go on matching. *)
LEMMA MatchStays ==
    ASSUME Stay, NEW m, Match(m, archives)
    PROVE  Match(m, archives')
BY DEF Stay, Match, Missing, Whole

(* Two lots of entries that match, one over the other. *)
LEMMA MatchOver ==
    ASSUME NEW m, NEW n, Match(m, archives'), Match(n, archives')
    PROVE  Match(Over(m, n), archives')
BY DEF Match, Over

LEMMA NothingMatches ==
    ASSUME NEW files PROVE Match(NoEntries, files) /\ Match(Missing.holds, files)
                           /\ Match(Torn.holds, files)
BY DEF Match, NoEntries, Missing, Torn

LEMMA PluginsMatchStep ==
    ASSUME Shapes, Shapes', PluginsMatch, [Next]_vars
    PROVE  PluginsMatch'
<1>1. Stay /\ Packed'
    BY ArchivesStay DEF PluginsMatch
<1>2. \A m : Match(m, archives) => Match(m, archives')
    BY <1>1, MatchStays
<1>3. Match(docs["plugin-index"].holds, archives')
    BY <1>2 DEF PluginsMatch
<1>4. UNCHANGED docs => Match(docs'["plugin-index"].holds, archives')
    BY <1>3
<1>5. CASE UNCHANGED vars
    BY <1>1, <1>5 DEF vars, PluginsMatch, Running, PluginName, NextPlugin
<1>6. CASE Start \/ Stop \/ Finish
    <2>1. run'.step = 1 /\ UNCHANGED docs
        BY <1>6, Starts, AtRest DEF Start, Stop, Finish
    <2> QED
        BY <1>1, <1>4, <2>1 DEF PluginsMatch
<1>7. CASE CreateCoreArchive \/ WriteCoreArchive \/ DigestCoreArchive
    <2>1. run.step = 1 /\ UNCHANGED docs
        BY <1>7, StepNames DEF CreateCoreArchive, WriteCoreArchive, DigestCoreArchive
    <2>2. run'.step = run.step
        BY <1>7 DEF CreateCoreArchive, WriteCoreArchive, DigestCoreArchive, Shapes, Fields
    <2> QED
        BY <1>1, <1>4, <2>1, <2>2 DEF PluginsMatch
<1>8. CASE MergeCoreIndex
    <2>1. run.step = 1 /\ UNCHANGED docs
        BY <1>8, StepNames DEF MergeCoreIndex
    <2>2. run'.step = 2
        <3>1. PICK m : run' = [NextStep(run) EXCEPT !.merged = m]
            BY <1>8 DEF MergeCoreIndex
        <3>2. run'.step = run.step + 1
            BY <2>1, <3>1, Advance
        <3> QED
            BY <2>1, <3>2
    <2> QED
        BY <1>1, <1>4, <2>1, <2>2 DEF PluginsMatch
<1>9. CASE CopyInstallerScripts
    <2>1. run.step = 4 /\ UNCHANGED docs
        BY <1>9, StepNames DEF CopyInstallerScripts
    <2>2. run'.step = 5 /\ run'.entries = NoEntries /\ run'.file = "untouched"
        BY <1>9, <2>1, Advance DEF CopyInstallerScripts
    <2> QED
        BY <1>1, <1>4, <2>1, <2>2, NothingMatches DEF PluginsMatch
<1>10. CASE PackPlugin
    <2>1. Running /\ run.step = 5 /\ UNCHANGED docs /\ run.done < Cardinality(Plugins)
        BY <1>10, StepNames DEF PackPlugin
    <2>2. /\ run'.step = 5 /\ run'.done = run.done /\ run'.tree = run.tree
          /\ run'.entries = run.entries
        BY <1>10, <2>1 DEF PackPlugin, Shapes, Fields
    <2>3. PluginName' = PluginName
        BY <2>2 DEF PluginName, NextPlugin
    <2>4. PluginName \in DOMAIN archives
        BY <2>1, PluginsTurn
    <2>5. archives'[PluginName] # Missing
        BY <1>10, <2>4
        DEF PackPlugin, SamePayload, IsWhole, Candidate, Missing, Whole
    <2>6. Match(run'.entries, archives')
        BY <1>2, <2>1, <2>2 DEF PluginsMatch
    <2> QED
        BY <1>1, <1>4, <2>1, <2>2, <2>3, <2>5, <2>6 DEF PluginsMatch
<1>11. CASE DigestPlugin
    <2> DEFINE t == run.tree[NextPlugin]
               key == <<NextPlugin, t.channel>>
               entry == [version |-> t.version, digest |-> archives[PluginName].holds]
    <2>1. /\ Running /\ run.step = 5 /\ run.file = "written"
          /\ UNCHANGED <<docs, archives>>
        BY <1>11, StepNames DEF DigestPlugin
    <2>2. /\ run'.step = 5 /\ run'.file = "untouched"
          /\ run'.entries = Over(One(key, entry), run.entries)
        BY <1>11, <2>1 DEF DigestPlugin, Shapes, Fields
    <2>3. run.done < Cardinality(Plugins) /\ archives[PluginName] # Missing
        BY <2>1 DEF PluginsMatch
    <2>4. /\ NextPlugin \in Plugins /\ t \in PluginStates
          /\ PluginName = PluginArchive(NextPlugin, t.version)
        BY <2>1, <2>3, PluginsTurn
    <2>5. archives[PluginName] = Whole(archives[PluginName].holds)
        <3>1. PICK content : archives[PluginName] = Whole(content)
            BY <2>3, <2>4 DEF PluginsMatch, Packed
        <3> QED
            BY <3>1 DEF Whole
    <2>6. entry.version = t.version /\ entry.digest = archives[PluginName].holds
        OBVIOUS
    <2>7. key[1] = NextPlugin
        OBVIOUS
    <2> HIDE DEF t, key, entry
    <2>8. Match(One(key, entry), archives')
        BY <2>1, <2>4, <2>5, <2>6, <2>7 DEF Match, One
    <2>9. Match(run.entries, archives')
        BY <1>2, <2>1 DEF PluginsMatch
    <2>10. Match(run'.entries, archives')
        BY <2>2, <2>8, <2>9, MatchOver
    <2> QED
        BY <1>1, <1>4, <2>1, <2>2, <2>10 DEF PluginsMatch
<1>12. CASE MergeRegistryIndex
    <2> DEFINE m == UpsertPlugins(docs["plugin-index"].holds, run.entries)
    <2>1. /\ Running /\ run.step = 5 /\ UNCHANGED <<docs, archives>>
          /\ run' = [NextStep(run) EXCEPT !.merged = m]
        BY <1>12, StepNames DEF MergeRegistryIndex
    <2>2. Match(run.entries, archives')
        BY <1>2, <2>1 DEF PluginsMatch
    <2>3. Match(m, archives')
        BY <1>3, <2>2, MatchOver DEF UpsertPlugins
    <2> HIDE DEF m
    <2>4. run'.step = 6 /\ run'.merged = m
        BY <2>1, Advance
    <2> QED
        BY <1>1, <1>4, <2>1, <2>3, <2>4 DEF PluginsMatch
<1>13. CASE Truncate
    <2>1. PICK d \in Documents : At(d) /\ docs' = [docs EXCEPT ![d] = Torn]
        BY <1>13 DEF Truncate
    <2>2. Running /\ run.step \in {2, 3, 6, 7, 8, 9, 10}
        BY <2>1, DocumentSteps DEF DocStep
    <2>3. /\ run'.step = run.step /\ run'.merged = run.merged
        BY <1>13 DEF Truncate, Shapes, Fields
    <2>4. "plugin-index" \in DOMAIN docs
        BY DEF Shapes, Documents
    <2>5. Match(docs'["plugin-index"].holds, archives')
        BY <1>3, <2>1, <2>4, NothingMatches
    <2>6. run.step \in 6..11 => Match(run.merged, archives')
        BY <1>2, <2>2 DEF PluginsMatch
    <2> QED
        BY <1>1, <2>2, <2>3, <2>5, <2>6 DEF PluginsMatch
<1>14. CASE Fill
    <2>1. PICK d \in Documents : At(d) /\ docs' = [docs EXCEPT ![d] = Whole(run.merged)]
        BY <1>14 DEF Fill
    <2>2. Running /\ run.step = DocStep(d)
        BY <2>1, DocumentSteps
    <2>3. /\ run'.step = run.step + 1 /\ run'.merged = run.merged
        BY <1>14, <2>2, Advance DEF Fill, DocStep
    <2>4. "plugin-index" \in DOMAIN docs
        BY DEF Shapes, Documents
    <2>5. run.step \in 6..11 => Match(run.merged, archives')
        BY <1>2, <2>2 DEF PluginsMatch
    <2>6. Match(docs'["plugin-index"].holds, archives')
        <3>1. CASE d = "plugin-index"
            <4>1. run.step \in 6..11
                BY <2>2, <3>1 DEF DocStep
            <4>2. docs'["plugin-index"].holds = run.merged
                BY <2>1, <2>4, <3>1 DEF Whole
            <4> QED
                BY <2>5, <4>1, <4>2
        <3>2. CASE d # "plugin-index"
            BY <1>3, <2>1, <2>4, <3>2
        <3> QED
            BY <3>1, <3>2
    <2>7. run'.step # 5 /\ (run'.step \in 6..11 => run.step \in 6..11)
        BY <2>2, <2>3 DEF DocStep
    <2> QED
        BY <1>1, <2>3, <2>5, <2>6, <2>7 DEF PluginsMatch
<1> QED
    BY <1>5, <1>6, <1>7, <1>8, <1>9, <1>10, <1>11, <1>12, <1>13, <1>14 DEF Next

LEMMA PluginsMatchInit == Init => PluginsMatch
<1> SUFFICES ASSUME Init PROVE PluginsMatch
    OBVIOUS
<1>1. docs["plugin-index"] = Missing /\ ~Running
    BY DEF Init, Documents, Running, Idle
<1>2. Packed
    BY DEF Init, Packed, ArchiveNames
<1> QED
    BY <1>1, <1>2, NothingMatches DEF PluginsMatch

(* tools/release: an entry of the plugin index that is being served, of a  *)
(* version that is packed from the same files each time, names an archive  *)
(* with its digest at every moment: between any two files of a run, after  *)
(* a kill and after any number of builds, whatever other versions do.      *)
THEOREM PluginsServed == Spec => []PluginsAlwaysServed
<1>1. Init => Shapes /\ PluginsMatch
    BY ShapesInit, PluginsMatchInit
<1>2. Shapes /\ PluginsMatch /\ [Next]_vars => Shapes' /\ PluginsMatch'
    BY ShapesStep, PluginsMatchStep
<1>3. PluginsMatch => PluginsAlwaysServed
    BY DEF PluginsMatch, Match, PluginsAlwaysServed
<1> QED
    BY <1>1, <1>2, <1>3, PTL DEF Spec

-----------------------------------------------------------------------------
(* What a run that succeeded leaves can be published.                      *)

(* The documents written so far follow from the merged entries. *)
Written ==
    /\ Running /\ run.step = 3 => docs["core-index"] = Whole(run.merged)
    /\ Running /\ run.step > 3 => Signed("core-index", "core-signature")
    /\ Running /\ run.step > 6 => docs["plugin-index"] = Whole(run.merged)
    /\ Running /\ run.step > 7 => docs["plugin-signature"] = Whole(run.merged)
    /\ Running /\ run.step > 8 => docs["mirror-index"] = Whole(run.merged)
    /\ Running /\ run.step > 9 => docs["mirror-signature"] = Whole(run.merged)
    /\ Running /\ run.step > 10 => docs["mirror-manifest"] = Whole(run.merged)
    /\ run.status = "done" =>
          /\ Signed("core-index", "core-signature")
          /\ Signed("plugin-index", "plugin-signature")
          /\ Signed("mirror-index", "mirror-signature")
          /\ docs["mirror-manifest"] = docs["plugin-index"]
          /\ docs["mirror-index"] = docs["plugin-index"]

LEMMA WrittenStep == Shapes /\ Shapes' /\ Written /\ [Next]_vars => Written'
<1> SUFFICES ASSUME Shapes, Shapes', Written, [Next]_vars PROVE Written'
    OBVIOUS
<1>1. CASE UNCHANGED vars
    BY <1>1 DEF vars, Written, Running, Signed
<1>2. CASE Start \/ Stop
    <2>1. run'.step = 1 /\ run'.status # "done"
        BY <1>2, Starts, AtRest DEF Stop
    <2> QED
        BY <2>1 DEF Written
<1>3. CASE Finish
    <2>1. run'.step = 1 /\ run'.status = "done" /\ UNCHANGED docs
        BY <1>3, AtRest DEF Finish
    <2>2. Running /\ run.step = 11
        BY <1>3, StepNames DEF Finish, Running
    <2> QED
        BY <2>1, <2>2 DEF Written, Signed, Running, Whole
<1>4. CASE \/ CreateCoreArchive \/ WriteCoreArchive \/ DigestCoreArchive
           \/ PackPlugin \/ DigestPlugin
    <2>1. Running /\ run.step \in {1, 5} /\ UNCHANGED docs
        BY <1>4, StepNames DEF CreateCoreArchive, WriteCoreArchive, DigestCoreArchive,
                               PackPlugin, DigestPlugin
    <2>2. run'.step = run.step /\ run'.status = run.status
        BY <1>4 DEF CreateCoreArchive, WriteCoreArchive, DigestCoreArchive,
                    PackPlugin, DigestPlugin, Shapes, Fields
    <2> QED
        BY <2>1, <2>2 DEF Written, Signed, Running
<1>5. CASE MergeCoreIndex \/ CopyInstallerScripts \/ MergeRegistryIndex
    <2>1. Running /\ run.step \in {1, 4, 5} /\ UNCHANGED docs
        BY <1>5, StepNames DEF MergeCoreIndex, CopyInstallerScripts, MergeRegistryIndex
    <2>2. \/ run' = NextStep(run)
          \/ \E m : run' = [NextStep(run) EXCEPT !.merged = m]
        BY <1>5 DEF MergeCoreIndex, CopyInstallerScripts, MergeRegistryIndex
    <2>3. run'.step = run.step + 1 /\ run'.status = run.status
        BY <2>1, <2>2, Advance
    <2>4. run.step = 1 => run'.step = 2
        BY <2>3
    <2> QED
        BY <2>1, <2>3, <2>4 DEF Written, Signed, Running
<1>6. CASE Truncate
    <2>1. PICK d \in Documents : At(d) /\ docs' = [docs EXCEPT ![d] = Torn]
        BY <1>6 DEF Truncate
    <2>2. Running /\ run.step = DocStep(d)
        BY <2>1, DocumentSteps
    <2>3. run'.step = run.step /\ run'.status = run.status /\ run'.merged = run.merged
        BY <1>6 DEF Truncate, Shapes, Fields
    <2>4. \A x \in Documents \ {d} : docs'[x] = docs[x]
        BY <2>1 DEF Shapes
    <2> QED
        BY <2>2, <2>3, <2>4 DEF Written, Signed, Running, DocStep, Documents
<1>7. CASE Fill
    <2>1. PICK d \in Documents : At(d) /\ docs' = [docs EXCEPT ![d] = Whole(run.merged)]
        BY <1>7 DEF Fill
    <2>2. Running /\ run.step = DocStep(d)
        BY <2>1, DocumentSteps
    <2>3. /\ run'.step = run.step + 1 /\ run'.status = run.status
          /\ run'.merged = run.merged
        BY <1>7, <2>2, Advance DEF Fill, DocStep
    <2>4. /\ docs'[d] = Whole(run.merged)
          /\ \A x \in Documents \ {d} : docs'[x] = docs[x]
        BY <2>1 DEF Shapes
    <2>5. Whole(run.merged).holds = run.merged
        BY DEF Whole
    <2> QED
        BY <2>2, <2>3, <2>4, <2>5 DEF Written, Signed, Running, DocStep, Documents
<1> QED
    BY <1>1, <1>2, <1>3, <1>4, <1>5, <1>6, <1>7 DEF Next

(* What a document of a run is about. *)
LEMMA PacksOf ==
    /\ Packs("core-index")
           = { CoreArchive(run.release.version, p) : p \in Range(run.platforms) }
    /\ Packs("plugin-index") = { PluginArchive(p, run.tree[p].version) : p \in Plugins }
    /\ \A d \in Documents \ {"core-index", "plugin-index"} : Packs(d) = {}
BY DEF Packs

(* The entries m of a core index, apart from those whose archives are      *)
(* excused: they have digests of archives of their own release.            *)
CoreOk(m, files, excused) ==
    \A c \in DOMAIN m :
        /\ [version |-> m[c].version, channel |-> c] \in CoreReleases
        /\ \A p \in DOMAIN m[c].artifacts :
              /\ p \in Platforms
              /\ m[c].artifacts[p].packs = [version |-> m[c].version, channel |-> c]
              /\ \/ CoreArchive(m[c].version, p) \in excused
                 \/ Tells(files[CoreArchive(m[c].version, p)], m[c].artifacts[p])

(* The platforms built so far; the archive of the next one may have been   *)
(* rewritten already.                                                      *)
Built ==
    /\ run.file # "untouched" => run.done < Len(run.platforms) /\ CoreName \in unindexed
    /\ run.done <= Len(run.platforms)
    /\ run.file = "written" =>
          /\ archives[CoreName] = Whole(archives[CoreName].holds)
          /\ archives[CoreName].holds.packs = run.release
    /\ DOMAIN run.entries = { run.platforms[k] : k \in 1..run.done }
    /\ \A p \in DOMAIN run.entries :
          /\ run.entries[p].packs = run.release
          /\ \/ run.file # "untouched" /\ p = NextPlatform
             \/ archives[CoreArchive(run.release.version, p)] = Whole(run.entries[p])

CoreMatches ==
    /\ CoreOk(docs["core-index"].holds, archives, unindexed)
    /\ Running /\ run.step = 1 => Built
    /\ Running /\ run.step = 2 =>
          CoreOk(run.merged, archives, unindexed \ Packs("core-index"))

(* What a run was asked for is a list of platforms and a release. *)
LEMMA Asked ==
    ASSUME Shapes, Running
    PROVE  /\ run.platforms \in Seq(Range(run.platforms))
           /\ Range(run.platforms) = { run.platforms[k] : k \in 1..Len(run.platforms) }
           /\ Range(run.platforms) \subseteq Platforms
           /\ run.release = [version |-> run.release.version,
                             channel |-> run.release.channel]
           /\ run.release \in CoreReleases
           /\ \A p \in Range(run.platforms) :
                 CoreArchive(run.release.version, p) \in DOMAIN archives
           /\ Len(run.platforms) \in Nat
<1>1. run.platforms \in Lists /\ run.release \in CoreReleases
    BY DEF Shapes
<1>2. run.platforms \in Seq(Range(run.platforms))
    BY <1>1, PlatformsAssumption
<1>3. Range(run.platforms) = { run.platforms[k] : k \in 1..Len(run.platforms) }
    BY <1>2 DEF Range
<1>4. Range(run.platforms) \subseteq Platforms
    BY <1>1 DEF Platforms, Lists
<1>5. run.release = [version |-> run.release.version, channel |-> run.release.channel]
    BY <1>1, ReleasesAssumption
<1>6. Len(run.platforms) \in Nat
    BY <1>2
<1>7. \A p \in Range(run.platforms) : CoreArchive(run.release.version, p) \in DOMAIN archives
    <2> SUFFICES ASSUME NEW p \in Platforms
                 PROVE  CoreArchive(run.release.version, p) \in ArchiveNames
        BY <1>4 DEF Shapes
    <2> QED
        BY <1>1 DEF ArchiveNames
<1> QED
    BY <1>1, <1>2, <1>3, <1>4, <1>5, <1>6, <1>7

(* Core archives stay. *)
CoreStay ==
    \A r \in CoreReleases, p \in Platforms :
        archives'[CoreArchive(r.version, p)] = archives[CoreArchive(r.version, p)]

(* No core archive is in X that is not in Y. *)
CoreWithin(X, Y) ==
    \A r \in CoreReleases, p \in Platforms :
        CoreArchive(r.version, p) \in X => CoreArchive(r.version, p) \in Y

LEMMA CoreOkStays ==
    ASSUME CoreStay, NEW m, NEW X, NEW Y, CoreWithin(X, Y), CoreOk(m, archives, X)
    PROVE  CoreOk(m, archives', Y)
<1> SUFFICES ASSUME NEW c \in DOMAIN m, NEW p \in DOMAIN m[c].artifacts
             PROVE  \/ CoreArchive(m[c].version, p) \in Y
                    \/ Tells(archives'[CoreArchive(m[c].version, p)], m[c].artifacts[p])
    BY DEF CoreOk
<1> DEFINE r == [version |-> m[c].version, channel |-> c]
<1>1. r \in CoreReleases /\ r.version = m[c].version /\ p \in Platforms
    BY DEF CoreOk
<1>2. \/ CoreArchive(m[c].version, p) \in X
      \/ Tells(archives[CoreArchive(m[c].version, p)], m[c].artifacts[p])
    BY DEF CoreOk
<1> HIDE DEF r
<1>3. archives'[CoreArchive(m[c].version, p)] = archives[CoreArchive(m[c].version, p)]
    BY <1>1 DEF CoreStay
<1>4. CoreArchive(m[c].version, p) \in X => CoreArchive(m[c].version, p) \in Y
    BY <1>1 DEF CoreWithin
<1> QED
    BY <1>2, <1>3, <1>4

LEMMA NothingIsOk ==
    ASSUME NEW files, NEW X
    PROVE  CoreOk(Missing.holds, files, X) /\ CoreOk(Torn.holds, files, X)
BY DEF CoreOk, Missing, Torn

(* Actions other than the two that write core archives. *)
LEMMA CoreArchivesStay ==
    ASSUME Shapes, [Next]_vars, ~CreateCoreArchive, ~WriteCoreArchive
    PROVE  CoreStay
<1>1. CASE UNCHANGED archives
    BY <1>1 DEF CoreStay
<1>2. CASE PackPlugin
    <2>1. archives' = archives \/ archives' = [archives EXCEPT ![PluginName] = Candidate]
        BY <1>2 DEF PackPlugin
    <2>2. \A r \in CoreReleases, p \in Platforms :
              /\ CoreArchive(r.version, p) # PluginName
              /\ CoreArchive(r.version, p) \in DOMAIN archives
        BY NamesApart DEF PluginName, Shapes, ArchiveNames
    <2> QED
        BY <2>1, <2>2 DEF CoreStay
<1> QED
    BY <1>1, <1>2
    DEF Next, vars, Start, Stop, Finish, DigestCoreArchive, MergeCoreIndex, Truncate, Fill,
        CopyInstallerScripts, DigestPlugin, MergeRegistryIndex

(* The archive being written is one that its index does not have yet. *)
LEMMA RewriteStep ==
    ASSUME Shapes, Shapes', CoreMatches, CreateCoreArchive \/ WriteCoreArchive
    PROVE  CoreMatches'
<1>1. /\ Running /\ run.step = 1 /\ run.done < Len(run.platforms) /\ Built
      /\ UNCHANGED docs
    BY StepNames DEF CreateCoreArchive, WriteCoreArchive, CoreMatches, Built
<1> DEFINE content == [packs |-> run.release, build |-> runs]
<1>2. PICK f \in {"created", "written"}, file \in {Torn, Whole(content)} :
          /\ archives' = [archives EXCEPT ![CoreName] = file]
          /\ run' = [run EXCEPT !.file = f]
          /\ unindexed \subseteq unindexed' /\ CoreName \in unindexed'
          /\ f = "written" => file = Whole(file.holds) /\ file.holds.packs = run.release
    <2>1. /\ Whole(content) = Whole(Whole(content).holds)
          /\ Whole(content).holds.packs = run.release
        BY DEF Whole
    <2>2. CASE CreateCoreArchive
        <3>1. /\ archives' = [archives EXCEPT ![CoreName] = Torn]
              /\ run' = [run EXCEPT !.file = "created"]
              /\ unindexed \subseteq unindexed' /\ CoreName \in unindexed'
            BY <2>2 DEF CreateCoreArchive
        <3> QED
            BY <3>1
    <2>3. CASE WriteCoreArchive
        <3>1. /\ archives' = [archives EXCEPT ![CoreName] = Whole(content)]
              /\ run' = [run EXCEPT !.file = "written"]
              /\ unindexed' = unindexed /\ run.file = "created"
            BY <2>3 DEF WriteCoreArchive
        <3>2. CoreName \in unindexed
            BY <1>1, <3>1 DEF Built
        <3> HIDE DEF content
        <3> QED
            BY <2>1, <3>1, <3>2
    <2> QED
        BY <2>2, <2>3
<1> HIDE DEF content
<1>3. /\ run'.file = f /\ run'.status = run.status /\ run'.step = 1 /\ run'.done = run.done
      /\ run'.platforms = run.platforms /\ run'.release = run.release
      /\ run'.entries = run.entries
    BY <1>1, <1>2 DEF Shapes, Fields
<1>4. NextPlatform \in Range(run.platforms)
    <2>1. run.done + 1 \in 1..Len(run.platforms)
        BY <1>1, Asked DEF Shapes
    <2> QED
        BY <1>1, <2>1, Asked DEF NextPlatform
<1>5. CoreName = CoreArchive(run.release.version, NextPlatform) /\ CoreName \in DOMAIN archives
    BY <1>1, <1>4, Asked DEF CoreName
<1>6. archives'[CoreName] = file
      /\ \A a \in DOMAIN archives \ {CoreName} : archives'[a] = archives[a]
    BY <1>2, <1>5
<1>7. CoreOk(docs["core-index"].holds, archives', unindexed')
    <2> DEFINE m == docs["core-index"].holds
    <2>1. CoreOk(m, archives, unindexed)
        BY DEF CoreMatches
    <2> HIDE DEF m
    <2> SUFFICES ASSUME NEW c \in DOMAIN m, NEW p \in DOMAIN m[c].artifacts,
                        CoreArchive(m[c].version, p) \notin unindexed'
                 PROVE  Tells(archives'[CoreArchive(m[c].version, p)], m[c].artifacts[p])
        BY <2>1 DEF CoreOk, m
    <2> DEFINE r == [version |-> m[c].version, channel |-> c]
    <2>2. r \in CoreReleases /\ r.version = m[c].version /\ p \in Platforms
        BY <2>1 DEF CoreOk
    <2>3. Tells(archives[CoreArchive(m[c].version, p)], m[c].artifacts[p])
        BY <1>2, <2>1 DEF CoreOk
    <2> HIDE DEF r
    <2>4. CoreArchive(m[c].version, p) \in DOMAIN archives
        BY <2>2 DEF Shapes, ArchiveNames
    <2>5. CoreArchive(m[c].version, p) # CoreName
        BY <1>2
    <2> QED
        BY <1>6, <2>3, <2>4, <2>5
<1>8. Built'
    <2>1. NextPlatform' = NextPlatform /\ CoreName' = CoreName
        BY <1>3 DEF NextPlatform, CoreName
    <2>2. f = "written" => /\ archives'[CoreName] = Whole(archives'[CoreName].holds)
                           /\ archives'[CoreName].holds.packs = run.release
        BY <1>2, <1>6
    <2>3. \A p \in DOMAIN run.entries :
              /\ run.entries[p].packs = run.release
              /\ \/ p = NextPlatform
                 \/ archives'[CoreArchive(run.release.version, p)] = Whole(run.entries[p])
        <3> SUFFICES ASSUME NEW p \in DOMAIN run.entries, p # NextPlatform
                     PROVE  archives'[CoreArchive(run.release.version, p)]
                                = Whole(run.entries[p])
            BY <1>1 DEF Built
        <3>1. archives[CoreArchive(run.release.version, p)] = Whole(run.entries[p])
            BY <1>1 DEF Built
        <3>2. PICK k \in 1..run.done : p = run.platforms[k]
            BY <1>1 DEF Built
        <3>3. k \in 1..Len(run.platforms)
            BY <1>1, <3>2, Asked DEF Shapes
        <3>4. p \in Range(run.platforms)
            BY <1>1, <3>2, <3>3, Asked
        <3>5. CoreArchive(run.release.version, p) \in DOMAIN archives
            BY <1>1, <3>4, Asked
        <3>6. CoreArchive(run.release.version, p) # CoreName
            BY <1>5, NamesApart
        <3> QED
            BY <1>6, <3>1, <3>5, <3>6
    <2> QED
        BY <1>1, <1>2, <1>3, <2>1, <2>2, <2>3 DEF Built
<1> QED
    BY <1>1, <1>3, <1>7, <1>8 DEF CoreMatches

(* The entry of a platform whose archive has been written. *)
LEMMA DigestStep ==
    ASSUME Shapes, Shapes', CoreMatches, DigestCoreArchive
    PROVE  CoreMatches'
<1>1. /\ Running /\ run.step = 1 /\ Built /\ run.file = "written"
      /\ UNCHANGED <<archives, docs, unindexed>>
    BY StepNames DEF DigestCoreArchive, CoreMatches
<1>2. /\ run'.file = "untouched" /\ run'.status = run.status /\ run'.step = 1
      /\ run'.done = run.done + 1
      /\ run'.platforms = run.platforms /\ run'.release = run.release
      /\ run'.entries = CoreArtifact
    BY <1>1 DEF DigestCoreArchive, Shapes, Fields
<1>3. /\ DOMAIN CoreArtifact = DOMAIN run.entries \cup {NextPlatform}
      /\ CoreArtifact[NextPlatform] = archives[CoreName].holds
      /\ \A p \in DOMAIN run.entries \ {NextPlatform} : CoreArtifact[p] = run.entries[p]
    BY DEF CoreArtifact, Over, One
<1>4. run.done < Len(run.platforms) /\ run.done \in Nat /\ Len(run.platforms) \in Nat
    BY <1>1, Asked DEF Built, Shapes
<1>5. DOMAIN CoreArtifact = { run.platforms[k] : k \in 1..(run.done + 1) }
    <2>1. 1..(run.done + 1) = (1..run.done) \cup {run.done + 1}
        BY <1>4
    <2> QED
        BY <1>1, <1>3, <2>1 DEF Built, NextPlatform
<1>6. \A p \in DOMAIN CoreArtifact :
          /\ CoreArtifact[p].packs = run.release
          /\ archives[CoreArchive(run.release.version, p)] = Whole(CoreArtifact[p])
    BY <1>1, <1>3 DEF Built, CoreName
<1>7. Built'
    BY <1>1, <1>2, <1>4, <1>5, <1>6 DEF Built
<1> QED
    BY <1>1, <1>2, <1>7 DEF CoreMatches

(* The index a run makes has the entries of its own archives; an entry of  *)
(* another channel that names one of them now names another release's.     *)
LEMMA MergeStep ==
    ASSUME Shapes, Shapes', CoreMatches, MergeCoreIndex
    PROVE  CoreMatches'
<1> DEFINE h == docs["core-index"].holds
           v == run.release.version
           ch == run.release.channel
           m == UpsertCoreRelease(h, run.entries)
           mine == { CoreArchive(v, p) : p \in Range(run.platforms) }
<1>1. /\ Running /\ run.step = 1 /\ Built /\ run.done = Len(run.platforms)
      /\ UNCHANGED <<archives, docs, unindexed>>
      /\ run' = [NextStep(run) EXCEPT !.merged = m]
    BY StepNames DEF MergeCoreIndex, CoreMatches
<1>2. /\ run'.status = run.status /\ run'.step = 2 /\ run'.release = run.release
      /\ run'.platforms = run.platforms /\ run'.merged = m
    <2> HIDE DEF m
    <2> QED
        BY <1>1, Advance
<1>3. Packs("core-index")' = mine
    BY <1>2 DEF Packs
<1>4. /\ DOMAIN run.entries = Range(run.platforms)
      /\ \A p \in DOMAIN run.entries :
            /\ run.entries[p].packs = run.release
            /\ archives[CoreArchive(v, p)] = Whole(run.entries[p])
    <2>1. run.file = "untouched"
        BY <1>1, Asked DEF Built, Shapes
    <2> QED
        BY <1>1, <2>1, Asked DEF Built
<1>5. CoreOk(h, archives, unindexed)
    BY DEF CoreMatches
<1> DEFINE same == ch \in DOMAIN h /\ h[ch].version = v
           arts == IF same THEN MergeCoreArtifacts(h[ch].artifacts, run.entries)
                   ELSE run.entries
<1>6. /\ DOMAIN m = DOMAIN h \cup {ch}
      /\ m[ch].version = v /\ m[ch].artifacts = arts
      /\ \A c \in DOMAIN h \ {ch} : m[c] = h[c]
    BY DEF UpsertCoreRelease, Over, One
<1>7. /\ Range(run.platforms) \subseteq DOMAIN arts
      /\ \A p \in Range(run.platforms) : arts[p] = run.entries[p]
      /\ \A p \in DOMAIN arts \ Range(run.platforms) :
            same /\ p \in DOMAIN h[ch].artifacts /\ arts[p] = h[ch].artifacts[p]
    BY <1>4 DEF MergeCoreArtifacts, Over
<1>8. /\ run.release = [version |-> v, channel |-> ch] /\ run.release \in CoreReleases
      /\ Range(run.platforms) \subseteq Platforms
    BY <1>1, Asked
<1>9. \A w, p : CoreArchive(w, p) \in mine => w = v /\ p \in Range(run.platforms)
    BY NamesApart
<1> HIDE DEF m, arts, h, v, ch, mine, same
<1>10. \A p \in DOMAIN arts :
           /\ p \in Platforms
           /\ arts[p].packs = run.release
           /\ \/ CoreArchive(v, p) \in unindexed \ mine
              \/ Tells(archives[CoreArchive(v, p)], arts[p])
    <2> TAKE p \in DOMAIN arts
    <2>1. CASE p \in Range(run.platforms)
        <3>1. p \in DOMAIN run.entries /\ arts[p] = run.entries[p] /\ p \in Platforms
            BY <1>4, <1>7, <1>8, <2>1
        <3>2. archives[CoreArchive(v, p)] = Whole(arts[p]) /\ arts[p].packs = run.release
            BY <1>4, <3>1
        <3>3. Tells(archives[CoreArchive(v, p)], arts[p])
            BY <3>2 DEF Tells, IsWhole, Whole
        <3> QED
            BY <3>1, <3>2, <3>3
    <2>2. CASE p \notin Range(run.platforms)
        <3>1. /\ ch \in DOMAIN h /\ h[ch].version = v
              /\ p \in DOMAIN h[ch].artifacts /\ arts[p] = h[ch].artifacts[p]
            BY <1>7, <2>2 DEF same
        <3>2. CoreArchive(v, p) \notin mine
            BY <1>9, <2>2
        <3> QED
            BY <1>5, <1>8, <3>1, <3>2 DEF CoreOk
    <2> QED
        BY <2>1, <2>2
<1>11. CoreOk(m, archives, unindexed \ mine)
    <2> SUFFICES ASSUME NEW c \in DOMAIN m
                 PROVE  /\ [version |-> m[c].version, channel |-> c] \in CoreReleases
                        /\ \A p \in DOMAIN m[c].artifacts :
                              /\ p \in Platforms
                              /\ m[c].artifacts[p].packs
                                    = [version |-> m[c].version, channel |-> c]
                              /\ \/ CoreArchive(m[c].version, p) \in unindexed \ mine
                                 \/ Tells(archives[CoreArchive(m[c].version, p)],
                                          m[c].artifacts[p])
        BY DEF CoreOk
    <2>1. CASE c = ch
        BY <1>6, <1>8, <1>10, <2>1
    <2>2. CASE c # ch
        <3>1. c \in DOMAIN h /\ m[c] = h[c]
            BY <1>6, <2>2
        <3> SUFFICES ASSUME NEW p \in DOMAIN h[c].artifacts,
                            CoreArchive(h[c].version, p) \in mine
                     PROVE  Tells(archives[CoreArchive(h[c].version, p)], h[c].artifacts[p])
            BY <1>5, <3>1 DEF CoreOk
        <3>2. h[c].version = v /\ p \in Range(run.platforms)
            BY <1>9
        <3>3. /\ archives[CoreArchive(v, p)] = Whole(run.entries[p])
              /\ run.entries[p].packs = [version |-> v, channel |-> ch]
            BY <1>4, <1>8, <3>2
        <3>4. h[c].artifacts[p].packs = [version |-> v, channel |-> c]
            BY <1>5, <3>1, <3>2 DEF CoreOk
        <3>5. [version |-> v, channel |-> ch] # [version |-> v, channel |-> c]
            BY <2>2
        <3> QED
            BY <3>2, <3>3, <3>4, <3>5 DEF Tells, IsWhole, Whole
    <2> QED
        BY <2>1, <2>2
<1>12. CoreOk(docs'["core-index"].holds, archives', unindexed')
    BY <1>1, <1>5 DEF h
<1>13. CoreOk(run'.merged, archives', unindexed' \ Packs("core-index")')
    BY <1>1, <1>2, <1>3, <1>11
<1>14. run'.step # 1
    BY <1>2
<1> QED
    BY <1>12, <1>13, <1>14 DEF CoreMatches

LEMMA CoreMatchesStep ==
    ASSUME Shapes, Shapes', CoreMatches, [Next]_vars
    PROVE  CoreMatches'
<1> DEFINE h == docs["core-index"].holds
<1>1. CASE UNCHANGED vars
    BY <1>1 DEF vars, CoreMatches, Running, Built, CoreName, NextPlatform, Packs
<1>2. CASE CreateCoreArchive \/ WriteCoreArchive
    BY <1>2, RewriteStep
<1>3. CASE DigestCoreArchive
    BY <1>3, DigestStep
<1>4. CASE MergeCoreIndex
    BY <1>4, MergeStep
<1>5. ASSUME ~CreateCoreArchive, ~WriteCoreArchive PROVE CoreStay
    BY <1>5, CoreArchivesStay
<1>6. CoreOk(h, archives, unindexed)
    BY DEF CoreMatches
<1>7. CoreWithin(unindexed, unindexed)
    BY DEF CoreWithin
<1>8. CASE Start
    <2>1. UNCHANGED <<archives, docs, unindexed>>
        BY <1>8 DEF Start
    <2>2. /\ run'.step = 1 /\ run'.done = 0 /\ run'.file = "untouched"
          /\ run'.entries = NoEntries /\ run'.platforms \in Lists
        BY <1>8, Starts
    <2>3. Built'
        <3>1. Len(run'.platforms) \in Nat
            BY <2>2, PlatformsAssumption
        <3>2. DOMAIN run'.entries = {}
            BY <2>2 DEF NoEntries
        <3>3. 1..run'.done = {}
            BY <2>2
        <3> QED
            BY <2>2, <3>1, <3>2, <3>3 DEF Built
    <2> QED
        BY <1>6, <2>1, <2>2, <2>3 DEF CoreMatches
<1>9. CASE Stop \/ Finish
    <2>1. ~Running' /\ UNCHANGED <<archives, docs, unindexed>>
        BY <1>9, AtRest DEF Stop, Finish, Running
    <2> QED
        BY <1>6, <2>1 DEF CoreMatches
<1>10. CASE CopyInstallerScripts \/ MergeRegistryIndex \/ PackPlugin \/ DigestPlugin
    <2>1. Running /\ run.step \in {4, 5} /\ UNCHANGED docs /\ unindexed \subseteq unindexed'
        BY <1>10, StepNames DEF CopyInstallerScripts, MergeRegistryIndex, PackPlugin, DigestPlugin
    <2>2. run'.step > 2
        <3>1. CASE CopyInstallerScripts \/ MergeRegistryIndex
            <4>1. \/ run' = NextStep(run)
                  \/ \E m : run' = [NextStep(run) EXCEPT !.merged = m]
                BY <3>1 DEF CopyInstallerScripts, MergeRegistryIndex
            <4>2. run.step \in 1..10
                BY <2>1
            <4>3. run'.step = run.step + 1
                BY <4>1, <4>2, Advance
            <4> QED
                BY <2>1, <4>3
        <3>2. CASE PackPlugin \/ DigestPlugin
            <4>1. run'.step = run.step
                BY <3>2 DEF PackPlugin, DigestPlugin, Shapes, Fields
            <4> QED
                BY <2>1, <4>1
        <3> QED
            BY <1>10, <3>1, <3>2
    <2>3. CoreStay
        BY <1>5, <2>1, StepNames DEF CreateCoreArchive, WriteCoreArchive
    <2>4. CoreWithin(unindexed, unindexed')
        BY <2>1 DEF CoreWithin
    <2>5. CoreOk(h, archives', unindexed')
        BY <1>6, <2>3, <2>4, CoreOkStays
    <2>6. run'.step \notin {1, 2}
        BY <2>2 DEF Shapes
    <2> QED
        BY <2>1, <2>5, <2>6 DEF CoreMatches
<1>11. CASE Truncate
    <2>1. PICK d \in Documents : At(d) /\ docs' = [docs EXCEPT ![d] = Torn]
        BY <1>11 DEF Truncate
    <2>2. Running /\ run.step = DocStep(d)
        BY <2>1, DocumentSteps
    <2>3. /\ run'.step = run.step /\ run'.status = run.status /\ run'.merged = run.merged
          /\ run'.release = run.release /\ run'.platforms = run.platforms
          /\ UNCHANGED <<archives, unindexed>>
        BY <1>11 DEF Truncate, Shapes, Fields
    <2>4. Packs("core-index")' = Packs("core-index")
        BY <2>3 DEF Packs
    <2>5. "core-index" \in DOMAIN docs
        BY DEF Shapes, Documents
    <2>6. run.step # 1
        BY <2>2 DEF DocStep
    <2>7. d # "core-index" => docs'["core-index"] = docs["core-index"]
        BY <2>1, <2>5
    <2>8. CoreOk(docs'["core-index"].holds, archives', unindexed')
        BY <1>6, <2>1, <2>3, <2>5, <2>7, NothingIsOk
    <2> QED
        BY <2>3, <2>4, <2>6, <2>8 DEF CoreMatches, Running
<1>12. CASE Fill
    <2>1. PICK d \in Documents : /\ At(d) /\ docs' = [docs EXCEPT ![d] = Whole(run.merged)]
                                 /\ unindexed' = unindexed \ Packs(d)
        BY <1>12 DEF Fill
    <2>2. Running /\ run.step = DocStep(d)
        BY <2>1, DocumentSteps
    <2>3. run'.step = run.step + 1 /\ UNCHANGED archives
        BY <1>12, <2>2, Advance DEF Fill, DocStep
    <2>4. run'.step \notin {1, 2}
        BY <2>2, <2>3 DEF DocStep
    <2>5. "core-index" \in DOMAIN docs
        BY DEF Shapes, Documents
    <2>6. CASE d = "core-index"
        <3>1. docs'["core-index"].holds = run.merged /\ run.step = 2
            BY <2>1, <2>2, <2>5, <2>6 DEF Whole, DocStep
        <3> QED
            BY <2>1, <2>2, <2>3, <2>4, <2>6, <3>1 DEF CoreMatches
    <2>7. CASE d # "core-index"
        <3>1. docs'["core-index"] = docs["core-index"]
            BY <2>1, <2>5, <2>7
        <3>2. \A r \in CoreReleases, p \in Platforms : CoreArchive(r.version, p) \notin Packs(d)
            BY <2>7, PacksOf, NamesApart
        <3>3. CoreWithin(unindexed, unindexed')
            BY <2>1, <3>2 DEF CoreWithin
        <3>4. CoreStay
            BY <2>3 DEF CoreStay
        <3>5. CoreOk(h, archives', unindexed')
            BY <1>6, <3>3, <3>4, CoreOkStays
        <3> QED
            BY <2>4, <3>1, <3>5 DEF CoreMatches
    <2> QED
        BY <2>6, <2>7
<1> QED
    BY <1>1, <1>2, <1>3, <1>4, <1>8, <1>9, <1>10, <1>11, <1>12 DEF Next

LEMMA CoreInit == Init => Written /\ CoreMatches
<1> SUFFICES ASSUME Init PROVE Written /\ CoreMatches
    OBVIOUS
<1>1. docs["core-index"] = Missing /\ ~Running /\ run.status # "done"
    BY DEF Init, Documents, Running, Idle
<1> QED
    BY <1>1, NothingIsOk DEF Written, CoreMatches

-----------------------------------------------------------------------------
(* The plugin index, whatever becomes of the files of a version.           *)

(* Every plugin has its turn, once. *)
LEMMA EveryPluginInTurn ==
    /\ Cardinality(Plugins) \in Nat
    /\ PluginOrder \in [1..Cardinality(Plugins) -> Plugins]
    /\ \A i, k \in 1..Cardinality(Plugins) : PluginOrder[i] = PluginOrder[k] => i = k
    /\ Plugins = { PluginOrder[k] : k \in 1..Cardinality(Plugins) }
<1> DEFINE N == Cardinality(Plugins)
           D == 1..N
<1>1. N \in Nat /\ ExistsBijection(D, Plugins)
    BY PluginsAssumption, FS_CardinalityType
<1>2. PICK f : f \in Bijection(D, Plugins)
    BY <1>1 DEF ExistsBijection
<1>3. f \in [D -> Plugins] /\ IsInjective(f)
    BY <1>2 DEF Bijection, Injection, IsInjective
<1>4. PluginOrder \in [D -> Plugins] /\ IsInjective(PluginOrder)
    BY <1>3 DEF PluginOrder
<1>5. \A i, k \in D : PluginOrder[i] = PluginOrder[k] => i = k
    BY <1>4 DEF IsInjective
<1>6. PluginOrder \in Injection(D, Plugins)
    BY <1>4, <1>5 DEF Injection, IsInjective
<1>7. Cardinality(D) = N
    BY <1>1, FS_Interval
<1>8. PluginOrder \in Surjection(D, Plugins)
    BY <1>6, <1>7, PluginsAssumption, FS_Injection
<1> QED
    BY <1>1, <1>4, <1>5, <1>8 DEF Surjection

(* The entries m of a plugin index, apart from those whose archives are    *)
(* excused: they have digests of archives of their own version and channel.*)
PluginOk(m, files, excused) ==
    \A key \in DOMAIN m :
        /\ key[1] \in Plugins /\ key = <<key[1], key[2]>>
        /\ m[key].digest.packs \in PluginStates
        /\ m[key].digest.packs.version = m[key].version
        /\ m[key].digest.packs.channel = key[2]
        /\ \/ PluginArchive(key[1], m[key].version) \in excused
           \/ Tells(files[PluginArchive(key[1], m[key].version)], m[key].digest)

(* The plugins packed so far have entries with the digests of their        *)
(* archives; the archive of the next one may have taken its place.         *)
PackedSoFar == { PluginOrder[k] : k \in 1..run.done }
Key(p) == <<p, run.tree[p].channel>>
Holds(p, entry) ==
    /\ entry.version = run.tree[p].version
    /\ entry.digest.packs = run.tree[p]
    /\ archives[PluginArchive(p, run.tree[p].version)] = Whole(entry.digest)

PluginsBuilt ==
    /\ run.done <= Cardinality(Plugins)
    /\ run.file # "untouched" =>
          /\ run.done < Cardinality(Plugins)
          /\ archives[PluginName] = Whole(archives[PluginName].holds)
          /\ archives[PluginName].holds.packs = run.tree[NextPlugin]
    /\ DOMAIN run.entries = { Key(p) : p \in PackedSoFar }
    /\ \A p \in PackedSoFar : Holds(p, run.entries[Key(p)])

PluginsTold ==
    /\ PluginOk(docs["plugin-index"].holds, archives, unindexed)
    /\ Running /\ run.step = 5 => PluginsBuilt
    /\ Running /\ run.step = 6 =>
          PluginOk(run.merged, archives, unindexed \ Packs("plugin-index"))

(* Plugin archives stay. *)
PluginStay ==
    \A p \in Plugins, s \in PluginStates :
        archives'[PluginArchive(p, s.version)] = archives[PluginArchive(p, s.version)]

(* No plugin archive is in X that is not in Y. *)
PluginWithin(X, Y) ==
    \A p \in Plugins, s \in PluginStates :
        PluginArchive(p, s.version) \in X => PluginArchive(p, s.version) \in Y

LEMMA PluginOkStays ==
    ASSUME PluginStay, NEW m, NEW X, NEW Y, PluginWithin(X, Y), PluginOk(m, archives, X)
    PROVE  PluginOk(m, archives', Y)
<1> SUFFICES ASSUME NEW key \in DOMAIN m
             PROVE  \/ PluginArchive(key[1], m[key].version) \in Y
                    \/ Tells(archives'[PluginArchive(key[1], m[key].version)], m[key].digest)
    BY DEF PluginOk
<1> DEFINE s == m[key].digest.packs
<1>1. key[1] \in Plugins /\ s \in PluginStates /\ s.version = m[key].version
    BY DEF PluginOk
<1>2. \/ PluginArchive(key[1], m[key].version) \in X
      \/ Tells(archives[PluginArchive(key[1], m[key].version)], m[key].digest)
    BY DEF PluginOk
<1> HIDE DEF s
<1>3. /\ archives'[PluginArchive(key[1], m[key].version)]
            = archives[PluginArchive(key[1], m[key].version)]
      /\ PluginArchive(key[1], m[key].version) \in X
            => PluginArchive(key[1], m[key].version) \in Y
    BY <1>1 DEF PluginStay, PluginWithin
<1> QED
    BY <1>2, <1>3

LEMMA NoPluginsOk ==
    ASSUME NEW files, NEW X
    PROVE  PluginOk(Missing.holds, files, X) /\ PluginOk(Torn.holds, files, X)
BY DEF PluginOk, Missing, Torn

(* An archive takes its place only if it packs something else. *)
LEMMA PackStep ==
    ASSUME Shapes, Shapes', Packed, PluginsTold, PackPlugin
    PROVE  PluginsTold'
<1> DEFINE t == run.tree[NextPlugin]
           c == [packs |-> t, build |-> runs]
           h == docs["plugin-index"].holds
<1>1. /\ Running /\ run.step = 5 /\ PluginsBuilt /\ UNCHANGED docs
      /\ run.done < Cardinality(Plugins) /\ run.file = "untouched"
    BY StepNames DEF PackPlugin, PluginsTold
<1>2. /\ run'.step = 5 /\ run'.done = run.done /\ run'.tree = run.tree
      /\ run'.entries = run.entries /\ run'.status = run.status
    BY <1>1 DEF PackPlugin, Shapes, Fields
<1>3. /\ NextPlugin \in Plugins /\ t \in PluginStates
      /\ PluginName = PluginArchive(NextPlugin, t.version)
      /\ PluginName \in DOMAIN archives
    BY <1>1, PluginsTurn
<1>4. /\ PluginName' = PluginName /\ NextPlugin' = NextPlugin
      /\ PackedSoFar' = PackedSoFar /\ \A p : Key(p)' = Key(p)
    BY <1>2 DEF PluginName, NextPlugin, PackedSoFar, Key
<1>5. Candidate = Whole(c) /\ Candidate.holds.packs = t /\ Whole(c).holds = c /\ c.packs = t
    BY DEF Candidate, Whole
<1> HIDE DEF c
<1>6. /\ \A a \in DOMAIN archives \ {PluginName} : archives'[a] = archives[a]
      /\ unindexed \subseteq unindexed'
      /\ PluginName \in unindexed' \/ archives' = archives
      /\ archives'[PluginName] = Whole(archives'[PluginName].holds)
      /\ archives'[PluginName].holds.packs = t
    <2>1. CASE SamePayload(archives[PluginName], Candidate)
        <3>1. UNCHANGED <<archives, unindexed>>
            BY <2>1 DEF PackPlugin
        <3>2. archives[PluginName].holds.packs = t /\ archives[PluginName] # Missing
            BY <1>5, <2>1 DEF SamePayload, IsWhole, Missing
        <3>3. archives[PluginName] = Whole(archives[PluginName].holds)
            <4>1. PICK content : archives[PluginName] = Whole(content)
                BY <1>3, <3>2 DEF Packed
            <4> QED
                BY <4>1 DEF Whole
        <3> QED
            BY <3>1, <3>2, <3>3
    <2>2. CASE ~SamePayload(archives[PluginName], Candidate)
        <3>1. /\ archives' = [archives EXCEPT ![PluginName] = Whole(c)]
              /\ unindexed' = unindexed \cup {PluginName}
            BY <1>5, <2>2 DEF PackPlugin
        <3> QED
            BY <1>3, <1>5, <3>1
    <2> QED
        BY <2>1, <2>2
<1>7. PluginOk(h, archives', unindexed')
    <2>1. PluginOk(h, archives, unindexed)
        BY DEF PluginsTold
    <2> HIDE DEF h, t
    <2> SUFFICES ASSUME NEW key \in DOMAIN h,
                        PluginArchive(key[1], h[key].version) \notin unindexed'
                 PROVE  Tells(archives'[PluginArchive(key[1], h[key].version)], h[key].digest)
        BY <2>1 DEF PluginOk
    <2> DEFINE s == h[key].digest.packs
    <2>2. key[1] \in Plugins /\ s \in PluginStates /\ s.version = h[key].version
        BY <2>1 DEF PluginOk
    <2>3. Tells(archives[PluginArchive(key[1], h[key].version)], h[key].digest)
        BY <1>6, <2>1 DEF PluginOk
    <2> HIDE DEF s
    <2>4. PluginArchive(key[1], h[key].version) \in DOMAIN archives
        BY <2>2 DEF Shapes, ArchiveNames
    <2> QED
        BY <1>6, <2>3, <2>4
<1>8. \A p \in PackedSoFar : Holds(p, run.entries[Key(p)])'
    <2> SUFFICES ASSUME NEW p \in PackedSoFar PROVE Holds(p, run.entries[Key(p)])'
        OBVIOUS
    <2>1. Holds(p, run.entries[Key(p)])
        BY <1>1 DEF PluginsBuilt
    <2>2. PICK k \in 1..run.done : p = PluginOrder[k]
        BY DEF PackedSoFar
    <2>3. /\ k \in 1..Cardinality(Plugins) /\ run.done + 1 \in 1..Cardinality(Plugins)
          /\ k # run.done + 1
        BY <1>1, EveryPluginInTurn DEF Shapes
    <2>4. p \in Plugins /\ p # NextPlugin
        BY <2>2, <2>3, EveryPluginInTurn DEF NextPlugin
    <2>5. run.tree[p] \in PluginStates
        BY <1>1, <2>4 DEF Shapes
    <2>6. /\ PluginArchive(p, run.tree[p].version) \in DOMAIN archives
          /\ PluginArchive(p, run.tree[p].version) # PluginName
        BY <1>3, <2>4, <2>5, NamesApart DEF Shapes, ArchiveNames
    <2> QED
        BY <1>2, <1>4, <1>6, <2>1, <2>6 DEF Holds
<1>9. DOMAIN run'.entries = { Key(p)' : p \in PackedSoFar' }
    BY <1>1, <1>2, <1>4 DEF PluginsBuilt
<1>10. PluginsBuilt'
    BY <1>1, <1>2, <1>4, <1>6, <1>8, <1>9 DEF PluginsBuilt
<1> QED
    BY <1>1, <1>2, <1>7, <1>10 DEF PluginsTold

(* The entry of a plugin whose archive is in its place. *)
LEMMA DigestPluginStep ==
    ASSUME Shapes, Shapes', PluginsTold, DigestPlugin
    PROVE  PluginsTold'
<1> DEFINE n == NextPlugin
           entry == [version |-> run.tree[n].version, digest |-> archives[PluginName].holds]
<1>1. /\ Running /\ run.step = 5 /\ PluginsBuilt /\ run.file = "written"
      /\ UNCHANGED <<docs, archives, unindexed>>
    BY StepNames DEF DigestPlugin, PluginsTold
<1>2. /\ run'.step = 5 /\ run'.file = "untouched" /\ run'.tree = run.tree
      /\ run'.status = run.status /\ run'.done = run.done + 1
      /\ run'.entries = Over(One(Key(n), entry), run.entries)
    BY <1>1 DEF DigestPlugin, Shapes, Fields, Key
<1>3. /\ run.done < Cardinality(Plugins) /\ run.done \in Nat /\ Cardinality(Plugins) \in Nat
    BY <1>1, EveryPluginInTurn DEF PluginsBuilt, Shapes
<1>4. PackedSoFar' = PackedSoFar \cup {n}
    <2>1. 1..(run.done + 1) = (1..run.done) \cup {run.done + 1}
        BY <1>3
    <2> QED
        BY <1>2, <2>1 DEF PackedSoFar, NextPlugin
<1>5. /\ entry.version = run.tree[n].version /\ entry.digest = archives[PluginName].holds
      /\ archives[PluginName] = Whole(archives[PluginName].holds)
      /\ archives[PluginName].holds.packs = run.tree[n]
      /\ PluginName = PluginArchive(n, run.tree[n].version)
    BY <1>1 DEF PluginsBuilt, PluginName
<1> HIDE DEF entry
<1>6. Holds(n, entry)
    BY <1>5 DEF Holds
<1>7. \A p : Key(p)' = Key(p)
    BY <1>2 DEF Key
<1>8. \A p, e : Holds(p, e)' <=> Holds(p, e)
    BY <1>1, <1>2 DEF Holds
<1>9. /\ DOMAIN run'.entries = DOMAIN run.entries \cup {Key(n)}
      /\ run'.entries[Key(n)] = entry
      /\ \A k \in DOMAIN run.entries \ {Key(n)} : run'.entries[k] = run.entries[k]
    BY <1>2 DEF Over, One
<1>10. \A p : Key(p) = Key(n) => p = n
    BY DEF Key
<1> HIDE DEF n
<1>11. DOMAIN run'.entries = { Key(p)' : p \in PackedSoFar' }
    BY <1>1, <1>4, <1>7, <1>9 DEF PluginsBuilt
<1>12. \A p \in PackedSoFar' : Holds(p, run'.entries[Key(p)])
    <2> TAKE p \in PackedSoFar'
    <2>1. CASE p = n
        BY <1>6, <1>9, <2>1
    <2>2. CASE p # n
        <3>1. p \in PackedSoFar
            BY <1>4, <2>2
        <3>2. Key(p) \in DOMAIN run.entries \ {Key(n)}
            BY <1>1, <1>10, <2>2, <3>1 DEF PluginsBuilt
        <3>3. Holds(p, run.entries[Key(p)])
            BY <1>1, <3>1 DEF PluginsBuilt
        <3> QED
            BY <1>9, <3>2, <3>3
    <2> QED
        BY <2>1, <2>2
<1>13. \A p \in PackedSoFar' : Holds(p, run.entries[Key(p)])'
    BY <1>1, <1>2, <1>7, <1>12 DEF Holds
<1>14. PluginsBuilt'
    BY <1>2, <1>3, <1>11, <1>13 DEF PluginsBuilt
<1> QED
    BY <1>1, <1>2, <1>14 DEF PluginsTold

(* The index a run makes has the entries of its own archives; an entry of  *)
(* another channel that names one of them now names other files.           *)
LEMMA MergePluginsStep ==
    ASSUME Shapes, Shapes', PluginsTold, MergeRegistryIndex
    PROVE  PluginsTold'
<1> DEFINE h == docs["plugin-index"].holds
           m == UpsertPlugins(h, run.entries)
           mine == { PluginArchive(p, run.tree[p].version) : p \in Plugins }
<1>1. /\ Running /\ run.step = 5 /\ PluginsBuilt /\ run.done = Cardinality(Plugins)
      /\ UNCHANGED <<archives, docs, unindexed>>
      /\ run' = [NextStep(run) EXCEPT !.merged = m]
    BY StepNames DEF MergeRegistryIndex, PluginsTold
<1>2. /\ run'.status = run.status /\ run'.step = 6 /\ run'.tree = run.tree /\ run'.merged = m
    <2> HIDE DEF m
    <2> QED
        BY <1>1, Advance
<1>3. Packs("plugin-index")' = mine
    BY <1>2 DEF Packs
<1>4. PackedSoFar = Plugins
    BY <1>1, EveryPluginInTurn DEF PackedSoFar
<1>5. /\ DOMAIN run.entries = { Key(p) : p \in Plugins }
      /\ \A p \in Plugins : Holds(p, run.entries[Key(p)])
    BY <1>1, <1>4 DEF PluginsBuilt
<1>6. PluginOk(h, archives, unindexed)
    BY DEF PluginsTold
<1>7. /\ DOMAIN m = DOMAIN run.entries \cup DOMAIN h
      /\ \A k \in DOMAIN run.entries : m[k] = run.entries[k]
      /\ \A k \in DOMAIN h \ DOMAIN run.entries : m[k] = h[k]
    BY DEF UpsertPlugins, Over
<1>8. \A p \in Plugins : run.tree[p] \in PluginStates
    BY <1>1 DEF Shapes
<1>9. \A q, v : PluginArchive(q, v) \in mine => q \in Plugins /\ v = run.tree[q].version
    BY NamesApart
<1> HIDE DEF m, h, mine
<1>10. PluginOk(m, archives, unindexed \ mine)
    <2> SUFFICES ASSUME NEW key \in DOMAIN m
                 PROVE  /\ key[1] \in Plugins /\ key = <<key[1], key[2]>>
                        /\ m[key].digest.packs \in PluginStates
                        /\ m[key].digest.packs.version = m[key].version
                        /\ m[key].digest.packs.channel = key[2]
                        /\ \/ PluginArchive(key[1], m[key].version) \in unindexed \ mine
                           \/ Tells(archives[PluginArchive(key[1], m[key].version)],
                                    m[key].digest)
        BY DEF PluginOk
    <2>1. CASE key \in DOMAIN run.entries
        <3>1. PICK p \in Plugins : key = Key(p)
            BY <1>5, <2>1
        <3>2. key[1] = p /\ key[2] = run.tree[p].channel /\ key = <<key[1], key[2]>>
            BY <3>1 DEF Key
        <3>3. Holds(p, m[key])
            BY <1>5, <1>7, <2>1, <3>1
        <3> QED
            BY <1>8, <3>2, <3>3 DEF Holds, Tells, IsWhole, Whole
    <2>2. CASE key \notin DOMAIN run.entries
        <3>1. key \in DOMAIN h /\ m[key] = h[key]
            BY <1>7, <2>2
        <3>2. CASE PluginArchive(key[1], h[key].version) \notin mine
            BY <1>6, <3>1, <3>2 DEF PluginOk
        <3>3. CASE PluginArchive(key[1], h[key].version) \in mine
            <4> DEFINE p == key[1]
            <4>1. p \in Plugins /\ h[key].version = run.tree[p].version
                BY <1>9, <3>3
            <4>2. Holds(p, run.entries[Key(p)]) /\ Key(p) \in DOMAIN run.entries
                BY <1>5, <4>1
            <4>3. h[key].digest.packs.channel = key[2]
                BY <1>6, <3>1 DEF PluginOk
            <4>4. h[key].digest.packs # run.tree[p]
                <5>1. SUFFICES ASSUME h[key].digest.packs = run.tree[p] PROVE FALSE
                    OBVIOUS
                <5>2. key[2] = run.tree[p].channel
                    BY <4>3, <5>1
                <5>3. key = <<p, key[2]>>
                    BY <1>6, <3>1 DEF PluginOk
                <5> QED
                    BY <2>2, <4>2, <5>2, <5>3 DEF Key
            <4>5. Tells(archives[PluginArchive(p, h[key].version)], h[key].digest)
                BY <4>1, <4>2, <4>4 DEF Holds, Tells, IsWhole, Whole
            <4> QED
                BY <1>6, <3>1, <4>5 DEF PluginOk
        <3> QED
            BY <3>2, <3>3
    <2> QED
        BY <2>1, <2>2
<1> QED
    BY <1>1, <1>2, <1>3, <1>6, <1>10 DEF PluginsTold, h

LEMMA PluginsToldStep ==
    ASSUME Shapes, Shapes', Packed, PluginsTold, [Next]_vars
    PROVE  PluginsTold'
<1> DEFINE h == docs["plugin-index"].holds
<1>1. PluginOk(h, archives, unindexed)
    BY DEF PluginsTold
<1>2. CASE UNCHANGED vars
    BY <1>2 DEF vars, PluginsTold, Running, PluginsBuilt, PluginName, NextPlugin, Packs,
                PackedSoFar, Key, Holds
<1>3. CASE Start \/ Stop \/ Finish
    <2>1. run'.step = 1 /\ UNCHANGED <<archives, docs, unindexed>>
        BY <1>3, Starts, AtRest DEF Start, Stop, Finish
    <2> QED
        BY <1>1, <2>1 DEF PluginsTold
<1>4. CASE CreateCoreArchive \/ WriteCoreArchive \/ DigestCoreArchive
    <2>1. /\ run.step = 1 /\ UNCHANGED docs
          /\ unindexed' = unindexed \/ unindexed' = unindexed \cup {CoreName}
          /\ archives' = archives \/ \E file : archives' = [archives EXCEPT ![CoreName] = file]
        BY <1>4, StepNames DEF CreateCoreArchive, WriteCoreArchive, DigestCoreArchive
    <2>2. run'.step = 1
        BY <1>4, <2>1 DEF CreateCoreArchive, WriteCoreArchive, DigestCoreArchive, Shapes, Fields
    <2>3. PluginWithin(unindexed, unindexed')
        BY <2>1 DEF PluginWithin
    <2>4. PluginStay
        <3>1. \A p \in Plugins, s \in PluginStates :
                  /\ PluginArchive(p, s.version) \in DOMAIN archives
                  /\ PluginArchive(p, s.version) # CoreName
            BY NamesApart DEF Shapes, ArchiveNames, CoreName
        <3> QED
            BY <2>1, <3>1 DEF PluginStay
    <2>5. PluginOk(h, archives', unindexed')
        BY <1>1, <2>3, <2>4, PluginOkStays
    <2> QED
        BY <2>1, <2>2, <2>5 DEF PluginsTold
<1>5. CASE MergeCoreIndex
    <2>1. run.step = 1 /\ UNCHANGED <<archives, docs, unindexed>>
        BY <1>5, StepNames DEF MergeCoreIndex
    <2>2. run'.step = 2
        <3>1. PICK m : run' = [NextStep(run) EXCEPT !.merged = m]
            BY <1>5 DEF MergeCoreIndex
        <3>2. run'.step = run.step + 1
            BY <2>1, <3>1, Advance
        <3> QED
            BY <2>1, <3>2
    <2> QED
        BY <1>1, <2>1, <2>2 DEF PluginsTold
<1>6. CASE CopyInstallerScripts
    <2>1. run.step = 4 /\ UNCHANGED <<archives, docs, unindexed>>
        BY <1>6, StepNames DEF CopyInstallerScripts
    <2>2. /\ run'.step = 5 /\ run'.entries = NoEntries /\ run'.file = "untouched"
          /\ run'.done = 0
        BY <1>6, <2>1, Advance DEF CopyInstallerScripts
    <2>3. PackedSoFar' = {}
        BY <2>2 DEF PackedSoFar
    <2>4. DOMAIN run'.entries = {}
        BY <2>2 DEF NoEntries
    <2>5. PluginsBuilt'
        BY <2>2, <2>3, <2>4, EveryPluginInTurn DEF PluginsBuilt
    <2> QED
        BY <1>1, <2>1, <2>2, <2>5 DEF PluginsTold
<1>7. CASE PackPlugin
    BY <1>7, PackStep
<1>8. CASE DigestPlugin
    BY <1>8, DigestPluginStep
<1>9. CASE MergeRegistryIndex
    BY <1>9, MergePluginsStep
<1>10. CASE Truncate
    <2>1. PICK d \in Documents : At(d) /\ docs' = [docs EXCEPT ![d] = Torn]
        BY <1>10 DEF Truncate
    <2>2. Running /\ run.step = DocStep(d)
        BY <2>1, DocumentSteps
    <2>3. /\ run'.step = run.step /\ run'.merged = run.merged /\ run'.status = run.status
          /\ run'.tree = run.tree /\ UNCHANGED <<archives, unindexed>>
        BY <1>10 DEF Truncate, Shapes, Fields
    <2>4. Packs("plugin-index")' = Packs("plugin-index")
        BY <2>3 DEF Packs
    <2>5. "plugin-index" \in DOMAIN docs
        BY DEF Shapes, Documents
    <2>6. run.step # 5
        BY <2>2 DEF DocStep
    <2>7. PluginOk(docs'["plugin-index"].holds, archives', unindexed')
        BY <1>1, <2>1, <2>3, <2>5, NoPluginsOk
    <2> QED
        BY <2>3, <2>4, <2>6, <2>7 DEF PluginsTold, Running
<1>11. CASE Fill
    <2>1. PICK d \in Documents : /\ At(d) /\ docs' = [docs EXCEPT ![d] = Whole(run.merged)]
                                 /\ unindexed' = unindexed \ Packs(d)
        BY <1>11 DEF Fill
    <2>2. Running /\ run.step = DocStep(d)
        BY <2>1, DocumentSteps
    <2>3. run'.step = run.step + 1 /\ UNCHANGED archives
        BY <1>11, <2>2, Advance DEF Fill, DocStep
    <2>4. run'.step \notin {5, 6}
        BY <2>2, <2>3 DEF DocStep
    <2>5. "plugin-index" \in DOMAIN docs
        BY DEF Shapes, Documents
    <2>6. CASE d = "plugin-index"
        <3>1. docs'["plugin-index"].holds = run.merged /\ run.step = 6
            BY <2>1, <2>2, <2>5, <2>6 DEF Whole, DocStep
        <3> QED
            BY <2>1, <2>2, <2>3, <2>4, <2>6, <3>1 DEF PluginsTold
    <2>7. CASE d # "plugin-index"
        <3>1. docs'["plugin-index"] = docs["plugin-index"]
            BY <2>1, <2>5, <2>7
        <3>2. \A p \in Plugins, s \in PluginStates : PluginArchive(p, s.version) \notin Packs(d)
            BY <2>7, PacksOf, NamesApart
        <3>3. PluginWithin(unindexed, unindexed')
            BY <2>1, <3>2 DEF PluginWithin
        <3>4. PluginStay
            BY <2>3 DEF PluginStay
        <3>5. PluginOk(h, archives', unindexed')
            BY <1>1, <3>3, <3>4, PluginOkStays
        <3> QED
            BY <2>4, <3>1, <3>5 DEF PluginsTold
    <2> QED
        BY <2>6, <2>7
<1> QED
    BY <1>2, <1>3, <1>4, <1>5, <1>6, <1>7, <1>8, <1>9, <1>10, <1>11 DEF Next

LEMMA PluginsToldInit == Init => PluginsTold
<1> SUFFICES ASSUME Init PROVE PluginsTold
    OBVIOUS
<1>1. docs["plugin-index"] = Missing /\ ~Running
    BY DEF Init, Documents, Running, Idle
<1> QED
    BY <1>1, NoPluginsOk DEF PluginsTold

(* tools/release: the directory a successful run leaves is consistent as a *)
(* whole, what earlier runs put in it included.  A stale entry is one      *)
(* whose archive was written by a run that stopped before its index, or    *)
(* whose archive packs another release or other files of the same version. *)
(* Nothing is assumed of versions: the same one may be released on several *)
(* channels, and packed from different files.                              *)
THEOREM InstallableRelease == Spec => []ReleaseInstallable
<1> DEFINE Inv == Shapes /\ Packed /\ Written /\ CoreMatches /\ PluginsTold
<1>1. Init => Inv
    BY ShapesInit, PluginsMatchInit, CoreInit, PluginsToldInit DEF PluginsMatch
<1>2. Inv /\ [Next]_vars => Inv'
    BY ShapesStep, ArchivesStay, WrittenStep, CoreMatchesStep, PluginsToldStep
<1>3. Inv => ReleaseInstallable
    <2> SUFFICES ASSUME Inv, run.status = "done" PROVE ReleaseInstallable
        BY DEF ReleaseInstallable
    <2> DEFINE h == docs["core-index"].holds
    <2>1. CoreOk(h, archives, unindexed)
        BY DEF CoreMatches
    <2>2. PluginOk(docs["plugin-index"].holds, archives, unindexed)
          /\ docs["mirror-index"] = docs["plugin-index"]
        BY DEF PluginsTold, Written
    <2>3. PluginEntriesCurrent("plugin-index") /\ PluginEntriesCurrent("mirror-index")
        BY <2>2 DEF PluginOk, PluginEntriesCurrent, Current
    <2> HIDE DEF h
    <2>4. \A channel \in DOMAIN h : \A p \in DOMAIN h[channel].artifacts :
              Current(CoreArchive(h[channel].version, p), h[channel].artifacts[p])
        BY <2>1 DEF CoreOk, Current
    <2> QED
        BY <2>3, <2>4 DEF ReleaseInstallable, Written, h
<1> QED
    BY <1>1, <1>2, <1>3, PTL DEF Spec
=============================================================================
