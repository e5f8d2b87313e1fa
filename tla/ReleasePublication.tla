------------------------- MODULE ReleasePublication -------------------------
(***************************************************************************)
(* The release packaging tool, tools/release.  A run builds the core      *)
(* archives of one version and the archives of every plugin directory     *)
(* into an output directory that earlier runs have filled, merges its     *)
(* entries into the indexes found there, and signs them.  Runs follow one *)
(* another; any of them may fail or be killed at any step, and the next   *)
(* one starts from the files it left.                                     *)
(*                                                                         *)
(* Files are abstracted to what tells two of them apart: an archive to the *)
(* release, plugin state and build it was packed from, an index to its    *)
(* entries, a signature to the document it signs, a SHA-256 digest to the *)
(* bytes it was taken of.  Every run is a build of its own: another source *)
(* revision or toolchain, so that what it packs has other bytes.           *)
(***************************************************************************)
EXTENDS Naturals, Sequences, FiniteSets, Functions, StoredFiles

CONSTANTS
    CoreReleases,  \* the [version, channel] pairs the tool is run with
    PlatformLists, \* the lists of GOOS/GOARCH pairs it is asked for with each
    Plugins,       \* the directories of plugins/
    PluginStates,  \* the [version, channel, content] a plugin may have
    MaxRuns        \* bound: runs of the tool

ASSUME PluginsAssumption == IsFiniteSet(Plugins)
ASSUME ReleasesAssumption ==
    \A r \in CoreReleases : r = [version |-> r.version, channel |-> r.channel]

Lists == UNION { PlatformLists[r] : r \in CoreReleases }

ASSUME PlatformsAssumption == \A list \in Lists : list \in Seq(Range(list))

VARIABLES
    archives,   \* the archives of the output directory, by name
    docs,       \* its indexes, signatures and manifest, by name
    run,        \* the run in progress, or the last one
    runs,       \* bound counter, and the time and the build of the last run
    published,  \* history: every [index, key] a whole index has had an entry for
    unindexed   \* history: the archives written since their index was

vars == <<archives, docs, run, runs, published, unindexed>>

\* The names of the archives: a core archive is named after version and
\* platform, a plugin archive after name and version; neither names a channel.
CoreArchive(version, platform) == <<"ctyun", version, platform>>
PluginArchive(plugin, version) == <<"ctyun_plugin", plugin, version>>

Platforms == UNION { Range(list) : list \in Lists }

ArchiveNames ==
    { CoreArchive(r.version, p) : r \in CoreReleases, p \in Platforms }
        \cup { PluginArchive(p, s.version) : p \in Plugins, s \in PluginStates }

\* The files written after the archives, in the order writeRelease writes
\* them; "scripts" are the installers, which hold nothing of a run.
Steps == << "core-archives", "core-index", "core-signature", "scripts",
            "plugin-archives", "plugin-index", "plugin-signature",
            "mirror-index", "mirror-signature", "mirror-manifest" >>

Documents == { "core-index", "core-signature", "plugin-index",
               "plugin-signature", "mirror-index", "mirror-signature",
               "mirror-manifest" }

\* An index maps what upserts look for (a channel, or a plugin and a channel)
\* to the entry; os.ReadFile of a missing one gives the empty index.
NoEntries == <<>>
One(key, entry) == [k \in {key} |-> entry]
Over(new, old) == [k \in DOMAIN new \cup DOMAIN old |->
                      IF k \in DOMAIN new THEN new[k] ELSE old[k]]

\* mutant: an index that cannot be parsed is started anew
LoadsAnything(file) == TRUE

Loads(file) == file.is # "torn"

AtEnd(r) == r.step > Len(Steps)
At(name) == run.status = "running" /\ ~AtEnd(run) /\ Steps[run.step] = name

Idle == [status |-> "idle", release |-> <<>>, platforms |-> <<>>, tree |-> <<>>,
         step |-> 1, done |-> 0, file |-> "untouched",
         entries |-> NoEntries, merged |-> NoEntries]

Init ==
    /\ archives = [a \in ArchiveNames |-> Missing]
    /\ docs = [d \in Documents |-> Missing]
    /\ run = Idle
    /\ runs = 0
    /\ published = {}
    /\ unindexed = {}

\* Each platform is given once; what the options say has been validated.
Start ==
    /\ run.status # "running"
    /\ runs < MaxRuns
    /\ \E release \in CoreReleases, tree \in [Plugins -> PluginStates] :
       \E platforms \in PlatformLists[release] :
         run' = [Idle EXCEPT !.status = "running", !.release = release,
                             !.platforms = platforms, !.tree = tree]
    /\ runs' = runs + 1
    /\ UNCHANGED <<archives, docs, published, unindexed>>

\* Any call of the run fails and ends it, or the run is killed.
Stop ==
    /\ run.status = "running"
    /\ run' = [Idle EXCEPT !.status = "failed"]
    /\ UNCHANGED <<archives, docs, runs, published, unindexed>>

\* The run goes on with the next file.
NextStep(r) == [r EXCEPT !.step = @ + 1, !.done = 0, !.file = "untouched",
                         !.entries = NoEntries, !.merged = NoEntries]

-----------------------------------------------------------------------------
(* Core archives.  The archive is created in place, so the one an index    *)
(* entry may name is gone until the new one has been written; its digest   *)
(* is taken from the file afterwards.                                      *)

NextPlatform == run.platforms[run.done + 1]
CoreName == CoreArchive(run.release.version, NextPlatform)

CreateCoreArchive ==
    /\ At("core-archives")
    /\ run.done < Len(run.platforms)
    /\ run.file = "untouched"
    /\ archives' = [archives EXCEPT ![CoreName] = Torn]
    /\ run' = [run EXCEPT !.file = "created"]
    /\ unindexed' = unindexed \cup {CoreName}
    /\ UNCHANGED <<docs, runs, published>>

WriteCoreArchive ==
    /\ At("core-archives")
    /\ run.file = "created"
    /\ archives' = [archives EXCEPT ![CoreName] =
           Whole([packs |-> run.release, build |-> runs])]
    /\ run' = [run EXCEPT !.file = "written"]
    /\ UNCHANGED <<docs, runs, published, unindexed>>

\* The entry of this platform with the digest of the archive as it is read.
CoreArtifact ==
    Over(One(NextPlatform, archives[CoreName].holds), run.entries)

DigestCoreArchive ==
    /\ At("core-archives")
    /\ run.file = "written"
    /\ run' = [run EXCEPT !.entries = CoreArtifact,
                          !.done = @ + 1, !.file = "untouched"]
    /\ UNCHANGED <<archives, docs, runs, published, unindexed>>

\* upsertCoreRelease: another version of the channel is replaced, the same
\* version keeps the platforms this run has not built.
\* mutant: an artifact that is there already is kept
MergeKeepingExisting(existing, current) == Over(existing, current)

MergeCoreArtifacts(existing, current) == Over(current, existing)

UpsertCoreRelease(index, entries) ==
    LET channel == run.release.channel
        same == channel \in DOMAIN index
                    /\ index[channel].version = run.release.version
        entry == [version |-> run.release.version, publishedAt |-> runs,
                  artifacts |-> IF same
                      THEN MergeCoreArtifacts(index[channel].artifacts, entries)
                      ELSE entries]
    IN  Over(One(channel, entry), index)

\* mergeCoreIndex: an index that cannot be loaded ends the run.
MergeCoreIndex ==
    /\ At("core-archives")
    /\ run.done = Len(run.platforms)
    /\ Loads(docs["core-index"])
    /\ run' = [NextStep(run) EXCEPT !.merged =
           UpsertCoreRelease(docs["core-index"].holds, run.entries)]
    /\ UNCHANGED <<archives, docs, runs, published, unindexed>>

-----------------------------------------------------------------------------
(* Documents.  os.WriteFile truncates the file and then fills it.          *)

Truncate ==
    /\ \E d \in Documents :
         /\ At(d)
         /\ run.file = "untouched"
         /\ docs' = [docs EXCEPT ![d] = Torn]
    /\ run' = [run EXCEPT !.file = "created"]
    /\ UNCHANGED <<archives, runs, published, unindexed>>

Indexes == {"core-index", "plugin-index", "mirror-index"}

\* The archives of this run that the document has entries for.
Packs(d) ==
    CASE d = "core-index"   -> { CoreArchive(run.release.version, p) : p \in Range(run.platforms) }
      [] d = "plugin-index" -> { PluginArchive(p, run.tree[p].version) : p \in Plugins }
      [] OTHER -> {}

\* An index holds the merged entries, and what follows it is made from them:
\* its signature, and after the plugin index the mirror's, which is read back
\* from index.json and gets another URL in each entry, and the manifest.
Fill ==
    /\ \E d \in Documents :
         /\ At(d)
         /\ run.file = "created"
         /\ docs' = [docs EXCEPT ![d] = Whole(run.merged)]
         /\ published' = IF d \in Indexes
                         THEN published \cup ({d} \X DOMAIN run.merged)
                         ELSE published
         /\ unindexed' = unindexed \ Packs(d)
    /\ run' = [NextStep(run) EXCEPT !.merged = run.merged]
    /\ UNCHANGED <<archives, runs>>

CopyInstallerScripts ==
    /\ At("scripts")
    /\ run' = NextStep(run)
    /\ UNCHANGED <<archives, docs, runs, published, unindexed>>

-----------------------------------------------------------------------------
(* Plugin archives.  The directories are packed in their order into a      *)
(* temporary directory; a candidate with the payload of the archive that   *)
(* is there already is dropped, any other takes its place by a rename.     *)

PluginOrder == CHOOSE q \in [1 .. Cardinality(Plugins) -> Plugins] : IsInjective(q)

NextPlugin == PluginOrder[run.done + 1]
PluginName == PluginArchive(NextPlugin, run.tree[NextPlugin].version)
Candidate == Whole([packs |-> run.tree[NextPlugin], build |-> runs])

\* mutant: archives are compared by their compressed bytes
SameBytes(file, other) == file = other

SamePayload(file, other) ==
    IsWhole(file) /\ file.holds.packs = other.holds.packs

\* writeDirectoryArchive; an archive that is there and cannot be read ends the run.
PackPlugin ==
    /\ At("plugin-archives")
    /\ run.done < Cardinality(Plugins)
    /\ run.file = "untouched"
    /\ archives[PluginName].is # "torn"
    /\ IF SamePayload(archives[PluginName], Candidate)
       THEN UNCHANGED <<archives, unindexed>>
       ELSE /\ archives' = [archives EXCEPT ![PluginName] = Candidate]
            /\ unindexed' = unindexed \cup {PluginName}
    /\ run' = [run EXCEPT !.file = "written"]
    /\ UNCHANGED <<docs, runs, published>>

DigestPlugin ==
    /\ At("plugin-archives")
    /\ run.file = "written"
    /\ run' = [run EXCEPT
           !.entries = Over(One(<<NextPlugin, run.tree[NextPlugin].channel>>,
                                [version |-> run.tree[NextPlugin].version,
                                 digest |-> archives[PluginName].holds]), @),
           !.done = @ + 1, !.file = "untouched"]
    /\ UNCHANGED <<archives, docs, runs, published, unindexed>>

\* upsertRegistryArtifact for each plugin in turn.
UpsertPlugins(index, entries) == Over(entries, index)

MergeRegistryIndex ==
    /\ At("plugin-archives")
    /\ run.done = Cardinality(Plugins)
    /\ Loads(docs["plugin-index"])
    /\ run' = [NextStep(run) EXCEPT !.merged =
           UpsertPlugins(docs["plugin-index"].holds, run.entries)]
    /\ UNCHANGED <<archives, docs, runs, published, unindexed>>

\* writeGiteePluginRegistry has written the last file.
Finish ==
    /\ run.status = "running"
    /\ AtEnd(run)
    /\ run' = [Idle EXCEPT !.status = "done"]
    /\ UNCHANGED <<archives, docs, runs, published, unindexed>>

Next ==
    \/ Start \/ Stop \/ Finish
    \/ CreateCoreArchive \/ WriteCoreArchive \/ DigestCoreArchive \/ MergeCoreIndex
    \/ Truncate \/ Fill \/ CopyInstallerScripts
    \/ PackPlugin \/ DigestPlugin \/ MergeRegistryIndex

Spec == Init /\ [][Next]_vars

-----------------------------------------------------------------------------
(* Properties.                                                             *)

Signed(index, signature) == docs[signature] = Whole(docs[index].holds)

\* The archive is there and, if it packs what the digest was taken of, it is
\* the very build the digest was taken of.
Tells(file, digest) ==
    IsWhole(file) /\ (file.holds.packs = digest.packs => file.holds = digest)

Current(name, digest) == name \in unindexed \/ Tells(archives[name], digest)

PluginEntriesCurrent(index) ==
    \A key \in DOMAIN docs[index].holds :
        LET entry == docs[index].holds[key]
        IN  Current(PluginArchive(key[1], entry.version), entry.digest)

\* After a run that succeeded the output directory can be published as it is:
\* every signature belongs to its index and every entry, of this run or of an
\* earlier one, to an archive with its digest.  Two entries may be stale.  The
\* archive of one was written by a run that stopped before it wrote the index.
\* The archive of the other now packs something else of the same name: file
\* names carry no channel, so a release of a version on one channel replaces
\* the archive that an entry of the same version on another channel names,
\* and a plugin whose files change under its version replaces its own.
ReleaseInstallable ==
    run.status = "done" =>
        /\ Signed("core-index", "core-signature")
        /\ Signed("plugin-index", "plugin-signature")
        /\ Signed("mirror-index", "mirror-signature")
        /\ docs["mirror-manifest"] = docs["plugin-index"]
        /\ \A channel \in DOMAIN docs["core-index"].holds :
             LET entry == docs["core-index"].holds[channel]
             IN  \A p \in DOMAIN entry.artifacts :
                    Current(CoreArchive(entry.version, p), entry.artifacts[p])
        /\ PluginEntriesCurrent("plugin-index")
        /\ PluginEntriesCurrent("mirror-index")

\* Runs for one channel, whatever fails in them, never make an index forget
\* another one: a channel of the core index, or a plugin on a channel, that
\* was in an index once is in it whenever it is whole.  The platforms of a
\* core release are not meant: another version starts with its own.
EntriesPreserved ==
    \A e \in published :
        IsWhole(docs[e[1]]) => e[2] \in DOMAIN docs[e[1]].holds

\* The maintainers' rule for versions, which the tool does not enforce: what
\* is packed under this one is packed from the same files each time.
PackedOnce(version) ==
    \A s, t \in PluginStates : s.version = version /\ t.version = version => s = t

\* An entry of the plugin index that is being served, of a version that is
\* packed once, matches its archive at every moment, also in the middle of a
\* run and after a kill, although another toolchain packs the same files to
\* other bytes, and whatever becomes of other versions.
PluginsAlwaysServed ==
    IsWhole(docs["plugin-index"]) =>
        \A key \in DOMAIN docs["plugin-index"].holds :
            LET entry == docs["plugin-index"].holds[key]
            IN  PackedOnce(entry.version) =>
                    archives[PluginArchive(key[1], entry.version)] = Whole(entry.digest)
=============================================================================
