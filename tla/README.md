# A TLA+ model of ctyun

`ctyun` is a command line client for a cloud API, written in Go. It has no
server and no daemon: every command is a short-lived process. What makes it
hard to get right is what those processes share and what lies between two of
their system calls: the plugin directory, the configuration file, the path of
the executable, the remote indexes they are installed from, and the remote API.
None of these is locked. Beside it stand the maintainers' tools, which draft and
release the plugins it runs by, through files that the next run finds as the
last one left them. This directory holds TLA+ modules for those parts,
the TLC configurations that check them, and proofs checked by TLAPS.

## 1. Inventory

| Component | State it keeps | Operations | Hard behaviour | Correct when |
|---|---|---|---|---|
| Plugin directory (`internal/plugin/install.go`, `removePlugins`) | one directory per plugin, temporary and backup directories | `copyBundleIntoPlace`, `replaceDir`, `os.RemoveAll` | no lock, two renames, rollback whose error is dropped, kills | a served bundle is whole; the last copy of a plugin is never deleted; success leaves nothing behind |
| Plugin commands (`plugin_manager.go`, `plugin_registry.go`, `operation*.go`) | targets, checks, the index read once, results | `install`, `reinstall`, `update`, `remove`, batches and `--all` | checks made long before use, partial failure of a batch, leftovers of killed commands | success means the README's promise for every target; failure harms no plugin; every command ends |
| Configuration (`config_command.go`, `config.go`) | `~/.ctyun/config.json`, backups | `set`, `unset`, `profile ...`, `reset` | read-modify-write of a whole file, truncation before writing, backup names probed and then created | only coherent configurations, never a mixture; success is exact; reset never holds the only copy |
| Self upgrade (`upgrade_command.go`, `internal/release`, `internal/distribution`) | the executable, its backup, the remote indexes and signatures | `upgrade` with `--source`, `--check` | mirrors that lag or are being published to, two renames, rollback, kills | only signed releases; one failing call never takes the executable away; the report is true |
| Request transport (`internal/client`, `command_transport.go`) | the attempt, the response and its deadline | `Do`, decoding, copying to a file | retries of requests already executed, time-outs, releasing each response | every response closed once; the outcome is the last attempt's; a file is published whole |
| Waiters (`internal/waiter`, `waiters.go`) | attempt counter, last payload | `renderWaiter`, `Evaluate` | polling, ambiguous or vanishing resources | the reported state is the last one seen |
| Network doctor (`internal/networkdoctor`) | the plan of checks, results, shared probe data | `Build`, `Run` | waves of concurrent checks, dependencies, skipping, a failing observer | every check is finished once, after what it depends on; nothing runs on a failed dependency |
| Configuration resolution (`resolution.go`, `config_explain.go`) | none | `Inspect`, `Resolve`, `Load`, explain | precedence of option, environment, profile and file, computed in two places | what explain reports is what a command uses |
| Local doctor (`internal/localdoctor`) | the findings so far | looks at configuration and plugins one after the other | other processes between the looks | a clean report is true of something that was there |
| Parsing, help, completion (`cli.go`, `command*.go`, `help.go`, `completion.go`) | the tokens of a line | global options, dispatch, candidates | several tables that have to agree; a broken plugin or configuration | no candidate is refused; no repair needs what it repairs |
| OpenAPI pipeline (`internal/openapipipeline`, `tools/openapi`) | sources, drafts, promoted plugins, baselines | harvest, generate, review, promote, diff | a promotion that stops half way; products reviewed against each other and promoted one by one | plugins, baseline and requirement agree; recommendations end |
| Release tooling (`tools/release`) | archives, indexes, signatures, the mirror's manifest | one run writes a release and the plugin registry | runs that stop anywhere over the files of earlier ones; archives rewritten before the index | every entry has its archive; no entry is forgotten |
| API contracts, JSON values, messages | none | conversions | - | - |

The components meet in the file system and through plain calls. A plugin
command calls `copyBundleIntoPlace` once per target and in sequence; two
commands meet only in the plugin directory. An upgrade meets another one at the
path of the executable. Publishing (release tooling) and upgrading meet in the
index and its signature. Every product command loads all installed bundles, so
a leftover directory that does not load breaks all of them; the commands that
repair it load none. A promoted plugin carries the core version it needs, which
the installation of a plugin checks.

## 2. Modules

| Module | Models | Composes |
|---|---|---|
| `PluginSlots` | abstract promise: a name on disk is served in one piece or kept aside in one piece | - |
| `PluginStore` | the plugin directory, at the granularity of system calls | implements `PluginSlots` |
| `PluginCommands` | the commands that change the directory | extends `PluginStore`; each task is one of its jobs |
| `ConfigStore` | the configuration file and its commands | - |
| `SelfUpgrade` | `ctyun upgrade` with its sources | implements `PluginSlots` |
| `ProductCommand` | one operation of the API: retries, response, waiter, output file | - |
| `NetworkDoctor` | the plan, the waves and the report of `ctyun doctor network` | - |
| `CommandLine` | tokens, global options, and what `Run` says to a line: runs, help, or the refusal | - |
| `Completion` | the candidates of completion for a line | extends `CommandLine` |
| `ConfigResolution` | `resolution.go` and the findings of `doctor local` about it, as operators | - |
| `Invocation` | a user who completes and enters lines, the process with its reads, repairs, other processes | `CommandLine`, `Completion`, `ConfigResolution` |
| `CatalogReview` | what generation derives from a catalog, and what review accepts of it and of the graph of recommendations | - |
| `OpenAPIPipeline` | harvest, generate, review, promote over the files of all products | extends `CatalogReview` |
| `ReleasePublication` | runs of the release tool over one output directory | - |
| `StoredFiles` | a file that is missing, torn or whole | used by `ConfigResolution`, `CatalogReview`, `ReleasePublication` |
| `PluginCommandsProofs` | theorems about the plugin directory (`PluginStore`), then about the commands over it | `PluginCommands` |
| `ConfigStoreProofs`, `SelfUpgradeProofs`, `ProductCommandProofs`, `NetworkDoctorProofs`, `ReleasePublicationProofs`, `OpenAPIPipelineProofs`, `InvocationProofs` | theorems about the module they are named for | that module |
| `MC*` | instances for TLC: model values, symmetry, command lines, catalogs | the module they are named for |

The order of the plan was: the plugin directory with its abstract promise and
its proofs, the commands over it, then the other two places where processes
meet (configuration, executable), then the parts that talk to a server, then
what a user and a maintainer do over many runs of a tool.

## 3. How state and actions correspond to the code

**Identity.** `PluginStore` and `SelfUpgrade` model a directory or a file as an
object with an identity and a place; a rename changes the place. So "the backup
of job j", "the directory RemoveAll has opened" and "what the name denotes now"
are different things, as they are in the code. Places are classes of names: the
plugin's own name, `.<name>-tmp-<random>`, `<name>.old-<nanoseconds>`.

**`PluginStore`.** A job is one call of `copyBundleIntoPlace` or of
`os.RemoveAll`; `pc[j]` is the system call it makes next. `BeginInstall` is
`MkdirAll` and `MkdirTemp`; `CopyFile` one round of `copyDir`; `StatDest`,
`Publish`, `SetAside`, `SwapIn`, `Rollback` are the calls of `replaceDir`, each
with its failure (`MkdirFails`, `SwapInFails`, `Abandon`). `OpenVictim`,
`Unlink`, `Rmdir`, `RemovalFails` are the steps of `os.RemoveAll`, which holds
the directory it has opened while its name may pass to another one. `Crash`
kills the process. `targeted` is a history variable: the plugins a removal was
asked for.

**`PluginCommands`.** `cmd[p]` is a process: its stage, targets, what it found
for each (`checks`), the index it read once, and the results. `Launch` parses,
`CheckTarget`/`EndChecks` look at the targets, `ReadIndex` reads a registry
index (or the bundled worktree), `Decide` is the per-target decision of each
command (`Verdict`), `FetchFails`, `StartInstall` and `StartRemove` start a job
of `PluginStore`, `Apply` are the steps of that job, `Collect` takes its result
and goes to the next target, `Report` ends the command. Job `<<p, i>>` is the
i-th task of p. `launch[p]` is history: what p found, whether it ran alone and
over a tidy directory. `Listings` are the target lists of `--all`: the entries of
the root in an order that `os.ReadDir` may give them, or none, since
`pluginDirs` (`command.go:517`) drops the error of a root that cannot be listed.

**`ConfigStore`.** `proc[p].raw` is what a process read when it started; `Apply`
decodes it and computes the new configuration (`Effect`); `Write` is
`os.WriteFile`, which truncates the file first and then writes
through its descriptor (`linked`: the file it has open is still the one at the
path). `Stat` to `Remove` are the steps of `config reset`, with the search for a
free backup name (`Probe`) apart from its creation.

**`SelfUpgrade`.** `run[p]` follows `runUpgrade`: the sources left to try,
`FetchIndex` and `FetchSignature` as two reads of a host that may be published
to in between (`PublishIndex`, `PublishSignature`, in the order of
`tools/release`), `Decide`, `Download`, `Extract`, the two renames, the rollback
and the deletion of the backup, each with its failure.

**`ProductCommand`.** `run[p]` follows `runTransportCommand` and, for waiters,
`renderWaiter`: `Send`, `RoundTripFails`, `Receive` and `Refused` are one
attempt of `Do`; `Read` is `DecodeHTTPResponse`; `Evaluate` one round of a
waiter; `StatTarget` to `Cleanup` are `WriteFile`. `open` counts the responses
that are open, with their deadlines; `executed`, `seen` and `published` are
history. `Serve` is the server, `OtherProgram` whoever else uses the
destination.

**`NetworkDoctor`.** `Build` makes the plan from an input as `plan.go` does, with
shared routes and HTTPS probes. `Select` is `readyChecks`; `Skip` records and
announces one skipped check; `Probe(c)` is the goroutine of `c`; `Collect` and
`Record` are the coordinator; `Report` builds the rows and the exit status.

**`CommandLine`, `Completion`, `ConfigResolution`.** Operators, one for each
function or small group of functions of the code. A token is a record of its
dashes, its name and the value after `=`; a bundle is a sequence of commands
with their paths, parameters and waiters. `ParseGlobals` is the first pass over
a line, `Outcome` the dispatch with everything that refuses a line; an outcome
names the refusal, not its wording. `Offered` and `OfferedInline` are the
candidates for the next token. `Inspect` and `ResolveFails` are
`resolution.go`, `UsedCredential` and `UsedWarning` what a product command
takes, and `ConfigFindings` what `doctor local` finds.

**`Invocation`.** `Type` adds a token to the line, `Enter` runs it in any state
of the machine. A process is `ReadConfig` (with what the line alone is refused
for), `ListPlugins`, `LoadPlugin` for one bundle at a time and `Dispatch`, or
`Act` or `ActFails` for a core command; for `doctor local` it is `StatConfig`,
`ReadChecked`, `CheckConfig`, `CheckPlugin` and `Report`. A configuration that
cannot be read (`Unreadable`: its permissions, or a directory at its path)
ends every command that reads it, `config reset` included
(`cli.go:171`). `ListPlugins` may find nothing because the listing failed.
`Works` is what a repair cannot handle: `install` and `reinstall` load the
bundle that is there first (`plugin_registry.go:202`). `Change` is another
process that replaces the configuration or a plugin between two of these;
`changes` counts these together with failing calls (`Fault`). `TryAgain` is the
user who enters the repair that the outcome asks for, and then the first line
again. `seen` is history: what there was since the process started.

**`CatalogReview`, `OpenAPIPipeline`.** A catalog is its APIs, its
recommendations, which APIs are retired, and the features its files need.
`Built` and `BuildDraftManifest` are generation, `ContractAccepted`,
`RecommendationAccepted` and `GraphAccepted` the parts of review that look
beyond one file, `Walk` to `RecommendationCycles` the search for cycles, as
recursive functions. In `OpenAPIPipeline` a product has a source, a draft and a
promoted plugin, file by file, and a baseline; `Harvest` writes any catalog of the
product's history as its source, a former one too, as `HarvestFromFile` takes
whatever it is given; `Generate` and `EditDraft` change the draft, `StartPromotion` needs `ReviewReady`,
`WriteNext` writes the next file of `PromoteOrder`, and `Break` interrupts the
promotion before, in or after a file. `settled`, `raised` and `breaks` are history.

**`ReleasePublication`.** A run goes through `Steps`, the files in the order of
`writeRelease`. An archive is what it packs and the build that packed it, so two
builds of the same files differ. `CreateCoreArchive` truncates what is there,
`PackPlugin` renames a candidate into place only if its payload differs,
`MergeCoreIndex` and `MergeRegistryIndex` read the index that an earlier run
left, `Truncate` and `Fill` are `os.WriteFile`. `Stop` ends a run at any step.
`published` and `unindexed` are history.

Definitions marked "mutant" in a comment are plausible wrong versions of the
definition below them. They are not part of any next-state relation; each
property is known to fail when its mutant takes the place of the original.

## 4. What the runs check

| Run | Question | Properties | States |
|---|---|---|---|
| `store` | three jobs on one plugin, two files per bundle, every failure and kill | `InstalledIsWhole`, `SuccessLeavesNothing`, `CleanRoot`, `NoPluginLost`, `ImplementsSlots` | 140 thousand |
| `cmd_batch` | one command with two targets, one target given twice, `--all`, bundled plugins | `SuccessDelivers`, `FailureHarmless`, `CommandsEnd` | 0.65 million |
| `cmd_pairs` | two commands: at once, or one after another that ended, failed or was killed | `OverlapDelivers`, `SuccessDelivers` | 2.3 million |
| `config` | two configuration commands at once, any initial file | `NeverMixed`, `SuccessIsExact`, `ResetLosesNothing` | 1.1 million |
| `upgrade` | two upgrades, two hosts being published to | `SingleFaultTolerated`, `OnlySigned`, `OutcomeIsTrue`, `ImplementsSlots` | 0.45 million |
| `product` | a waiter, a mutation or a retried download alone; two savers to one path | `NoStrayResponse`, `ExecutedOnce`, `SuccessIsTrue`, `PublishedWhole`, `EndsByDeadline` | 0.2 million |
| `doctor` | two mirrors direct or over a proxy, or two subjects sharing an origin | `ReportIsTrue`, `ProbedOverPassed`, `DoctorEnds` | 78 thousand |
| `release` | three runs of the release tool over one directory, one version on two channels, stopping anywhere | `ReleaseInstallable`, `EntriesPreserved`, `PluginsAlwaysServed` | 2.2 million |
| `pipeline` | two products that come to recommend each other, any catalog harvested again, one interrupted promotion; every graph of four APIs | `SettledIsAcyclic`, `InterruptionIsSeen`, `RequirementCovers`, `GraphReviewIsExact`, `GuidanceResolves`, `IdentityKept` | 0.80 million |
| `invocation` | lines completed word by word; seven lines run over every configuration, readable or not, and state of the plugins, and repaired while a call fails or another process interferes | `OfferedIsKnown`, `ExplainIsUsed`, `HealthIsTrue`, `RepairsEnd` | 0.17 million |

What they show, in words:

- However installs, replacements, removals and kills interleave, a plugin that
  nobody removed is served whole or kept whole beside its name, and no step
  deletes its last copy (`store`). Two overlapping commands that both succeed
  leave a directory of whole plugins (`cmd_pairs`).
- A plugin command that succeeds has done what the README says to every target;
  one that fails or is killed harms no plugin, if the directory was tidy when it
  began (`cmd_batch`). The targets of `--all` are those that the listing
  gave: over a root that cannot be listed the command has none and succeeds,
  with every plugin left as it was. Removal and reinstall succeed truly even
  over leftovers. A name given twice is dealt with twice
  (`installedPluginTargets` keeps it): the second task sets the version aside that
  the first one installed, so a kill there leaves that version, not the one the
  user had, whole under a backup name. `Unharmed` therefore lets a backup hold
  any version that the command may leave.
- The configuration file never becomes a coherent mixture of two commands, and
  a lone `config reset` never holds the only copy of it.
- One failing call, at any place, never takes the executable away; a lagging or
  half published mirror never makes an upgrade lower the version or use an index
  without its signature.
- The server executes an operation that is not retryable at most once, and
  every response is closed before the next request and at the end.
- A downloaded file is published whole or not at all, and without `--overwrite`
  takes the place of nothing, whoever else uses the path.
- The doctor's rows, the causes they name and the exit status agree with what
  the probes found, in whatever order and however late they returned.
- After a release run that succeeded, the output directory can be published as
  it is, whatever earlier runs left. Two entries may be stale: one whose archive a
  run rewrote that stopped before the index, and one whose archive has been
  packed again with other content under the same name, since archive names
  carry no channel. No run forgets another channel. The plugin index that is
  served matches its archives at every moment, for versions that are packed
  from the same files each time.
- An interrupted promotion cannot be overlooked, since the manifest goes first
  and the baseline last; the plugin asks for a new enough core at every moment;
  and where every product has been promoted since it was last harvested, no chain
  of recommendations is a cycle, also when former catalogs come back. The
  graph review finds each cycle exactly once.
- Completion never offers what `Run` refuses as unknown, also with a broken
  plugin, but for the three lines listed below. `config explain` tells what a
  command uses, but for a blank warning control. A clean `doctor local` is
  true of a state there was. The repairs that messages name end in the line
  that was wanted, unless the configuration cannot be read at all, which no
  command mends, or a download never ends.

Two runs are expected to fail: the code contradicts its own text.

| Run | Text | What the run shows |
|---|---|---|
| `update_lowers` | "`update` installs only versions with higher SemVer precedence" (`README-EN.md:280`) | a leftover backup of version 1 makes `update --all` replace version 3 by 2 |
| `config_reset` | "creates a backup before deleting the current config file" (`README-EN.md:130`) | a configuration written between backup and deletion is in no backup |

Other disagreements that came up while modelling have no run of their own. Each
is in the model as the code has it, and the properties are stated so as not to
claim the text:

- "atomically swaps src into dest" (`internal/plugin/install.go:152`): between
  its two renames the plugin is not there, and a kill leaves it so.
- "`install` installs only absent plugins ... never ... replaces"
  (`README-EN.md:278`): of a name given twice, the second task replaces what the
  first installed.
- "raising the minimum core version when required" (`README-EN.md:542`):
  generation does not raise it for a typed request body in a plugin that exists
  (`generate.go`), although `tools/plugincheck/compatibility_test.go` asks for it;
  `RequirementCovers` leaves that feature out.
- "it preserves existing entries for other channels" (`README-EN.md:563`): file
  names of archives carry no channel (`tools/release/main.go:231`, `:398`), so a
  release of the same version on another channel, whose files differ, rewrites the
  archive that the preserved entry names. `ReleaseInstallable` lets such an entry
  be stale, and `PluginsAlwaysServed` speaks of versions that are packed from the
  same files each time.
- `FindCommandPrefixWithArgs` "matches the longest command prefix"
  (`internal/plugin/plugin.go:729`): it takes the first.
- Completion offers every command after `ctyun --version` (`completion.go:229`),
  which `Run` refuses there (`cli.go:786`), values after `-o=`, which the parser
  does not know, and a command's own options after `--help`, which the parser
  refuses. `OfferedIsKnown` leaves these three out. The values after the `=` of
  every other option, a command's own included, are compared. It also loses the command after the value of
  `--output-file`, and does not find commands with an optional region: it then
  offers less, which is no refusal.
- "`ctyun config explain` instead reports effective base settings"
  (`README-EN.md:126`): an environment variable that holds only blanks is for it
  a warning control that is set, to `true` (`resolution.go:265`), while a command
  trims it and goes on to the profile (`config.go:79`). The run has such an
  environment, and `ExplainIsUsed` leaves the warning control, and only that, out
  there.
- "remove every plugin" (`README-EN.md:364`): `pluginDirs` drops the error of a root
  that cannot be listed (`command.go:517`), and `remove --all`, `reinstall --all`
  and `update --all` then report success with every plugin still there.
  `SuccessDelivers` speaks of the targets that were found.

## 5. Bounds, and why they are enough

- `store`: one plugin, since jobs on different plugins touch different names;
  three jobs, since the hazards need a replacer, a second one that takes the
  freed name, and a remover or a third that meets the leftovers of either. Two
  files, one of them required: a bundle can be absent, partly there but
  loadable, or whole.
- `cmd_*`: `MaxTargets` is 2. `Overlap` bounds the targets of commands that run
  at once: 0 lets a second command start when the first has ended or died, 1
  lets commands with one target overlap, since two targets of one command run
  one after the other and meet another command as two commands would. Versions
  1 and 2 give equal, higher and lower; `update_lowers` needs a third.
  `BatchRequests` has a name given twice, since nothing removes the second one.
  `PairRequests` leaves `reinstall` of a single name out: it is `--all` with one
  plugin.
- `config`: two processes, one profile and one value besides unset;
  `MaxBackups = 2` lets two resets collide on the first name or use both.
- `upgrade`: two processes, two sources, three versions; an index of version 0
  is a source that is down or serves nothing valid.
- `product`: `MaxRetries = 2` is the constant of the code; `MaxPolls = 2` has a
  first, a last and an in-between evaluation; the payloads are nothing, one row
  in each class of state, and two rows. One command interacts only with the
  server, so the retried and polled ones run alone, and pairs are formed of
  those that share a destination.
- `doctor`: the inputs have a source with a fallback, a shared route, a shared
  origin and each kind of public key; two publications are enough for an index
  and a signature to disagree.

- `release`: three runs, so that one can fail, one repair or overtake it, and one
  meet the result; a version on two channels, built on the first for one platform
  or for two, so that platforms are merged, and on the second for one, so that one
  of two archives is rewritten; a second version, built for two. One plugin, since
  the entries of different plugins are different keys: a version on two channels,
  and one whose files never change.
- `pipeline`: two products close a cycle, and the third catalog of one retires
  the API that the other recommends; any of them may be harvested again at any
  time. `Edited` is the one file that maintainers edit, since an edit matters only
  by whether it makes a file differ from what was generated. `MaxBreaks = 1`: after two interruptions the
  property would not hold, since the manifest of one draft may then meet
  the files of another. `MaxApis = 4`: `GraphReviewIsExact` covers every graph of
  four APIs with at most one ambiguous source; its theorem covers every number.
- `invocation`: `MaxTokens = 3` reaches every table that completion uses, for
  global options before, between and after the words of a command; a line goes
  beyond it only towards one of the goals. The user extends only known lines and
  gives no option as the value of another. The two plugins have a command with
  an optional region, parameters with values, waiters, downloads and every kind
  of response. `MaxChanges = 1`: each property relates two looks at the machine,
  and one change between them separates those; a failing call counts as a change.
  The six environments vary the credentials and the warning control apart,
  since they are looked up apart. Only released builds (no bundled plugins of a source tree) and
  no `--columns` keys.

Deadlock checking is off in every run: commands are short-lived, and a system in
which all have ended stops.

## 6. Fairness

Safety runs use `Init /\ [][Next]`. Liveness is stated under weak fairness of
the program's own steps:

- `CmdFairSpec`: A process that is not killed is scheduled and
  its calls of the operating system return. Kills are not fair, and nothing is
  assumed of downloads, since `HTTPGetBytes` sets no deadline (`fetch.go:187`):
  fairness is that of `~Downloading(p) /\ Proceed(p)`, and `CommandsEnd` says
  that a command ends unless it waits for one download for ever.
- `ProductCommand!FairSpec`: `WF(Proceed(p))` and `WF(Expire(p))`, the steps
  that wait for no server, and the timer of an attempt. Nothing is assumed of
  the server, so `EndsByDeadline` speaks of commands with a deadline only.
- `Invocation!Spec`: a process that was started goes on unless it downloads
  (`<>[](Running /\ ~Downloading) => []<><<Process>>_vars`, weak fairness of
  `~Downloading /\ Process` with its `ENABLED` spelled out, since a running
  process always has a step), and the user does not give up (`WF(TryAgain)`).
  `RepairsEnd` lets a download take for ever, as `CommandsEnd` does. Nobody has to type, and other processes
  change things only `MaxChanges` times.
- `NetworkDoctor!FairSpec`: the coordinator runs, and each probe returns, which
  the `context.WithTimeout` of `runWave` guarantees.

## 7. What is proved

Every theorem holds for all values of the constants of its module, under the
named assumptions of that module, which TLC evaluates in each run.

| Module | Theorem | Statement |
|---|---|---|
| `PluginCommandsProofs` | `InductiveInvariant`, `TypeCorrect` | `Spec => []IInv`, `Spec => []TypeOK` |
| | `InstalledWhole` | `Spec => []InstalledIsWhole` |
| | `LastCopySurvives` | `Spec => NoPluginLost` |
| | `SuccessIsClean` | `Spec => []SuccessLeavesNothing` |
| | `RootComesClean` | `Spec => []CleanRoot` |
| | `StoreImplementsSlots` | `Spec => ImplementsSlots` |
| | `CommandsAreCalls` | `CmdSpec => Spec` |
| | `OverlapIsDelivered` | `CmdSpec => []OverlapDelivers` |
| | `FailuresHarmNothing`, `SuccessIsDelivered` | `CmdSpec => FailureHarmless`, `CmdSpec => SuccessDelivers` |
| `ConfigStoreProofs` | `StoreTyped` | `Spec => []TypeOK` |
| | `FileNeverMixed`, `SuccessExact`, `ResetKeeps` | `Spec => NeverMixed`, `Spec => SuccessIsExact`, `Spec => ResetLosesNothing` |
| `SelfUpgradeProofs` | `SignedIsInstalled` | `Spec => []OnlySigned` |
| | `ExecutableStays` | `Spec => []SingleFaultTolerated` |
| | `UpgradeImplementsSlots`, `OutcomesAreTrue` | `Spec => ImplementsSlots`, `Spec => OutcomeIsTrue` |
| `ProductCommandProofs` | `NothingOpen` | `Spec => []NoStrayResponse` |
| | `ExecutedAtMostOnce` | `Spec => []ExecutedOnce` |
| | `ReportedTruly` | `Spec => []SuccessIsTrue` |
| | `WholeIsPublished` | `Spec => PublishedWhole` |
| `NetworkDoctorProofs` | `DoctorTyped` | `Spec => []TypeOK` |
| | `EveryCheckIsTold` | `Spec => []EveryCheckReported` |
| | `ReportStaysTrue` | `Spec => []ReportIsTrue` |
| | `ProbesRest` | `Spec => ProbedOverPassed` |
| `ReleasePublicationProofs` | `EntriesSurvive` | `Spec => []EntriesPreserved` |
| | `PluginsServed` | `Spec => []PluginsAlwaysServed` |
| | `InstallableRelease` | `Spec => []ReleaseInstallable`, also with one version on several channels |
| `OpenAPIPipelineProofs` | `RequirementHolds` | `Spec => []RequirementCovers` |
| | `InterruptionsShow` | `Spec => []InterruptionIsSeen` |
| | `IdentityStays`, `GuidanceLeads` | `Spec => IdentityKept`, `Spec => GuidanceResolves` |
| | `AcceptedHasNoCycle` | a graph of recommendations that the review accepts has no cycle, for every finite graph |
| | `ReviewReportsCycles` | the review of any catalogs reports exactly their cycles, each once, its least API first |
| | `CyclesReportedOnce` | `Spec => []GraphReviewIsExact`, for every `MaxApis` |
| | `AcceptedUnlessCyclic` | catalogs without ambiguity and without a cycle are accepted |
| | `SettledStaysAcyclic` | `Spec => []SettledIsAcyclic`, whatever catalogs are harvested, and how often |
| `InvocationProofs` | `InvocationInvariant` | `Spec => []IInv` |
| | `HealthReportIsTrue` | `Spec => []HealthIsTrue` |
| | `ExplanationIsUsed` | `Spec => []ExplainIsUsed`, for every environment |
| | `RepairsDoRepair` | the commands that repair the configuration or a plugin do so, or were stopped by one of the causes named: the safety part of `RepairsEnd` |

Each proof rests on an inductive invariant with one lemma for each action.

**`PluginStore`.** Jobs and plugins are different (`JobsAssumption`), the
required files are files and there are some (`FilesAssumption`), versions are
positive (`VersionsAssumption`). `InstalledIsWhole` is not inductive: a rename
makes a directory an installed one, so it must have been whole before
(`ReadyIsWhole`, `BackupIsWhole`), and a deletion that goes on must not hold it
(`HandleJustified`), which in turn needs to know whose backup is whose
(`BackupsOwned`), that a deletion of another job's backup was asked for
(`RemovalsAsked`), and that a job that has not begun owns nothing
(`IdleIsBlank`). `IInv` is the conjunction; `IInvStep` puts the lemmas together
along `NextCases`. `LastCopySurvives` is an action property. It needs a second
invariant over `IInv`, `CopiesSecure`: a plugin that has a copy has a secure
one, which no deletion in progress can reach. `SecureKept` shows that a step
replaces a secure copy at worst by another one, and `CopyAppears` that a step
which brings the first copy of a plugin brings a secure one.

What success leaves behind needs `SInv` over `IInv`: every temporary or backup
name has an owner, a job sets aside one directory, no deletion reaches a
temporary directory but its own job's, and, as long as no call has failed, an
installed directory with files missing is in the hands of the call that deletes
it (`DamageHeld`). The refinement of `PluginSlots` maps a directory to its slot;
each action of the store is a step or a stutter of the abstract one.

**`PluginCommands`.** `CommandsAreCalls` says that whatever commands do, the
directory sees only behaviours of `PluginStore`: a task starts when its job is
idle, with a version that is known, on an entry that is there. So all theorems
of `PluginStore` hold under any number of commands. The invariant `CInv` counts
targets, checks and results. `OverlapIsDelivered` uses it with `SInv` and an
account of what each finished job made of its plugin.

`FailuresHarmNothing` and `SuccessIsDelivered` are about a command that runs
alone, over its whole life. `TurnInv` says what being alone gives: no other
command runs (`AloneIs`), so that every call that runs is its own (`CallsRun`),
and what its RemoveAll opened keeps its name (`HandleHere`). `TidyRun` says what
such a command knows of a directory that was tidy when it began: every plugin's
directory is whole (`DirWhole`), in a version the command may leave
(`Versioned`), what was served is there or set aside where it is not deleted
(`Kept`), the look-ups told what was served (`ChecksTrue`), and nothing else is
left as long as nothing failed (`Orderly`). `MetRun` adds that each target dealt
with is served as promised, but for the moment in which a repeated name is
replaced once more; it needs no tidy directory for `reinstall`. `RemoveRun` does
the same for removals: entries removed do not come back, and `--all` had listed
everything (`ListingsAreComplete`, from the counting of a finite set).
`CallEffect` and `RemovalEffect` reduce the thirteen steps of a call to what they
do to names and files, and `Turn` reduces a step of any process to the command's
being entered, its own step, or a step that does not touch it.

Assumptions besides those of
the store: jobs are the tasks of the processes (`TasksAssumption`), there are
finitely many processes and plugins (`FinitenessAssumption`: a directory can be
listed), and requests name at most `MaxTargets` plugins (`RequestsAssumption`).

**`ConfigStore`.** `Follows` ties what a process will write to what it read,
and `Held` says what a command that nobody disturbs can rely on at the file and
the backups, step by step through `reset`.

**`SelfUpgrade`.** `IInv` knows whose binary is at which place, that an index
was verified before it is used, and why the executable may be gone: a process
is between its two renames, was killed there, or has failed twice.

**`ProductCommand`.** The invariant `Good` is about one process and its
temporary file: processes meet only at the destination. `SentOnce` and
`Executed` count executions along the attempts; `Polled` keeps that every answer
so far was pending.

**`NetworkDoctor`.** The plan comes first: `BuildFits` shows of every input that
`Build` plans each check once, that dependencies are planned and go down in
`Rank`, that a verification rests on the key and on the index and signature of its
candidate, and that it is summed up under the capability of its source. The
lemmas about flattening and adding once are inductions over the length of a
list, by the least counterexample (`LeastNumber`). Over it `DInv` keeps that every result has
its reason (`Justified`), that the wave rests on what has passed (`Probing`), what
the coordinator has still before it (`Waits`), what the observer was told
(`Told`), and that a report is that of the final results (`Reported`).
`Completes` is what recording one result changes, for skipped and probed checks
alike. The causes are a recursive function over dependencies:
`RootsEquation` finds its solution in five rounds, one for each rank, and
`RootIsFailed` and `RootInChain` say what the cause is. Assumed: the inputs are
sequences, subjects of sources are distinct and none is `ctyun`
(`DoctorAssumption`; `runDoctor` names them `core` and `plugin`).

**`ReleasePublication`.** The three properties have an invariant each, since
each sees another part of an index: its keys (`EntriesPreserved`), the plugin
entries with the archives packed so far (`PluginsAlwaysServed`), and the core
entries with the archives and what was written since their index
(`ReleaseInstallable`: `unindexed`). No hypothesis is made about versions and
channels; what the maintainers' rule about versions gives stands in
`PluginsAlwaysServed` itself (`PackedOnce`). Assumed of
the constants: finitely many plugins, releases are records, platform lists are
sequences.

**`OpenAPIPipeline`.** `Required` says that the manifests of plugin and draft
cover the plugin *whatever mixture of files it is*, because a promotion can be
interrupted anywhere and a later one begins over the remains. `Running` keeps
that a promotion writes what was reviewed: no command changes a draft
meanwhile. `Interrupted` has two parts: without interruption all files not yet
written are the baseline's (`Unbroken`); after one, a plugin that loads with the
baseline's fingerprint is the baseline's (`Seen`). It is not inductive for two
interruptions, and the property is false there (section 5). The proof of
`SettledStaysAcyclic` follows the last promotion: its review found the graph
acyclic, and what is settled since has not changed.

That an accepted graph has no cycle (`AcceptedHasNoCycle`) is an induction over
the recursive walk. The induction theorems of the library cannot be used with
these provers, but the least member of a set of numbers can (`LeastNumber`,
from the well-foundedness of `<`). So the walk and the loop over the sources are
first shown to have solutions (`WalkEquation`, `ReviewEquation`: the longest path,
the least end without one), then to have explored every path from a source
(`PathExplored`, `VisitExplores`, `ReviewExplores`: the least counterexample).
The lemmas take the APIs as finitely many numbers and the products as finitely
many (`PipelineAssumption`).

That it reports every cycle, and each once (`ReviewReportsCycles`), needs an
invariant of the loop, `Exact`: what was visited is closed under edges, and the
cycles found so far are those of the visited APIs, written from their least API
on, no two of them with an API in common. A walk ends at an API without an edge,
at one an earlier walk visited, or at one of its own path; only in the last case
does it close a cycle, and that cycle has no visited API, so it is new
(`VisitStaysExact`). `Ring` is a sequence whose edges close it. Two sequences
that start at the same API and follow the same edges are equal
(`StepsOn`), and the rotation that `canonicalCycle` makes starts at the least
(`CanonicalIsRing`, with its index arithmetic in `AfterIsNext`). What a cycle is
comes from the abstract side, without any walk: an API is on a cycle if it is in
every set that holds its target and that edges do not leave (`OnCycle`). `AcceptedUnlessCyclic` is the converse
of `AcceptedHasNoCycle`: no refusal without a cause.

`settled` is history, and not the comparison of a source with its baseline: a
product whose evidence returns to its baseline has nothing to promote, but nobody
has reviewed it with what the others have become meanwhile, and a cycle may be
there. The code cannot tell the two: it records a source revision only "when
upstream exposes it" (`internal/openapipipeline/model.go:37`).

**`Invocation`.** The data come first. `FirstGiven` and its instances say what
the order of candidates gives, so that `CredentialsAgree` and `ControlsAgree` can
compare the two places where precedence is computed: `Inspect` looks at profile
and file one by one, a command at a profile into which `ApplyProfileDefaults` has
put the file's values. They agree because both take the same profile
(`ResolvesToProfile`) and because that profile has all its fields: this is the
assumption about files (`IsConfig`, part of `InvocationAssumption`), which
the Go types give. `HealthyConfiguration` inverts the findings: where none of
them failed, the file resolves and both credentials are there.

`ExplainOutcome` shows from `Outcome` that a `config explain`, whatever options
it has, never needs a plugin and runs only where the file resolves. The
invariant is about one process between its looks at the machine. `Witnessed`: what
is there has been seen, and the process read it from there. `Diagnosed`: the
findings so far are those of a file seen in this run (one that was missing at the
first look counts as read, one that vanished before the second has failed), and
each plugin is still to be looked at, or was sound once, or has made the report
fail. `Explained`: the explanation is that of the file that was read. Other
processes may change files and plugins between any two steps: `HealthStays`
holds because what was seen stays seen. Nothing is assumed about the line but that
it is one of `Goals` or a repair.

`RepairsDoRepair` is what `RepairsEnd` rests on besides fairness. `RepairsSplit`
follows three lines token by token through `ParseGlobals`; `ResetRuns` and
`PluginRepairRuns` compute their outcome for all bundles, broken plugins and
configurations at once: `config reset --yes` is refused only where the file cannot
be read, and `plugin remove` and `plugin install` for that or where the
configuration does not resolve. `Repairing` carries this through the steps of the
process to the file and the plugin that it leaves behind; a repair that was let in
fails only over a file that became unreadable, over a bundle that does not load
(`install`), or after a failing call or a change by another process (`Stopped`).

The models were changed where they could not be reasoned about: the decisions
`Verdict` (`PluginCommands`) and `DependsOn` (`NetworkDoctor`) had overlapping
guards whose order mattered, and now exclude each other; the search for cycles,
the plan of the doctor and the parsers of core commands and global options are
recursive functions where they were folds; what the doctor's coordinator has
still to record, and the plugins that a process has still to load, are sets,
taken in their order; the first candidate with a value is chosen by its position;
and `OnCycle` says what a cycle is without computing one.

Since `TypeCorrect`, `StoreTyped` and `DoctorTyped` are proved, no run checks the
type invariants of `PluginStore`, `ConfigStore` and `NetworkDoctor`; the types of the other modules
are the first conjuncts of the proofs' invariants.

## 8. What is only model-checked, and what is not modelled

Out of the prover's reach and left to TLC:

- liveness under fairness and `ENABLED`: `CommandsEnd`, `EndsByDeadline`,
  `DoctorEnds`, `RepairsEnd` (of which `RepairsDoRepair` is the safety part);
- what folds compute over tokens and tables: `OfferedIsKnown` compares two
  parsers over every line, and for arbitrary bundles it needs rules of bundle
  validation that are not modelled (a command's words must not look like
  options, for instance);
- operators declared `RECURSIVE`: there are none in these modules; `Roots`,
  `AddEach`, `Walk`, `ReviewUpTo` and the two parsers are recursive functions.

Every other property of a passing run is stated by a theorem of section 7.
`EveryCheckReported` is proved and not run: the loop that counts and
announces checks is short.
`UpdateRaises` and `DeletedIsBackedUp` are the two texts that the code
contradicts, and have counterexamples instead.

In the models, and excluded by no property because the code does nothing about it:
a kill in the middle of writing the configuration leaves part of it;
a configuration command that reads the file after another one has truncated it and
before that writes (`config_command.go:515`) makes its change of an empty
configuration; of two overlapping upgrades the one that decided first may install
its older version over the newer one of the other (`upgrade_command.go:59`); a
command that waits for a silent server has no end.

Abstracted within the models: power failure (a kill leaves the directory as it
is); formatting, tables and the text of help; channels and platforms in
`PluginCommands` and `SelfUpgrade` (two commands may see different indexes);
signing of requests; categories and durations of failed probes; in `CommandLine`
the conversion of request values and the keys of `--columns`; in
`ConfigResolution` the names of languages and files; in `OpenAPIPipeline` the
wording of a draft, its examples and labels. Two endpoints whose origins differ
only in punctuation share one capability of the network doctor, because
`stableID` maps both to one name; the model takes origins as names and does not
show this.

Of the pipeline the model shows, without a property: promoting another product
later can leave an earlier recommendation without its command; a torn promoted
`plugin.json` stops every later generation of the product; a draft made before the version was
raised takes it back (`IdentityKept` excludes it by `raised`); review looks at
the sources of all products, not at their promoted bundles. Not in the model:
`diff` treats any unreadable baseline as none.

Not modelled: the rules for each field of plugin metadata (a bundle loads when
its required files are there and valid), API contracts and JSON values (pure
conversions), shell completion scripts, installation scripts and development
tools.

## 9. Plan

1. Bundle validation (`plugin.go`): which metadata can be loaded, as the
   assumption that `ProductCommand` makes of waiters and retries.
