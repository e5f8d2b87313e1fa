--------------------------- MODULE InvocationProofs ---------------------------
(***************************************************************************)
(* Theorems about one ctyun process at a terminal: what config explain and *)
(* doctor local report is true, whatever the line, the configuration, the  *)
(* environment and the plugins are and whatever other processes do.        *)
(***************************************************************************)
EXTENDS Invocation, FiniteSetTheorems, SequenceTheorems, TLAPS

-----------------------------------------------------------------------------
(* Precedence.                                                             *)

\* The first candidate that has a value wins.
LEMMA FirstGiven ==
    ASSUME NEW cs, NEW n \in Nat, DOMAIN cs = 1..n, NEW i \in 1..n,
           cs[i].value # Unset, \A j \in 1..n : j < i => cs[j].value = Unset
    PROVE  FirstCandidate(cs) = cs[i]
  <1> DEFINE given == { k \in DOMAIN cs : cs[k].value # Unset }
             first == CHOOSE k \in given : \A j \in given : k <= j
  <1>1. i \in given /\ \A j \in given : i <= j
    OBVIOUS
  <1>2. first \in given /\ \A j \in given : first <= j
    BY <1>1
  <1>3. first = i
    BY <1>1, <1>2
  <1> QED  BY <1>1, <1>3 DEF FirstCandidate

\* Where no candidate has a value the setting is unset.
LEMMA FirstMissing ==
    ASSUME NEW cs, \A i \in DOMAIN cs : cs[i].value = Unset
    PROVE  FirstCandidate(cs) = Candidate(Unset, "unset")
  BY DEF FirstCandidate

\* The precedence of one, two, three or four candidates.
LEMMA FirstOfOne ==
    ASSUME NEW a
    PROVE  FirstCandidate(<<a>>) = IF a.value # Unset THEN a ELSE Candidate(Unset, "unset")
  <1> DEFINE cs == <<a>>
  <1>1. DOMAIN cs = 1..1 /\ cs[1] = a
    OBVIOUS
  <1> HIDE DEF cs
  <1>2. CASE a.value # Unset
    <2>1. 1 \in 1..1 /\ \A j \in 1..1 : j < 1 => cs[j].value = Unset
      OBVIOUS
    <2>2. FirstCandidate(cs) = cs[1]
      BY <1>1, <1>2, <2>1, FirstGiven
    <2> QED  BY <1>1, <1>2, <2>2 DEF cs
  <1>3. CASE a.value = Unset
    <2>1. \A i \in DOMAIN cs : cs[i].value = Unset
      BY <1>1, <1>3
    <2> QED  BY <1>3, <2>1, FirstMissing DEF cs
  <1> QED  BY <1>2, <1>3

LEMMA FirstOfTwo ==
    ASSUME NEW a, NEW b
    PROVE  FirstCandidate(<<a, b>>) =
              IF a.value # Unset THEN a
              ELSE IF b.value # Unset THEN b ELSE Candidate(Unset, "unset")
  <1> DEFINE cs == <<a, b>>
  <1>1. DOMAIN cs = 1..2 /\ cs[1] = a /\ cs[2] = b
    OBVIOUS
  <1> HIDE DEF cs
  <1>2. CASE a.value # Unset
    <2>1. 1 \in 1..2 /\ \A j \in 1..2 : j < 1 => cs[j].value = Unset
      BY <1>1, <1>2
    <2>2. FirstCandidate(cs) = cs[1]
      BY <1>1, <1>2, <2>1, FirstGiven
    <2> QED  BY <1>1, <1>2, <2>2 DEF cs
  <1>3. CASE a.value = Unset /\ b.value # Unset
    <2>1. 2 \in 1..2 /\ \A j \in 1..2 : j < 2 => cs[j].value = Unset
      BY <1>1, <1>3
    <2>2. FirstCandidate(cs) = cs[2]
      BY <1>1, <1>3, <2>1, FirstGiven
    <2> QED  BY <1>1, <1>3, <2>2 DEF cs
  <1>4. CASE a.value = Unset /\ b.value = Unset
    <2>1. \A i \in DOMAIN cs : cs[i].value = Unset
      BY <1>1, <1>4
    <2> QED  BY <1>4, <2>1, FirstMissing DEF cs
  <1> QED  BY <1>2, <1>3, <1>4

LEMMA FirstOfThree ==
    ASSUME NEW a, NEW b, NEW c
    PROVE  FirstCandidate(<<a, b, c>>) =
              IF a.value # Unset THEN a
              ELSE IF b.value # Unset THEN b
              ELSE IF c.value # Unset THEN c ELSE Candidate(Unset, "unset")
  <1> DEFINE cs == <<a, b, c>>
  <1>1. DOMAIN cs = 1..3 /\ cs[1] = a /\ cs[2] = b /\ cs[3] = c
    OBVIOUS
  <1> HIDE DEF cs
  <1>2. CASE a.value # Unset
    <2>1. 1 \in 1..3 /\ \A j \in 1..3 : j < 1 => cs[j].value = Unset
      BY <1>1, <1>2
    <2>2. FirstCandidate(cs) = cs[1]
      BY <1>1, <1>2, <2>1, FirstGiven
    <2> QED  BY <1>1, <1>2, <2>2 DEF cs
  <1>3. CASE a.value = Unset /\ b.value # Unset
    <2>1. 2 \in 1..3 /\ \A j \in 1..3 : j < 2 => cs[j].value = Unset
      BY <1>1, <1>3
    <2>2. FirstCandidate(cs) = cs[2]
      BY <1>1, <1>3, <2>1, FirstGiven
    <2> QED  BY <1>1, <1>3, <2>2 DEF cs
  <1>4. CASE a.value = Unset /\ b.value = Unset /\ c.value # Unset
    <2>1. 3 \in 1..3 /\ \A j \in 1..3 : j < 3 => cs[j].value = Unset
      BY <1>1, <1>4
    <2>2. FirstCandidate(cs) = cs[3]
      BY <1>1, <1>4, <2>1, FirstGiven
    <2> QED  BY <1>1, <1>4, <2>2 DEF cs
  <1>5. CASE a.value = Unset /\ b.value = Unset /\ c.value = Unset
    <2>1. \A i \in DOMAIN cs : cs[i].value = Unset
      BY <1>1, <1>5
    <2> QED  BY <1>5, <2>1, FirstMissing DEF cs
  <1> QED  BY <1>2, <1>3, <1>4, <1>5

\* The last of four candidates is a default, which has a value.
LEMMA FirstOrDefault ==
    ASSUME NEW a, NEW b, NEW c, NEW d, d.value # Unset
    PROVE  FirstCandidate(<<a, b, c, d>>) =
              IF a.value # Unset THEN a
              ELSE IF b.value # Unset THEN b
              ELSE IF c.value # Unset THEN c ELSE d
  <1> DEFINE cs == <<a, b, c, d>>
  <1>1. DOMAIN cs = 1..4 /\ cs[1] = a /\ cs[2] = b /\ cs[3] = c /\ cs[4] = d
    OBVIOUS
  <1> HIDE DEF cs
  <1>2. CASE a.value # Unset
    <2>1. 1 \in 1..4 /\ \A j \in 1..4 : j < 1 => cs[j].value = Unset
      BY <1>1, <1>2
    <2>2. FirstCandidate(cs) = cs[1]
      BY <1>1, <1>2, <2>1, FirstGiven
    <2> QED  BY <1>1, <1>2, <2>2 DEF cs
  <1>3. CASE a.value = Unset /\ b.value # Unset
    <2>1. 2 \in 1..4 /\ \A j \in 1..4 : j < 2 => cs[j].value = Unset
      BY <1>1, <1>3
    <2>2. FirstCandidate(cs) = cs[2]
      BY <1>1, <1>3, <2>1, FirstGiven
    <2> QED  BY <1>1, <1>3, <2>2 DEF cs
  <1>4. CASE a.value = Unset /\ b.value = Unset /\ c.value # Unset
    <2>1. 3 \in 1..4 /\ \A j \in 1..4 : j < 3 => cs[j].value = Unset
      BY <1>1, <1>4
    <2>2. FirstCandidate(cs) = cs[3]
      BY <1>1, <1>4, <2>1, FirstGiven
    <2> QED  BY <1>1, <1>4, <2>2 DEF cs
  <1>5. CASE a.value = Unset /\ b.value = Unset /\ c.value = Unset
    <2>1. 4 \in 1..4 /\ \A j \in 1..4 : j < 4 => cs[j].value = Unset
      BY <1>1, <1>5
    <2>2. FirstCandidate(cs) = cs[4]
      BY <1>1, <1>5, <2>1, FirstGiven
    <2> QED  BY <1>1, <1>5, <2>2 DEF cs
  <1> QED  BY <1>2, <1>3, <1>4, <1>5
-----------------------------------------------------------------------------
(* Resolution.                                                             *)

IsProfile(p) ==
    p = [region |-> p.region, language |-> p.language, endpoint |-> p.endpoint,
         ak |-> p.ak, sk |-> p.sk, warn |-> p.warn]

\* What a file holds once it is loaded.
LEMMA LoadedIsConfig ==
    ASSUME NEW content \in Files
    PROVE  IsConfig(Loaded(content))
  <1>1. CASE content \in {Missing, Torn, Unreadable}
    <2>1. Loaded(content) = NoConfig
      BY <1>1 DEF Loaded, IsWhole, Missing, Torn, Unreadable
    <2>2. DOMAIN NoConfig.profiles = {}
      BY DEF NoConfig
    <2> QED  BY <2>1, <2>2 DEF IsConfig, NoConfig
  <1>2. CASE content = Whole(content.holds) /\ IsConfig(content.holds)
    BY <1>2 DEF Loaded, IsWhole, Whole
  <1> QED  BY <1>1, <1>2, InvocationAssumption

\* A profile that is selected is one of the configuration's.
LEMMA SelectedIsThere ==
    ASSUME NEW cfg, NEW option,
           SelectProfile(cfg, option).name # Unset
    PROVE  SelectProfile(cfg, option).name \in DOMAIN cfg.profiles
  <1> DEFINE names == DOMAIN cfg.profiles
             wanted == FirstCandidate(<<Candidate(option, "option"), Candidate(cfg.active, "config")>>)
             single == wanted.value = Unset /\ Cardinality(names) = 1
  <1>1. single => \E n \in names : TRUE
    <2>1. SUFFICES ASSUME Cardinality(names) = 1, names = {} PROVE FALSE
      OBVIOUS
    <2> QED  BY <2>1, FS_EmptySet
  <1>2. SelectProfile(cfg, option).name =
            CASE wanted.value \in names -> wanted.value
              [] single                 -> CHOOSE n \in names : TRUE
              [] OTHER                  -> Unset
    BY DEF SelectProfile
  <1> HIDE DEF names, wanted
  <1>3. CASE wanted.value \in names
    <2>1. ~single \/ SelectProfile(cfg, option).name \in names
      BY <1>1, <1>2
    <2> QED  BY <1>2, <1>3, <2>1 DEF names
  <1>4. CASE wanted.value \notin names
    BY <1>1, <1>2, <1>4 DEF names
  <1> QED  BY <1>3, <1>4

\* Where a configuration resolves, settings and profile come from one and the
\* same profile of what was loaded.
LEMMA ResolvesToProfile ==
    ASSUME NEW input, input.file \in Files, ~ResolveFails(input)
    PROVE  \E profile, name :
              /\ IsProfile(profile)
              /\ Inspect(input).profile = WithDefaults(Loaded(input.file), profile)
              /\ Inspect(input).settings = Settings(input, Loaded(input.file), TRUE, name, profile)
  <1> DEFINE cfg == Loaded(input.file)
             selected == SelectProfile(cfg, input.profile)
             profile == IF selected.name # Unset THEN cfg.profiles[selected.name] ELSE NoProfile
  <1>1. /\ ~LoadFails(input.file) /\ ~selected.fails
        /\ Inspect(input) = InspectSelected(input, cfg, selected)
    BY DEF ResolveFails, Inspect, InspectSelected
  <1>2. IsConfig(cfg)
    BY LoadedIsConfig
  <1>3. IsProfile(profile)
    <2>1. selected.name # Unset => selected.name \in DOMAIN cfg.profiles
      BY SelectedIsThere
    <2>2. IsProfile(NoProfile)
      BY DEF IsProfile, NoProfile
    <2> HIDE DEF cfg, selected
    <2> QED  BY <1>2, <2>1, <2>2 DEF IsConfig, IsProfile
  <1>4. /\ Inspect(input).profile = WithDefaults(cfg, profile)
        /\ Inspect(input).settings = Settings(input, cfg, TRUE, selected.name, profile)
    <2> DEFINE taken == [ configFails  |-> FALSE,
                          profileFails |-> FALSE,
                          profile      |-> WithDefaults(cfg, profile),
                          settings     |-> Settings(input, cfg, TRUE, selected.name, profile) ]
    <2>1. Inspect(input) = taken
      BY <1>1, Zenon DEF InspectSelected
    <2> HIDE DEF cfg, selected, profile
    <2> QED  BY <2>1
  <1> QED  BY <1>3, <1>4

\* A credential that is explained is the one that a command uses, and its source
\* is "unset" where there is none.
LEMMA CredentialsAgree ==
    ASSUME NEW input, input.file \in Files, ~ResolveFails(input), NEW key \in {"ak", "sk"}
    PROVE  LET explained == Inspect(input).settings[key]
               used == UsedCredential(input.env, Inspect(input).profile, key)
           IN  /\ explained.value = used.value
               /\ explained.source # "unset" => used.value # Unset
  <1>1. PICK profile, name :
           /\ IsProfile(profile)
           /\ Inspect(input).profile = WithDefaults(Loaded(input.file), profile)
           /\ Inspect(input).settings = Settings(input, Loaded(input.file), TRUE, name, profile)
    BY ResolvesToProfile
  <1> DEFINE cfg == Loaded(input.file)
             stored == WithDefaults(cfg, profile)[key]
  <1>2. Inspect(input).settings[key] =
            FirstCandidate(<<Candidate(input.env[key], "environment"),
                             Candidate(profile[key], "profile"),
                             Candidate(cfg[key], "config")>>)
    <2> HIDE DEF cfg
    <2>1. Settings(input, cfg, TRUE, name, profile)[key] =
            FirstCandidate(<<Candidate(input.env[key], "environment"),
                             If(TRUE, profile[key], "profile"),
                             If(TRUE, cfg[key], "config")>>)
      <3>1. CASE key = "ak"
        BY <3>1 DEF Settings
      <3>2. CASE key = "sk"
        BY <3>2 DEF Settings
      <3> QED  BY <3>1, <3>2
    <2> QED  BY <1>1, <2>1 DEF If, cfg
  <1>3. stored = IF profile[key] = Unset THEN cfg[key] ELSE profile[key]
    <2> HIDE DEF cfg
    <2> QED  BY <1>1 DEF IsProfile, WithDefaults
  <1>4. UsedCredential(input.env, Inspect(input).profile, key) =
            FirstCandidate(<<Candidate(input.env[key], "environment"), Candidate(stored, "config")>>)
    BY <1>1 DEF UsedCredential
  <1> HIDE DEF cfg, stored
  <1> QED  BY <1>2, <1>3, <1>4, FirstOfTwo, FirstOfThree DEF Candidate

\* So are the region, and the warning control unless the environment's control
\* is blank.
LEMMA ControlsAgree ==
    ASSUME NEW input, input.file \in Files, ~ResolveFails(input)
    PROVE  LET explained == Inspect(input).settings
               profile == Inspect(input).profile
           IN  /\ explained.region.value = profile.region
               /\ Trimmed(input.env.warn) = input.env.warn =>
                     explained.warn.value = UsedWarning(input.env, profile)
  <1>1. PICK profile, name :
           /\ IsProfile(profile)
           /\ Inspect(input).profile = WithDefaults(Loaded(input.file), profile)
           /\ Inspect(input).settings = Settings(input, Loaded(input.file), TRUE, name, profile)
    BY ResolvesToProfile
  <1> DEFINE cfg == Loaded(input.file)
             text == input.env.warn
             control == IF text = Unset THEN Unset ELSE WarningBool(text)
  <1>2. /\ Inspect(input).settings.region = FirstCandidate(<<Candidate(profile.region, "profile")>>)
        /\ Inspect(input).settings.warn =
              FirstCandidate(<<Candidate(control, "environment"), Candidate(profile.warn, "profile"),
                               Candidate(cfg.warn, "config"), Candidate("true", "default")>>)
    BY <1>1 DEF Settings, If
  <1>3. /\ WithDefaults(cfg, profile).region = profile.region
        /\ WithDefaults(cfg, profile).warn = IF profile.warn = Unset THEN cfg.warn ELSE profile.warn
    <2> HIDE DEF cfg
    <2> QED  BY <1>1 DEF IsProfile, WithDefaults
  <1>4. text # Unset => control # Unset
    BY DEF WarningBool, Unset
  <1>5. Trimmed(text) = text =>
            UsedWarning(input.env, Inspect(input).profile) =
                IF control # Unset THEN control
                ELSE IF profile.warn # Unset THEN profile.warn
                ELSE IF cfg.warn # Unset THEN cfg.warn ELSE "true"
    <2> HIDE DEF cfg
    <2> QED  BY <1>1, <1>3, <1>4 DEF UsedWarning, cfg
  <1>6. Inspect(input).settings.warn.value =
            IF control # Unset THEN control
            ELSE IF profile.warn # Unset THEN profile.warn
            ELSE IF cfg.warn # Unset THEN cfg.warn ELSE "true"
    <2> HIDE DEF cfg, control
    <2>1. Candidate("true", "default").value # Unset
      BY DEF Candidate, Unset
    <2> QED  BY <1>2, <2>1, FirstOrDefault DEF Candidate
  <1>7. Inspect(input).settings.region.value = profile.region
    BY <1>2, FirstOfOne DEF Candidate
  <1> HIDE DEF cfg, control
  <1> QED  BY <1>1, <1>3, <1>5, <1>6, <1>7 DEF cfg

\* Findings none of which failed are those of a configuration that was there, or
\* of none, that resolves and has credentials.
LEMMA HealthyConfiguration ==
    ASSUME NEW tag \in {"missing", "blocked", "read"}, NEW input, input.file \in Files, NEW open,
           tag = "missing" => input.file = Missing,
           \A k \in DOMAIN ConfigFindings(tag, input, open) : ConfigFindings(tag, input, open)[k] # "failed"
    PROVE  /\ tag # "blocked"
           /\ ~ResolveFails(input)
           /\ ~CredentialsFail(input.env, Inspect(input).profile)
  <1> DEFINE inspection == Inspect(input)
             findings == ConfigFindings(tag, input, open)
  <1>1. /\ findings.config_file = FileFinding(tag, input, open)
        /\ findings.profile = IF tag = "blocked" \/ inspection.configFails THEN "skipped"
                              ELSE IF inspection.profileFails THEN "failed"
                              ELSE IF inspection.settings.profile = Unset THEN "skipped" ELSE "passed"
        /\ findings.credentials = CredentialFinding(tag, inspection)
        /\ {"config_file", "profile", "credentials"} \subseteq DOMAIN findings
    BY DEF ConfigFindings
  <1> HIDE DEF inspection, findings
  <1>2. /\ FileFinding(tag, input, open) # "failed"
        /\ findings.profile # "failed" /\ CredentialFinding(tag, inspection) # "failed"
    BY <1>1 DEF findings
  <1>3. tag # "blocked"
    BY <1>2 DEF FileFinding
  <1>4. ~LoadFails(input.file)
    <2>1. CASE tag = "missing"
      BY <2>1 DEF LoadFails, Missing, Torn
    <2>2. CASE tag = "read"
      BY <2>2, <1>2 DEF FileFinding
    <2> QED  BY <1>3, <2>1, <2>2
  <1>5. ~inspection.configFails
    BY <1>4 DEF inspection, Inspect, InspectSelected
  <1>6. ~inspection.profileFails
    BY <1>1, <1>2, <1>3, <1>5
  <1>7. ~ResolveFails(input)
    BY <1>5, <1>6 DEF ResolveFails, inspection
  <1>8. \A key \in {"ak", "sk"} : inspection.settings[key].source # "unset"
    <2>1. "unset" \notin { inspection.settings.ak.source, inspection.settings.sk.source }
      BY <1>2, <1>3, <1>5, <1>6 DEF CredentialFinding
    <2> QED  BY <2>1
  <1>9. ASSUME NEW key \in {"ak", "sk"}
        PROVE  UsedCredential(input.env, Inspect(input).profile, key).value # Unset
    BY <1>7, <1>8, CredentialsAgree DEF inspection
  <1> QED  BY <1>3, <1>7, <1>9 DEF CredentialsFail
-----------------------------------------------------------------------------
(* What the line decides.                                                  *)

\* Words are told apart by their names.
LEMMA OneWord ==
    ASSUME NEW args, NEW i, NEW names, NEW name, args[i] = Word(name), name \notin names
    PROVE  ~Is(args, i, names)
  <1>1. ASSUME NEW other \in names, Word(other) = Word(name) PROVE FALSE
    <2>1. Word(other).name = other /\ Word(name).name = name
      BY DEF Word, Token
    <2> QED  BY <1>1, <2>1
  <1> QED  BY <1>1 DEF Is, Words

\* A line that explains the configuration diagnoses nothing.
LEMMA ExplainsOnly ==
    ASSUME Explains
    PROVE  /\ ~Diagnoses
           /\ Args[1] = Word("config") /\ Args[2] = Word("explain") /\ Len(Args) >= 2
  <1>1. Args[1] = Word("config") /\ Args[2] = Word("explain") /\ Len(Args) >= 2
    BY DEF Explains, Is, Words
  <1>2. ~Is(Args, 1, {"doctor"})
    <2>1. "config" \notin {"doctor"}
      OBVIOUS
    <2> QED  BY <1>1, <2>1, OneWord
  <1> QED  BY <1>1, <1>2 DEF Diagnoses, IsDoctorLocal

\* A line that explains the configuration needs no plugin, and it runs only
\* where the configuration resolves.
LEMMA ExplainOutcome ==
    ASSUME Explains, NEW broken, NEW fails \in BOOLEAN, NEW torn
    PROVE  /\ Outcome(line, <<>>, broken, fails, torn) # "plugin"
           /\ Outcome(line, <<>>, broken, fails, torn) = "runs" => ~fails
  <1> DEFINE args == Args
             opts == Parsed.opts
             yes == "yes" \in DOMAIN opts
             helps == "help" \in DOMAIN opts
             rest == From(args, 3)
             named == "profile" \in DOMAIN opts
  <1>1. /\ args[1] = Word("config") /\ args[2] = Word("explain") /\ Len(args) >= 2
        /\ Is(args, 1, {"config"}) /\ Is(args, 2, {"explain"})
    BY ExplainsOnly DEF Explains
  <1>2. /\ ~Is(args, 1, {"help"}) /\ ~Is(args, 1, {"doctor"}) /\ ~Is(args, 1, {"version"})
        /\ ~Is(args, 1, {"completion"}) /\ ~Is(args, 1, {"update", "upgrade"})
        /\ ~Is(args, 1, {"plugin", "plugins"})
        /\ ~Is(args, 1, {"completion", "help", "update", "upgrade", "version"})
        /\ ~Is(args, 2, {"profile", "profiles"})
    BY <1>1, OneWord
  <1> HIDE DEF args, opts
  <1>3. \A values, least, most : Positionals(values, least, most) \notin {"plugin", "config"}
    BY DEF Positionals
  <1>4. /\ GlobalsOutcome(Parsed) # "plugin" /\ Scope(args, opts) # "plugin"
        /\ Scope(args, opts) = "runs" => "version" \notin DOMAIN opts
    <2>1. GlobalsOutcome(Parsed) # "plugin"
      BY DEF GlobalsOutcome
    <2>2. Scope(args, opts) # "plugin"
      BY DEF Scope
    <2>3. ~GlobalAllowed(args, "version")
      <3>1. args # <<>>
        BY <1>1
      <3> QED  BY <3>1 DEF GlobalAllowed
    <2>4. Scope(args, opts) = "runs" => "version" \notin DOMAIN opts
      BY <2>3 DEF Scope
    <2> QED  BY <2>1, <2>2, <2>4
  <1>5. HelpOutcome(<<>>, broken, args) \notin {"plugin", "runs"}
    <2>1. HelpOutcome(<<>>, broken, args) \in
              {"help", Shown(Positionals(From(args, 4), 0, 0)), Shown(Positionals(From(args, 3), 0, 0)),
               Shown(Positionals(From(args, 2), 0, 0))}
      <3>1. Is(args, 2, ConfigSubcommands \ {"profile", "profiles"})
        BY <1>1 DEF Is, ConfigSubcommands, Words
      <3>2. args # <<>>
        BY <1>1
      <3> QED  BY <1>1, <1>2, <3>1, <3>2 DEF HelpOutcome
    <2> QED  BY <1>3, <2>1 DEF Shown, AndThen
  <1>6. /\ ConfigOutcome(args, named, yes, fails, torn) # "plugin"
        /\ ConfigOutcome(args, named, yes, fails, torn) = "runs" => ~fails
    <2> DEFINE least == Arity["explain"][1]
               most == Arity["explain"][2]
    <2>1. /\ Word("explain").dash = "" /\ Word("explain").name = "explain"
          /\ "explain" \in DOMAIN Arity
      BY DEF Word, Token, Arity
    <2>2. /\ Word("explain") \notin Words({"profile", "profiles"})
          /\ Word("explain") # Word("reset") /\ Word("explain") \notin Words({"path", "reset"})
      BY DEF Word, Token, Words
    <2>3. ConfigOutcome(args, named, yes, fails, torn) =
             AndThen(Positionals(rest, least, most),
                 IF fails THEN "config"
                 ELSE IF \/ rest # <<>> /\ Head(rest) \notin Words(SettingKeys)
                         \/ UnknownKey(args, named)
                 THEN "unsupported value" ELSE "runs")
      <3>1. Len(args) # 1
        BY <1>1
      <3> HIDE DEF least, most, rest, yes, named
      <3> QED  BY <1>1, <2>1, <2>2, <3>1 DEF ConfigOutcome, least, most, rest
    <2> HIDE DEF least, most
    <2>4. Positionals(rest, least, most) \notin {"plugin", "config"}
      BY <1>3
    <2> QED  BY <2>3, <2>4 DEF AndThen
  <1>7. Outcome(line, <<>>, broken, fails, torn) =
           AndThen(GlobalsOutcome(Parsed), AndThen(Scope(args, opts),
               IF "version" \in DOMAIN opts THEN "runs"
               ELSE IF helps THEN HelpOutcome(<<>>, broken, args)
               ELSE ConfigOutcome(args, named, yes, fails, torn)))
    <2>1. Outcome(line, <<>>, broken, fails, torn) = OutcomeOfSplit(Parsed, <<>>, broken, fails, torn)
      BY DEF Outcome, Parsed
    <2>2. /\ ~IsDoctorLocalHelp(args) /\ ~IsDoctorLocal(args) /\ ~Strict(args) /\ args # <<>>
      BY <1>1, <1>2 DEF IsDoctorLocalHelp, IsDoctorLocal, Strict
    <2>3. args = Parsed.rest /\ opts = Parsed.opts
      BY DEF args, opts, Args
    <2> HIDE DEF yes, helps, named
    <2> QED  BY <1>1, <1>2, <2>1, <2>2, <2>3 DEF OutcomeOfSplit, yes, helps, named
  <1> QED  BY <1>4, <1>5, <1>6, <1>7 DEF AndThen
-----------------------------------------------------------------------------
(* The lines that repair the machine are taken for what they say.          *)

\* A line of three or four tokens is taken token by token.
LEMMA ParseInTurn ==
    ASSUME NEW text, Len(text) \in {3, 4}
    PROVE  LET third == TakeGlobal(TakeGlobal(TakeGlobal(NoGlobals, text[1]), text[2]), text[3])
           IN  ParseGlobals(text) = IF Len(text) = 3 THEN third ELSE TakeGlobal(third, text[4])
  <1> DEFINE first == TakeGlobal(NoGlobals, text[1])
             second == TakeGlobal(first, text[2])
             third == TakeGlobal(second, text[3])
             fourth == TakeGlobal(third, text[4])
             Turns(g) == g = [n \in 0 .. Len(text) |->
                                 IF n = 0 THEN NoGlobals ELSE TakeGlobal(g[n - 1], text[n])]
             Turn(n) == CASE n = 0 -> NoGlobals [] n = 1 -> first [] n = 2 -> second
                          [] n = 3 -> third [] n = 4 -> fourth
             turns == [n \in 0 .. Len(text) |-> Turn(n)]
  <1>1. Turns(turns)
    <2> HIDE DEF first, second, third, fourth
    <2>1. \A n \in 0 .. Len(text) : n \in {0, 1, 2, 3, 4}
      <3>1. CASE Len(text) = 3
        BY <3>1
      <3>2. CASE Len(text) = 4
        BY <3>2
      <3> QED  BY <3>1, <3>2
    <2>2. ASSUME NEW n \in 0 .. Len(text)
          PROVE  turns[n] = IF n = 0 THEN NoGlobals ELSE TakeGlobal(turns[n - 1], text[n])
      BY <2>1 DEF first, second, third, fourth
    <2> HIDE DEF turns
    <2>3. turns = [n \in 0 .. Len(text) |-> turns[n]]
      <3> HIDE DEF Turn
      <3> QED  BY DEF turns
    <2> QED  BY <2>2, <2>3
  <1> DEFINE taken == CHOOSE g : Turns(g)
  <1>2. Turns(taken)
    BY <1>1
  <1>3. ParseGlobals(text) = taken[Len(text)]
    BY DEF ParseGlobals
  <1> HIDE DEF taken, turns
  <1>4. /\ taken[0] = NoGlobals /\ taken[1] = first /\ taken[2] = second /\ taken[3] = third
        /\ Len(text) = 4 => taken[4] = fourth
    <2>1. \A n \in 0 .. Len(text) :
             taken[n] = IF n = 0 THEN NoGlobals ELSE TakeGlobal(taken[n - 1], text[n])
      BY <1>2
    <2> HIDE DEF Turns
    <2>2. taken[0] = NoGlobals
      BY <2>1
    <2>3. taken[1] = first
      BY <2>1, <2>2
    <2>4. taken[2] = second
      BY <2>1, <2>3
    <2>5. taken[3] = third
      BY <2>1, <2>4
    <2>6. Len(text) = 4 => taken[4] = fourth
      BY <2>1, <2>5
    <2> QED  BY <2>2, <2>3, <2>4, <2>5, <2>6
  <1> QED  BY <1>3, <1>4

\* A token without a value is bare.
LEMMA PlainIsBare ==
    ASSUME NEW dash, NEW name
    PROVE  Bare(Token(dash, name, "")) = Token(dash, name, "")
  <1> DEFINE token == Token(dash, name, "")
  <1>1. token = [dash |-> token.dash, name |-> token.name, value |-> token.value] /\ token.value = ""
    BY DEF Token
  <1> HIDE DEF token
  <1>2. [token EXCEPT !.value = ""] = token
    BY <1>1
  <1> QED  BY <1>2 DEF Bare, token

\* A word is no global option: it stays on the line.
LEMMA WordIsKept ==
    ASSUME NEW state, state.wants = "", NEW name
    PROVE  TakeGlobal(state, Word(name)) = [state EXCEPT !.rest = Append(@, Word(name))]
  <1>1. Word(name).dash = "" /\ Bare(Word(name)) = Word(name)
    BY PlainIsBare DEF Word, Token
  <1>2. \A other : Long(other).dash = "--" /\ Short(other).dash = "-"
    BY DEF Long, Short, Token
  <1>3. \A g \in Globals : Word(name) \notin OptionNames(g)
    BY <1>1, <1>2 DEF OptionNames
  <1>4. GlobalNamed(Word(name)) = {}
    BY <1>3 DEF GlobalNamed
  <1> QED  BY <1>1, <1>4 DEF TakeGlobal

\* --yes is an option without a value.
LEMMA YesTakesNothing == \A g \in Globals : g.long = "yes" => g.takes = FALSE
  BY SMTT(30) DEF Globals, Option

\* --yes is taken from the line.
LEMMA YesIsTaken ==
    ASSUME NEW state, state.wants = "", state.opts = NoGlobals.opts
    PROVE  TakeGlobal(state, Long("yes"))
              = [state EXCEPT !.opts = [k \in {"yes"} |-> Long("yes")], !.wants = ""]
  <1> DEFINE token == Long("yes")
  <1>1. Bare(token) = token
    BY PlainIsBare DEF Long
  <1>2. \A other : Long(other).name = other /\ Long(other).dash = "--" /\ Short(other).dash = "-"
    BY DEF Long, Short, Token
  <1>3. GlobalOf(token) \in Globals /\ GlobalOf(token).long = "yes" /\ GlobalNamed(token) # {}
    <2>1. \A g \in Globals : token \in OptionNames(g) <=> g.long = "yes"
      BY <1>2 DEF OptionNames
    <2>2. \E g \in Globals : g.long = "yes"
      <3>1. Option("yes", "y", FALSE).long = "yes"
        BY DEF Option
      <3> QED  BY <3>1 DEF Globals
    <2> QED  BY <2>1, <2>2 DEF GlobalNamed, GlobalOf
  <1>4. GlobalOf(token).takes = FALSE
    BY <1>3, YesTakesNothing
  <1>5. [k \in DOMAIN state.opts \cup {"yes"} |-> IF k = "yes" THEN token ELSE state.opts[k]]
           = [k \in {"yes"} |-> token]
    <2>1. DOMAIN state.opts = {}
      BY DEF NoGlobals
    <2> QED  BY <2>1
  <1> HIDE DEF token
  <1>6. TakeGlobal(state, token)
           = [state EXCEPT !.opts = [k \in DOMAIN state.opts \cup {"yes"} |->
                                        IF k = "yes" THEN token ELSE state.opts[k]],
                           !.wants = ""]
    <2>1. (IF Bare(token) \in InlineGlobals THEN Bare(token) ELSE token) = token
      BY <1>1
    <2>2. ~GlobalOf(token).takes
      BY <1>4
    <2>3. TakeGlobal(state, token)
             = [state EXCEPT !.opts = [k \in DOMAIN state.opts \cup {GlobalOf(token).long} |->
                                          IF k = GlobalOf(token).long THEN token ELSE state.opts[k]],
                             !.wants = ""]
      BY <1>3, <2>1, <2>2, Zenon DEF TakeGlobal
    <2> QED  BY <1>3, <2>3
  <1> QED  BY <1>5, <1>6 DEF token
\* A line without an open option, split into options and arguments.
SplitInto(opts, args) == [opts |-> opts, rest |-> args, wants |-> ""]
NoOptions == NoGlobals.opts
OnlyYes == [k \in {"yes"} |-> Long("yes")]

\* A short list of arguments and one more.
LEMMA OneMore ==
    ASSUME NEW x, NEW y, NEW z
    PROVE  /\ Append(<<>>, x) = <<x>>
           /\ Append(<<x>>, y) = <<x, y>>
           /\ Append(<<x, y>>, z) = <<x, y, z>>
  <1> DEFINE S == {x, y, z}
  <1>1. Append(<<x>>, y) = <<x, y>>
    <2> DEFINE s == <<x>>
               t == <<x, y>>
    <2>1. /\ s \in Seq(S) /\ Len(s) = 1 /\ s[1] = x /\ y \in S
          /\ t \in Seq(S) /\ Len(t) = 2 /\ t[1] = x /\ t[2] = y
      OBVIOUS
    <2> HIDE DEF S, s, t
    <2>2. s \in Seq(S) /\ y \in S
      BY <2>1
    <2>3. /\ Append(s, y) \in Seq(S) /\ Len(Append(s, y)) = Len(s) + 1
          /\ \A i \in 1 .. Len(s) : Append(s, y)[i] = s[i]
          /\ Append(s, y)[Len(s) + 1] = y
      BY <2>2, AppendProperties
    <2>4. Append(s, y) = t
      BY <2>1, <2>3
    <2> QED  BY <2>4 DEF s, t
  <1>2. Append(<<x, y>>, z) = <<x, y, z>>
    <2> DEFINE s == <<x, y>>
               t == <<x, y, z>>
    <2>1. /\ s \in Seq(S) /\ Len(s) = 2 /\ s[1] = x /\ s[2] = y /\ z \in S
          /\ t \in Seq(S) /\ Len(t) = 3 /\ t[1] = x /\ t[2] = y /\ t[3] = z
      OBVIOUS
    <2> HIDE DEF S, s, t
    <2>2. /\ Append(s, z) \in Seq(S) /\ Len(Append(s, z)) = 3
          /\ \A i \in 1 .. 2 : Append(s, z)[i] = s[i]
          /\ Append(s, z)[3] = z
      BY <2>1, AppendProperties
    <2>3. Append(s, z) = t
      BY <2>1, <2>2
    <2> QED  BY <2>3 DEF s, t
  <1> QED  BY <1>1, <1>2

\* What a token changes of a split line.
IsSplit(state) == state = [opts |-> state.opts, rest |-> state.rest, wants |-> state.wants]

LEMMA SplitChanged ==
    ASSUME NEW state, IsSplit(state), NEW other, NEW next
    PROVE  /\ [state EXCEPT !.rest = other]
                 = [opts |-> state.opts, rest |-> other, wants |-> state.wants]
           /\ [state EXCEPT !.opts = other, !.wants = next]
                 = [opts |-> other, rest |-> state.rest, wants |-> next]
  <1> DEFINE taken == [state EXCEPT !.opts = other]
  <1>1. taken = [opts |-> other, rest |-> state.rest, wants |-> state.wants]
    BY DEF IsSplit
  <1>2. [state EXCEPT !.opts = other, !.wants = next] = [taken EXCEPT !.wants = next]
    OBVIOUS
  <1>3. [state EXCEPT !.rest = other] = [opts |-> state.opts, rest |-> other, wants |-> state.wants]
    BY DEF IsSplit
  <1> HIDE DEF taken
  <1>4. [taken EXCEPT !.wants = next] = [opts |-> other, rest |-> state.rest, wants |-> next]
    BY <1>1
  <1> QED  BY <1>2, <1>3, <1>4

\* What the lines of the repairs are split into.
LEMMA RepairsSplit ==
    /\ ParseGlobals(ResetLine) = SplitInto(OnlyYes, <<Word("config"), Word("reset")>>)
    /\ \A p \in Plugins :
          /\ ParseGlobals(RemoveLine(p))
                = SplitInto(OnlyYes, <<Word("plugin"), Word("remove"), Word(p)>>)
          /\ ParseGlobals(InstallLine(p))
                = SplitInto(NoOptions, <<Word("plugin"), Word("install"), Word(p)>>)
  <1>1. SplitInto(NoOptions, <<>>) = NoGlobals
    BY DEF NoGlobals, SplitInto, NoOptions
  <1>2. ASSUME NEW args, NEW opts, NEW name
        PROVE  TakeGlobal(SplitInto(opts, args), Word(name)) = SplitInto(opts, Append(args, Word(name)))
    <2> DEFINE state == SplitInto(opts, args)
               longer == Append(args, Word(name))
    <2>1. IsSplit(state) /\ state.opts = opts /\ state.rest = args /\ state.wants = ""
      BY DEF SplitInto, IsSplit
    <2> HIDE DEF state
    <2>2. TakeGlobal(state, Word(name)) = [state EXCEPT !.rest = longer]
      BY <2>1, WordIsKept
    <2> HIDE DEF longer
    <2>3. [state EXCEPT !.rest = longer]
             = [opts |-> state.opts, rest |-> longer, wants |-> state.wants]
      BY <2>1, SplitChanged
    <2>4. TakeGlobal(state, Word(name)) = SplitInto(opts, longer)
      BY <2>1, <2>2, <2>3 DEF SplitInto
    <2> QED  BY <2>4 DEF state, longer
  <1>3. ASSUME NEW args
        PROVE  TakeGlobal(SplitInto(NoOptions, args), Long("yes")) = SplitInto(OnlyYes, args)
    <2> DEFINE state == SplitInto(NoOptions, args)
    <2>1. IsSplit(state) /\ state.opts = NoGlobals.opts /\ state.rest = args /\ state.wants = ""
      BY DEF SplitInto, IsSplit, NoOptions
    <2> HIDE DEF state
    <2>2. TakeGlobal(state, Long("yes")) = [state EXCEPT !.opts = OnlyYes, !.wants = ""]
      BY <2>1, YesIsTaken DEF OnlyYes
    <2>3. [state EXCEPT !.opts = OnlyYes, !.wants = ""]
             = [opts |-> OnlyYes, rest |-> state.rest, wants |-> ""]
      BY <2>1, SplitChanged
    <2>4. TakeGlobal(state, Long("yes")) = SplitInto(OnlyYes, args)
      BY <2>1, <2>2, <2>3 DEF SplitInto
    <2> QED  BY <2>4 DEF state
  <1>4. ASSUME NEW a, NEW b
        PROVE  /\ ParseGlobals(<<Word(a), Word(b), Long("yes")>>)
                     = SplitInto(OnlyYes, <<Word(a), Word(b)>>)
               /\ \A c : /\ ParseGlobals(<<Word(a), Word(b), Word(c), Long("yes")>>)
                               = SplitInto(OnlyYes, <<Word(a), Word(b), Word(c)>>)
                          /\ ParseGlobals(<<Word(a), Word(b), Word(c)>>)
                               = SplitInto(NoOptions, <<Word(a), Word(b), Word(c)>>)
    <2>1. /\ Append(<<>>, Word(a)) = <<Word(a)>>
          /\ Append(<<Word(a)>>, Word(b)) = <<Word(a), Word(b)>>
          /\ \A c : Append(<<Word(a), Word(b)>>, Word(c)) = <<Word(a), Word(b), Word(c)>>
      BY OneMore
    <2> DEFINE second == SplitInto(NoOptions, <<Word(a), Word(b)>>)
    <2>2. TakeGlobal(TakeGlobal(NoGlobals, Word(a)), Word(b)) = second
      <3>1. TakeGlobal(NoGlobals, Word(a)) = SplitInto(NoOptions, <<Word(a)>>)
        BY <1>1, <1>2, <2>1
      <3>2. TakeGlobal(SplitInto(NoOptions, <<Word(a)>>), Word(b))
               = SplitInto(NoOptions, Append(<<Word(a)>>, Word(b)))
        BY <1>2
      <3> QED  BY <2>1, <3>1, <3>2
    <2>3. ASSUME NEW text, Len(text) \in {3, 4}, text[1] = Word(a), text[2] = Word(b)
          PROVE  ParseGlobals(text)
                    = IF Len(text) = 3 THEN TakeGlobal(second, text[3])
                      ELSE TakeGlobal(TakeGlobal(second, text[3]), text[4])
      BY <2>2, <2>3, ParseInTurn
    <2>4. ParseGlobals(<<Word(a), Word(b), Long("yes")>>) = TakeGlobal(second, Long("yes"))
      <3> DEFINE text == <<Word(a), Word(b), Long("yes")>>
      <3>1. Len(text) = 3 /\ text[1] = Word(a) /\ text[2] = Word(b) /\ text[3] = Long("yes")
        OBVIOUS
      <3> HIDE DEF text, second
      <3>2. ParseGlobals(text) = TakeGlobal(second, Long("yes"))
        BY <2>3, <3>1
      <3> QED  BY <3>2 DEF text
    <2>5. ASSUME NEW c
          PROVE  /\ ParseGlobals(<<Word(a), Word(b), Word(c), Long("yes")>>)
                       = TakeGlobal(TakeGlobal(second, Word(c)), Long("yes"))
                 /\ ParseGlobals(<<Word(a), Word(b), Word(c)>>) = TakeGlobal(second, Word(c))
      <3> DEFINE long == <<Word(a), Word(b), Word(c), Long("yes")>>
                 short == <<Word(a), Word(b), Word(c)>>
      <3>1. /\ Len(long) = 4 /\ long[1] = Word(a) /\ long[2] = Word(b)
            /\ long[3] = Word(c) /\ long[4] = Long("yes")
            /\ Len(short) = 3 /\ short[1] = Word(a) /\ short[2] = Word(b) /\ short[3] = Word(c)
        OBVIOUS
      <3> HIDE DEF long, short, second
      <3>2. /\ ParseGlobals(long) = TakeGlobal(TakeGlobal(second, Word(c)), Long("yes"))
            /\ ParseGlobals(short) = TakeGlobal(second, Word(c))
        BY <2>3, <3>1
      <3> QED  BY <3>2 DEF long, short
    <2>6. TakeGlobal(second, Long("yes")) = SplitInto(OnlyYes, <<Word(a), Word(b)>>)
      BY <1>3
    <2>7. ASSUME NEW c
          PROVE  /\ TakeGlobal(second, Word(c)) = SplitInto(NoOptions, <<Word(a), Word(b), Word(c)>>)
                 /\ TakeGlobal(TakeGlobal(second, Word(c)), Long("yes"))
                       = SplitInto(OnlyYes, <<Word(a), Word(b), Word(c)>>)
      <3>1. TakeGlobal(second, Word(c)) = SplitInto(NoOptions, <<Word(a), Word(b), Word(c)>>)
        BY <1>2, <2>1
      <3>2. TakeGlobal(SplitInto(NoOptions, <<Word(a), Word(b), Word(c)>>), Long("yes"))
               = SplitInto(OnlyYes, <<Word(a), Word(b), Word(c)>>)
        BY <1>3
      <3> QED  BY <3>1, <3>2
    <2> HIDE DEF second
    <2> QED  BY <2>4, <2>5, <2>6, <2>7
  <1> QED  BY <1>4 DEF ResetLine, RemoveLine, InstallLine

\* A word is the only positional argument of its list.
LEMMA OnePositional ==
    ASSUME NEW name, NEW flags, NEW valued
    PROVE  LET parsed == CommandTokens(<<Word(name)>>, flags, valued)
           IN  /\ parsed.outcome = "runs" /\ parsed.options = {} /\ parsed.present = {}
               /\ Len(parsed.positionals) = 1
  <1> DEFINE args == <<Word(name)>>
             nothing == [positionals |-> <<>>, present |-> {}, options |-> {},
                         wants |-> "", outcome |-> "runs"]
             one == TakeOption(flags, valued, nothing, Word(name))
             Turns(g) == g = [n \in 0 .. Len(args) |->
                                 IF n = 0 THEN nothing
                                 ELSE TakeOption(flags, valued, g[n - 1], args[n])]
             turns == [n \in 0 .. Len(args) |-> IF n = 0 THEN nothing ELSE one]
             taken == CHOOSE g : Turns(g)
             parsed == taken[Len(args)]
  <1>1. Len(args) = 1 /\ args[1] = Word(name)
    OBVIOUS
  <1>2. one = [nothing EXCEPT !.positionals = <<Word(name)>>]
    <2>1. Word(name).dash = ""
      BY DEF Word, Token
    <2>2. nothing.outcome = "runs" /\ nothing.wants = "" /\ nothing.positionals = <<>>
      OBVIOUS
    <2> HIDE DEF nothing
    <2>3. one = [nothing EXCEPT !.positionals = Append(<<>>, Word(name))]
      BY <2>1, <2>2 DEF TakeOption
    <2> QED  BY <2>3, OneMore
  <1>3. Turns(turns)
    <2> HIDE DEF args, nothing
    <2>1. ASSUME NEW n \in 0 .. Len(args)
          PROVE  turns[n] = IF n = 0 THEN nothing ELSE TakeOption(flags, valued, turns[n - 1], args[n])
      <3> HIDE DEF one
      <3>1. CASE n = 0
        BY <3>1
      <3>2. CASE n # 0
        <4>1. n = 1 /\ n - 1 = 0
          BY <1>1, <3>2
        <4>2. turns[1] = one /\ turns[0] = nothing
          BY <1>1
        <4> QED  BY <1>1, <4>1, <4>2 DEF one
      <3> QED  BY <3>1, <3>2
    <2>2. turns = [n \in 0 .. Len(args) |-> turns[n]]
      <3> HIDE DEF one
      <3> QED  OBVIOUS
    <2> HIDE DEF turns
    <2> QED  BY <2>1, <2>2
  <1>4. Turns(taken)
    <2> HIDE DEF turns
    <2> QED  BY <1>3
  <1>5. CommandTokens(args, flags, valued)
           = IF parsed.outcome = "runs" /\ parsed.wants # ""
             THEN [parsed EXCEPT !.outcome = "incomplete"] ELSE parsed
    BY DEF CommandTokens
  <1> HIDE DEF taken
  <1>6. parsed = one
    <2> HIDE DEF args, nothing
    <2>1. \A n \in 0 .. Len(args) :
             taken[n] = IF n = 0 THEN nothing ELSE TakeOption(flags, valued, taken[n - 1], args[n])
      BY <1>4
    <2> HIDE DEF Turns
    <2>2. taken[0] = nothing
      BY <1>1, <2>1
    <2>3. taken[1] = one
      BY <1>1, <2>1, <2>2
    <2> QED  BY <1>1, <2>3
  <1> HIDE DEF parsed, one, args
  <1>7. /\ one.outcome = "runs" /\ one.options = {} /\ one.present = {} /\ one.wants = ""
        /\ Len(one.positionals) = 1
    BY <1>2
  <1>8. CommandTokens(args, flags, valued) = one
    BY <1>5, <1>6, <1>7
  <1> QED  BY <1>7, <1>8 DEF args

\* The parsers take a plugin's name for what it is.
LEMMA PluginNamed ==
    ASSUME NEW sub \in {"remove", "install"}, NEW name
    PROVE  PluginOutcome(<<Word(sub), Word(name)>>) = "runs"
  <1> DEFINE args == <<Word(sub), Word(name)>>
             flags == {"all"}
             valued == IF sub = "remove" THEN {} ELSE {"source", "channel"}
             parsed == CommandTokens(<<Word(name)>>, flags, valued)
  <1>1. Head(args) = Word(sub) /\ Tail(args) = <<Word(name)>>
    OBVIOUS
  <1>2. \A names : Word(sub) \in Words(names) <=> sub \in names
    BY DEF Word, Words, Token
  <1>3. /\ sub \in PluginSubcommands /\ sub \notin {"list"} /\ sub \notin {"search"}
        /\ sub \notin {"list", "search"} /\ sub \notin {"search", "update", "upgrade"}
        /\ sub \in {"remove"} <=> sub = "remove"
    BY DEF PluginSubcommands
  <1>4. /\ parsed.outcome = "runs" /\ parsed.options = {} /\ parsed.present = {}
        /\ Len(parsed.positionals) = 1
    <2> HIDE DEF flags, valued
    <2> QED  BY OnePositional
  <1> HIDE DEF args
  <1>5. PluginOutcome(args)
           = AndThen(parsed.outcome,
                IF BadValue(parsed, Channels) THEN "unsupported value" ELSE "runs")
    <2>1. ~("all" \in parsed.present) /\ ~({"updates", "available"} \subseteq parsed.present)
      BY <1>4
    <2> DEFINE read == CommandTokens(Tail(args),
                           IF Head(args) \in Words({"list"}) THEN {"updates", "available"}
                           ELSE IF Head(args) \in Words({"search"}) THEN {} ELSE {"all"},
                           IF Head(args) \in Words({"remove"}) THEN {} ELSE {"source", "channel"})
               channels == IF Head(args) \in Words({"list", "search"}) THEN Channels \cup {"all"} ELSE Channels
    <2>2. read = parsed
      BY <1>1, <1>2, <1>3
    <2>3. channels = Channels
      BY <1>1, <1>2, <1>3
    <2>4. /\ Head(args) \in Words(PluginSubcommands) /\ Head(args) \notin Words({"list"})
          /\ Head(args) \notin Words({"search", "update", "upgrade"})
      BY <1>1, <1>2, <1>3
    <2>5. PluginOutcome(args)
             = AndThen(read.outcome,
                  IF \/ Len(read.positionals) > 1 /\ Head(args) \in Words({"search", "update", "upgrade"})
                     \/ Len(read.positionals) > 0 /\ Head(args) \in Words({"list"})
                  THEN "unexpected argument"
                  ELSE IF BadValue(read, channels) THEN "unsupported value"
                  ELSE IF \/ "all" \in read.present /\ Len(read.positionals) > 0
                          \/ {"updates", "available"} \subseteq read.present
                          \/ /\ Head(args) \in Words({"list"})
                             /\ <<"channel", Word("all")>> \in read.options
                             /\ "available" \notin read.present
                  THEN "conflict"
                  ELSE IF /\ Len(read.positionals) = 0 /\ ~("all" \in read.present)
                          /\ ~(Head(args) \in Words({"list"}))
                       THEN "incomplete" ELSE "runs")
      <3> HIDE DEF parsed
      <3> QED  BY <2>4, Zenon DEF PluginOutcome
    <2> HIDE DEF parsed, read, channels
    <2>6. /\ ~("all" \in read.present) /\ ~({"updates", "available"} \subseteq read.present)
          /\ Len(read.positionals) = 1
      BY <1>4, <2>1, <2>2
    <2>7. ~(Len(read.positionals) > 1) /\ ~(Len(read.positionals) = 0)
      BY <2>6
    <2>8. PluginOutcome(args)
             = AndThen(read.outcome, IF BadValue(read, channels) THEN "unsupported value" ELSE "runs")
      BY <2>4, <2>5, <2>6, <2>7, Zenon
    <2> QED  BY <2>2, <2>3, <2>8
  <1>6. ~BadValue(parsed, Channels)
    BY <1>4 DEF BadValue
  <1> QED  BY <1>4, <1>5, <1>6 DEF AndThen, args

\* Such a line passes the checks of the global options.
LEMMA GlobalsPass ==
    ASSUME NEW args, args # <<>>, Head(args).dash = "", NEW opts \in {OnlyYes, NoOptions},
           opts = OnlyYes => GlobalAllowed(args, "yes")
    PROVE  /\ GlobalsOutcome(SplitInto(opts, args)) = "runs"
           /\ Scope(args, opts) = "runs"
           /\ DOMAIN opts \subseteq {"yes"}
  <1>1. DOMAIN OnlyYes = {"yes"} /\ DOMAIN NoOptions = {}
    BY DEF OnlyYes, NoOptions, NoGlobals
  <1>2. /\ "output" \notin DOMAIN opts /\ "table" \notin DOMAIN opts /\ "timeout" \notin DOMAIN opts
        /\ DOMAIN opts \subseteq {"yes"}
    <2>1. DOMAIN opts \subseteq {"yes"}
      BY <1>1
    <2>2. "output" \notin {"yes"} /\ "table" \notin {"yes"} /\ "timeout" \notin {"yes"}
      OBVIOUS
    <2> QED  BY <2>1, <2>2
  <1>3. GlobalsOutcome(SplitInto(opts, args)) = "runs"
    <2> DEFINE split == SplitInto(opts, args)
    <2>1. split.opts = opts /\ split.rest = args /\ split.wants = ""
      BY DEF SplitInto
    <2> HIDE DEF split
    <2>2. GlobalsOutcome(split) = "runs"
      BY <1>2, <2>1 DEF GlobalsOutcome
    <2> QED  BY <2>2 DEF split
  <1>4. Scope(args, opts) = "runs"
    <2>1. \A key \in DOMAIN opts : key = "yes" /\ GlobalAllowed(args, key)
      BY <1>1
    <2> QED  BY <1>2, <2>1 DEF Scope
  <1> QED  BY <1>2, <1>3, <1>4

\* ctyun config reset --yes is never refused, whatever is wrong.
LEMMA ResetRuns ==
    ASSUME NEW bundles, NEW broken, NEW fails, NEW torn
    PROVE  Outcome(ResetLine, bundles, broken, fails, torn) = "runs"
  <1> DEFINE args == <<Word("config"), Word("reset")>>
  <1>1. /\ args[1] = Word("config") /\ args[2] = Word("reset") /\ Len(args) = 2 /\ args # <<>>
        /\ Head(args) = Word("config") /\ From(args, 3) = <<>>
    BY DEF From
  <1> HIDE DEF args
  <1>2. \A names, name : Word(name) \in Words(names) <=> name \in names
    BY DEF Word, Words, Token
  <1>3. Is(args, 1, {"config"}) /\ Is(args, 2, {"reset"})
    BY <1>1, <1>2 DEF Is
  <1>4. /\ ~Is(args, 1, {"help"}) /\ ~Is(args, 1, {"doctor"}) /\ ~Is(args, 1, {"version"})
        /\ ~Is(args, 1, {"completion"}) /\ ~Is(args, 1, {"update", "upgrade"})
        /\ ~Is(args, 1, {"plugin", "plugins"})
    <2>1. /\ "config" \notin {"help"} /\ "config" \notin {"doctor"} /\ "config" \notin {"version"}
          /\ "config" \notin {"completion"} /\ "config" \notin {"update", "upgrade"}
          /\ "config" \notin {"plugin", "plugins"}
      OBVIOUS
    <2> QED  BY <1>1, <2>1, OneWord
  <1>5. Head(args).dash = "" /\ GlobalAllowed(args, "yes")
    <2>1. Is(args, 1, CoreCommands)
      BY <1>1, <1>2 DEF Is, CoreCommands
    <2>2. Word("config").dash = ""
      BY DEF Word, Token
    <2> DEFINE key == "yes"
    <2>3. key = "yes" /\ key # "version"
      OBVIOUS
    <2> HIDE DEF key
    <2>4. GlobalAllowed(args, key)
      BY <1>1, <1>3, <2>1, <2>3 DEF GlobalAllowed
    <2> QED  BY <1>1, <2>2, <2>4 DEF key
  <1>6. /\ GlobalsOutcome(SplitInto(OnlyYes, args)) = "runs" /\ Scope(args, OnlyYes) = "runs"
        /\ "version" \notin DOMAIN OnlyYes /\ "help" \notin DOMAIN OnlyYes /\ "yes" \in DOMAIN OnlyYes
    <2>1. DOMAIN OnlyYes = {"yes"}
      BY DEF OnlyYes
    <2> QED  BY <1>1, <1>5, <2>1, GlobalsPass
  <1>7. ASSUME NEW named, named = FALSE, NEW yes, yes = TRUE
        PROVE  ConfigOutcome(args, named, yes, fails, torn) = "runs"
    <2>1. /\ Word("reset").dash = "" /\ Word("reset").name = "reset" /\ "reset" \in DOMAIN Arity
          /\ Arity["reset"][1] = 0 /\ Arity["reset"][2] = 0
      BY DEF Word, Token, Arity
    <2>2. /\ Word("reset") \notin Words({"profile", "profiles"})
          /\ Word("reset") # Word("explain") /\ Word("reset") \in Words({"path", "reset"})
      <3>1. "reset" \notin {"profile", "profiles"} /\ "reset" \in {"path", "reset"}
        OBVIOUS
      <3>2. Word("explain").name = "explain" /\ Word("reset").name = "reset"
        BY DEF Word, Token
      <3> QED  BY <1>2, <3>1, <3>2
    <2>3. Positionals(<<>>, 0, 0) = "runs"
      BY DEF Positionals
    <2> DEFINE rest == From(args, 3)
               least == Arity["reset"][1]
               most == Arity["reset"][2]
    <2>4. ConfigOutcome(args, named, yes, fails, torn) = AndThen(Positionals(rest, least, most), "runs")
      <3>1. Len(args) # 1 /\ ~(~yes) /\ ~named
        BY <1>1, <1>7
      <3>2. ~UnknownKey(args, named)
        <4>1. "reset" \notin {"set", "unset"} /\ "reset" \notin {"profile", "profiles"}
          OBVIOUS
        <4>2. ~Is(args, 2, {"set", "unset"}) /\ ~Is(args, 2, {"profile", "profiles"})
          BY <1>1, <4>1, OneWord
        <4> QED  BY <4>2 DEF UnknownKey
      <3> HIDE DEF rest, least, most
      <3> QED  BY <1>1, <2>1, <2>2, <3>1, <3>2 DEF ConfigOutcome, rest, least, most
    <2>5. Positionals(rest, least, most) = "runs"
      BY <1>1, <2>1, <2>3
    <2> HIDE DEF rest, least, most
    <2> QED  BY <2>4, <2>5 DEF AndThen
  <1>8. OutcomeOfSplit(SplitInto(OnlyYes, args), bundles, broken, fails, torn) = "runs"
    <2> DEFINE split == SplitInto(OnlyYes, args)
    <2>1. split.opts = OnlyYes /\ split.rest = args
      BY DEF SplitInto
    <2>2. ~IsDoctorLocalHelp(args) /\ ~IsDoctorLocal(args) /\ ~Strict(args)
      BY <1>3, <1>4 DEF IsDoctorLocalHelp, IsDoctorLocal, Strict
    <2> DEFINE opts == OnlyYes
               named == "profile" \in DOMAIN opts
               yes == "yes" \in DOMAIN opts
               helps == "help" \in DOMAIN opts
    <2>3. yes = TRUE /\ named = FALSE /\ ~helps /\ "version" \notin DOMAIN opts /\ split.opts = opts
      <3>1. DOMAIN OnlyYes = {"yes"}
        BY DEF OnlyYes
      <3> QED  BY <1>6, <2>1, <3>1
    <2> HIDE DEF split, opts
    <2>4. OutcomeOfSplit(split, bundles, broken, fails, torn)
             = AndThen(GlobalsOutcome(split), AndThen(Scope(args, opts),
                  ConfigOutcome(args, named, yes, fails, torn)))
      <3> HIDE DEF named, yes, helps
      <3> QED  BY <1>1, <1>3, <1>4, <2>1, <2>2, <2>3 DEF OutcomeOfSplit, named, yes, helps
    <2> HIDE DEF named, yes, helps
    <2>5. ConfigOutcome(args, named, yes, fails, torn) = "runs"
      BY <1>7, <2>3
    <2> QED  BY <1>6, <2>4, <2>5 DEF AndThen, split, opts
  <1> QED  BY <1>8, RepairsSplit DEF Outcome, args

\* Removing or installing a plugin needs none that loads, and is refused only
\* where the configuration does not resolve.
LEMMA PluginRepairRuns ==
    ASSUME NEW p \in Plugins, NEW text \in {RemoveLine(p), InstallLine(p)},
           NEW bundles, NEW broken, NEW fails, NEW torn
    PROVE  Outcome(text, bundles, broken, fails, torn) = IF fails THEN "config" ELSE "runs"
  <1>1. PICK sub \in {"remove", "install"}, opts \in {OnlyYes, NoOptions} :
           /\ sub = "remove" => opts = OnlyYes
           /\ sub = "install" => opts = NoOptions
           /\ ParseGlobals(text) = SplitInto(opts, <<Word("plugin"), Word(sub), Word(p)>>)
    BY RepairsSplit
  <1> DEFINE args == <<Word("plugin"), Word(sub), Word(p)>>
  <1>2. /\ args[1] = Word("plugin") /\ args[2] = Word(sub) /\ Len(args) = 3 /\ args # <<>>
        /\ Head(args) = Word("plugin") /\ Tail(args) = <<Word(sub), Word(p)>>
    OBVIOUS
  <1> HIDE DEF args
  <1>3. \A names, name : Word(name) \in Words(names) <=> name \in names
    BY DEF Word, Words, Token
  <1>4. Is(args, 1, {"plugin", "plugins"}) /\ (sub = "remove" => Is(args, 2, {"remove"}))
    BY <1>2, <1>3 DEF Is
  <1>5. /\ ~Is(args, 1, {"help"}) /\ ~Is(args, 1, {"doctor"}) /\ ~Is(args, 1, {"version"})
        /\ ~Is(args, 1, {"completion"}) /\ ~Is(args, 1, {"config"})
        /\ ~Is(args, 1, {"update", "upgrade"}) /\ ~Is(args, 2, {"list"})
        /\ sub = "install" => ~Is(args, 2, {"remove"})
    <2>1. /\ "plugin" \notin {"help"} /\ "plugin" \notin {"doctor"} /\ "plugin" \notin {"version"}
          /\ "plugin" \notin {"completion"} /\ "plugin" \notin {"config"}
          /\ "plugin" \notin {"update", "upgrade"}
      OBVIOUS
    <2>2. sub \notin {"list"} /\ (sub = "install" => sub \notin {"remove"})
      OBVIOUS
    <2> QED  BY <1>2, <2>1, <2>2, OneWord
  <1>6. Head(args).dash = "" /\ (opts = OnlyYes => GlobalAllowed(args, "yes") \/ sub = "install")
    <2>1. Is(args, 1, CoreCommands)
      BY <1>2, <1>3 DEF Is, CoreCommands
    <2>2. Word("plugin").dash = ""
      BY DEF Word, Token
    <2> DEFINE key == "yes"
    <2>3. key = "yes" /\ key # "version"
      OBVIOUS
    <2> HIDE DEF key
    <2>4. sub = "remove" => GlobalAllowed(args, key)
      BY <1>2, <1>4, <2>1, <2>3 DEF GlobalAllowed
    <2> QED  BY <1>1, <1>2, <2>2, <2>4 DEF key
  <1>7. DOMAIN OnlyYes = {"yes"} /\ DOMAIN NoOptions = {}
    BY DEF OnlyYes, NoOptions, NoGlobals
  <1>8. /\ GlobalsOutcome(SplitInto(opts, args)) = "runs" /\ Scope(args, opts) = "runs"
        /\ "version" \notin DOMAIN opts /\ "help" \notin DOMAIN opts
        /\ sub = "remove" => "yes" \in DOMAIN opts
    <2>1. opts = OnlyYes => GlobalAllowed(args, "yes")
      BY <1>1, <1>6, <1>7
    <2> QED  BY <1>1, <1>2, <1>6, <1>7, <2>1, GlobalsPass
  <1>9. PluginOutcome(Tail(args)) = "runs"
    BY <1>2, PluginNamed
  <1>10. OutcomeOfSplit(SplitInto(opts, args), bundles, broken, fails, torn)
            = IF fails THEN "config" ELSE "runs"
    <2> DEFINE split == SplitInto(opts, args)
    <2>1. split.opts = opts /\ split.rest = args
      BY DEF SplitInto
    <2>2. ~IsDoctorLocalHelp(args) /\ ~IsDoctorLocal(args) /\ Strict(args)
      BY <1>5 DEF IsDoctorLocalHelp, IsDoctorLocal, Strict
    <2>3. ~(Is(args, 2, {"remove"}) /\ ~("yes" \in DOMAIN opts))
      BY <1>1, <1>5, <1>8
    <2> HIDE DEF split
    <2>4. OutcomeOfSplit(split, bundles, broken, fails, torn)
             = AndThen(GlobalsOutcome(split), AndThen(Scope(args, opts),
                  IF fails THEN "config" ELSE AndThen(PluginOutcome(Tail(args)), "runs")))
      BY <1>2, <1>4, <1>5, <1>8, <2>1, <2>2, <2>3 DEF OutcomeOfSplit
    <2> QED  BY <1>8, <1>9, <2>4 DEF AndThen, split
  <1> QED  BY <1>1, <1>10 DEF Outcome, args
-----------------------------------------------------------------------------
(* The inductive invariant.                                                *)

\* What is there has been seen, and the process read it from there.
Witnessed ==
    /\ run = [stage |-> run.stage, file |-> run.file, todo |-> run.todo,
              loaded |-> run.loaded, outcome |-> run.outcome, report |-> run.report]
    /\ file \in Files /\ run.file \in Files /\ env \in Envs
    /\ file \in seen.files
    /\ \A p \in Plugins : plugins[p] \in seen.plugins[p]
    /\ changes \in Nat

\* A plugin that was not broken at some moment of the run.
OnceSound(p) == \E s \in seen.plugins[p] : s # "invalid"

\* A configuration there was that is readable, resolves and has credentials,
\* and plugins that were sound once.
WasHealthy ==
    /\ \E content \in seen.files :
          /\ content # Unreadable /\ ~Fails(content)
          /\ ~CredentialsFail(env, Inspect(ResolutionOf(content)).profile)
    /\ \A p \in Plugins : OnceSound(p)

\* The findings so far are about a configuration that there was, and a plugin
\* that is not looked at any more was sound once or has made the report fail.
Diagnosed ==
    Diagnoses =>
        /\ run.stage \in {"typing", "started", "reads", "inspects", "checks", "done"}
        /\ run.stage = "started" => run.file = Missing
        /\ run.stage \in {"inspects", "checks"} =>
              /\ run.outcome \in {"missing", "blocked", "read"}
              /\ run.outcome = "missing" => run.file = Missing
              /\ run.outcome = "read" => run.file # Unreadable
              /\ run.file \in seen.files
        /\ run.stage = "checks" =>
              /\ run.report = [plugins |-> run.report.plugins,
                               config  |-> ConfigFindings(run.outcome, ResolutionOf(run.file), FALSE)]
              /\ \A p \in Plugins : p \in run.todo \/ OnceSound(p) \/ run.report.plugins = "failed"
        /\ run.stage = "done" /\ run.outcome = "runs" => WasHealthy

\* An explanation is that of a file that resolves.
Explained ==
    Explains =>
        /\ run.stage \in {"typing", "started", "acts", "done"}
        /\ run.stage = "acts" => ~Fails(run.file)
        /\ run.stage = "done" /\ run.outcome = "runs" =>
              ~Fails(run.file) /\ run.report = Inspect(ResolutionOf(run.file)).settings

IInv == Witnessed /\ Diagnosed /\ Explained

\* The line of a process and its environment stay, and so does what they mean.
LEMMA SameMeaning ==
    ASSUME UNCHANGED <<line, env>>
    PROVE  /\ Diagnoses' = Diagnoses /\ Explains' = Explains
           /\ \A content : ResolutionOf(content)' = ResolutionOf(content)
           /\ \A content : Fails(content)' = Fails(content)
  <1>1. Parsed' = Parsed
    BY DEF Parsed
  <1>2. Args' = Args
    BY <1>1 DEF Args
  <1>3. Diagnoses' = Diagnoses /\ Explains' = Explains
    BY <1>1, <1>2 DEF Diagnoses, Explains
  <1>4. \A content : ResolutionOf(content)' = ResolutionOf(content)
    BY <1>1 DEF ResolutionOf
  <1>5. \A content : Fails(content)' = Fails(content)
    BY <1>4 DEF Fails
  <1> QED  BY <1>3, <1>4, <1>5

\* What was seen stays seen, and what was healthy stays so.
LEMMA HealthStays ==
    ASSUME UNCHANGED <<line, env>>, UNCHANGED seen \/ seen' = SeenMore
    PROVE  /\ seen.files \subseteq seen.files'
           /\ \A p \in Plugins : OnceSound(p) => OnceSound(p)'
           /\ WasHealthy => WasHealthy'
  <1>1. seen.files \subseteq seen.files'
    BY DEF SeenMore
  <1>2. \A p \in Plugins : seen.plugins[p] \subseteq (seen.plugins[p])'
    BY DEF SeenMore
  <1>3. \A p \in Plugins : OnceSound(p) => OnceSound(p)'
    BY <1>2 DEF OnceSound
  <1>4. WasHealthy => WasHealthy'
    <2>1. SUFFICES ASSUME WasHealthy PROVE WasHealthy'
      OBVIOUS
    <2>2. PICK content \in seen.files :
             /\ content # Unreadable /\ ~Fails(content)
             /\ ~CredentialsFail(env, Inspect(ResolutionOf(content)).profile)
      BY <2>1 DEF WasHealthy
    <2>3. /\ content \in seen.files' /\ content # Unreadable /\ ~Fails(content)'
          /\ ~CredentialsFail(env', Inspect(ResolutionOf(content)').profile)
      BY <1>1, <2>2, SameMeaning
    <2> QED  BY <1>3, <2>1, <2>3 DEF WasHealthy
  <1> QED  BY <1>1, <1>3, <1>4

\* The machine's part of the invariant.
LEMMA WitnessedStays ==
    ASSUME Witnessed, Next
    PROVE  Witnessed'
  <1>1. Missing \in Files
    BY InvocationAssumption
  <1>2. CASE \E token \in Tokens : Type(token)
    BY <1>2 DEF Type, Witnessed
  <1>3. CASE Enter
    BY <1>1, <1>3 DEF Enter, Start, Idle, SeenNow, Witnessed
  <1>4. CASE TryAgain
    BY <1>1, <1>4 DEF TryAgain, Start, Idle, SeenNow, Witnessed
  <1>5. CASE ReadConfig
    BY <1>5 DEF ReadConfig, Ends, Witnessed
  <1>6. CASE ListPlugins
    <2>1. changes' \in Nat
      BY <1>6 DEF ListPlugins, Fault, Witnessed
    <2> QED  BY <1>6, <2>1 DEF ListPlugins, Witnessed
  <1>7. CASE LoadPlugin
    BY <1>7 DEF LoadPlugin, Ends, Witnessed
  <1>8. CASE Dispatch
    BY <1>8 DEF Dispatch, Ends, Witnessed
  <1>9. CASE Act \/ ActFails
    <2>1. changes' \in Nat
      BY <1>9 DEF Act, ActFails, Fault, Witnessed
    <2>2. CASE Act
      BY <1>1, <2>1, <2>2 DEF Act, SeenMore, Witnessed
    <2>3. CASE ActFails
      BY <1>1, <2>1, <2>3 DEF ActFails, Ends, SeenMore, Witnessed
    <2> QED  BY <1>9, <2>2, <2>3
  <1>10. CASE StatConfig
    BY <1>10 DEF StatConfig, Ends, Witnessed
  <1>11. CASE ReadChecked
    BY <1>11 DEF ReadChecked, Witnessed
  <1>12. CASE CheckConfig
    <2>1. changes' \in Nat
      BY <1>12 DEF CheckConfig, Fault, Witnessed
    <2> QED  BY <1>12, <2>1 DEF CheckConfig, Witnessed
  <1>13. CASE CheckPlugin
    BY <1>13 DEF CheckPlugin, Witnessed
  <1>14. CASE Report
    BY <1>14 DEF Report, Ends, Witnessed
  <1>15. CASE Change
    BY <1>15 DEF Change, SeenMore, Witnessed
  <1> QED
    BY <1>2, <1>3, <1>4, <1>5, <1>6, <1>7, <1>8, <1>9, <1>10, <1>11, <1>12, <1>13, <1>14, <1>15
       DEF Next, Process

\* Before the first step of a process there is nothing to show.
LEMMA StartIsFresh ==
    ASSUME \/ run.stage = "typing" /\ UNCHANGED run
           \/ Start
    PROVE  Diagnosed' /\ Explained'
  <1>1. CASE run.stage = "typing" /\ UNCHANGED run
    BY <1>1 DEF Diagnosed, Explained
  <1>2. CASE Start
    <2>1. run'.stage = "started" /\ run'.file = Missing
      BY <1>2 DEF Start, Idle
    <2> QED  BY <2>1 DEF Diagnosed, Explained
  <1> QED  BY <1>1, <1>2

\* Each step of doctor local keeps its findings true.
LEMMA DiagnosedStays ==
    ASSUME Witnessed, Diagnosed, Next
    PROVE  Diagnosed'
  <1> DEFINE Quiet == UNCHANGED <<line, env, seen, file, plugins>>
  <1>1. CASE \E token \in Tokens : Type(token)
    BY <1>1, StartIsFresh DEF Type
  <1>2. CASE Enter \/ TryAgain
    BY <1>2, StartIsFresh DEF Enter, TryAgain
  <1>3. CASE ReadConfig \/ ListPlugins \/ LoadPlugin \/ Dispatch \/ Act \/ ActFails
    <2>1. UNCHANGED <<line, env>>
      BY <1>3 DEF ReadConfig, ListPlugins, LoadPlugin, Dispatch, Act, ActFails
    <2>2. ~Diagnoses
      BY <1>3 DEF Diagnosed, ReadConfig, ListPlugins, LoadPlugin, Dispatch, Act, ActFails
    <2> QED  BY <2>1, <2>2, SameMeaning DEF Diagnosed
  <1>4. CASE StatConfig
    <2>1. /\ run.stage = "started" /\ Diagnoses /\ Quiet
          /\ \/ run'.stage = "done" /\ run'.outcome # "runs"
             \/ /\ file = Missing /\ run'.stage = "inspects"
                /\ run'.outcome = "missing" /\ run'.file = run.file
             \/ run'.stage = "reads"
      BY <1>4 DEF StatConfig, Ends, Witnessed
    <2>2. run.file = Missing /\ file \in seen.files
      BY <2>1 DEF Diagnosed, Witnessed
    <2> QED  BY <2>1, <2>2 DEF Diagnosed
  <1>5. CASE ReadChecked
    <2>1. /\ Quiet /\ run'.stage = "inspects" /\ run'.file = file
          /\ run'.outcome \in {"blocked", "read"}
          /\ run'.outcome = "read" => file # Unreadable
      BY <1>5 DEF ReadChecked, Witnessed
    <2> QED  BY <2>1 DEF Diagnosed, Witnessed
  <1>6. CASE CheckConfig
    <2> DEFINE findings == ConfigFindings(run.outcome, ResolutionOf(run.file), FALSE)
    <2>1. /\ Quiet /\ run.stage = "inspects" /\ run'.stage = "checks"
          /\ run'.file = run.file /\ run'.outcome = run.outcome
          /\ \/ run' = [run EXCEPT !.stage = "checks", !.todo = Installed,
                                   !.report = [plugins |-> "passed", config |-> findings]]
             \/ run' = [run EXCEPT !.stage = "checks",
                                   !.report = [plugins |-> "failed", config |-> findings]]
      BY <1>6 DEF CheckConfig, Witnessed
    <2>2. SUFFICES ASSUME Diagnoses' PROVE Diagnosed'
      BY DEF Diagnosed
    <2>3. Diagnoses /\ \A content : ResolutionOf(content)' = ResolutionOf(content)
      BY <2>1, <2>2, SameMeaning
    <2>4. PICK status :
             /\ run'.report = [plugins |-> status, config |-> findings]
             /\ status = "failed" \/ run'.todo = Installed
      <3> HIDE DEF findings
      <3> QED  BY <2>1 DEF Witnessed
    <2>9. ASSUME NEW p \in Plugins
          PROVE  p \in run'.todo \/ OnceSound(p)' \/ run'.report.plugins = "failed"
      <3> HIDE DEF findings
      <3> QED  BY <2>1, <2>4 DEF OnceSound, Witnessed, Installed
    <2>5. (ConfigFindings(run.outcome, ResolutionOf(run.file), FALSE))'
              = ConfigFindings(run.outcome, ResolutionOf(run.file), FALSE)
      BY <2>1, <2>3
    <2>6. /\ run.outcome \in {"missing", "blocked", "read"}
          /\ run.outcome = "missing" => run.file = Missing
          /\ run.outcome = "read" => run.file # Unreadable
          /\ run.file \in seen.files
      BY <2>1, <2>3 DEF Diagnosed
    <2>7. run'.report = [plugins |-> run'.report.plugins,
                         config  |-> (ConfigFindings(run.outcome, ResolutionOf(run.file), FALSE))']
      <3>1. run'.report = [plugins |-> run'.report.plugins, config |-> findings]
        <4> HIDE DEF findings
        <4> QED  BY <2>4
      <3> QED  BY <2>5, <3>1
    <2>8. /\ run'.outcome \in {"missing", "blocked", "read"}
          /\ run'.outcome = "missing" => run'.file = Missing
          /\ run'.outcome = "read" => run'.file # Unreadable
          /\ run'.file \in seen'.files
      BY <2>1, <2>6
    <2> HIDE DEF findings
    <2> QED  BY <2>1, <2>7, <2>8, <2>9 DEF Diagnosed
  <1>7. CASE CheckPlugin
    <2> DEFINE p == NextListed
    <2>1. /\ Quiet /\ run.stage = "checks" /\ run'.stage = "checks"
          /\ run'.file = run.file /\ run'.outcome = run.outcome /\ run'.todo = run.todo \ {p}
          /\ run' = [run EXCEPT !.todo = run.todo \ {p},
                                !.report.plugins = IF plugins[p] = "valid" THEN @ ELSE "failed"]
      BY <1>7 DEF CheckPlugin, Witnessed
    <2>2. SUFFICES ASSUME Diagnoses' PROVE Diagnosed'
      BY DEF Diagnosed
    <2>3. /\ Diagnoses /\ \A content : ResolutionOf(content)' = ResolutionOf(content)
          /\ \A q \in Plugins : OnceSound(q) => OnceSound(q)'
      BY <2>1, <2>2, SameMeaning, HealthStays
    <2> DEFINE findings == ConfigFindings(run.outcome, ResolutionOf(run.file), FALSE)
    <2>4. /\ run.outcome \in {"missing", "blocked", "read"}
          /\ run.outcome = "missing" => run.file = Missing
          /\ run.outcome = "read" => run.file # Unreadable
          /\ run.file \in seen.files
          /\ run.report = [plugins |-> run.report.plugins, config |-> findings]
          /\ \A q \in Plugins : q \in run.todo \/ OnceSound(q) \/ run.report.plugins = "failed"
      BY <2>1, <2>3 DEF Diagnosed
    <2> HIDE DEF p
    <2>5. run'.report = [plugins |-> IF plugins[p] = "valid" THEN run.report.plugins ELSE "failed",
                         config  |-> findings]
      <3> HIDE DEF findings
      <3> QED  BY <2>1, <2>4 DEF Witnessed
    <2>6. (ConfigFindings(run.outcome, ResolutionOf(run.file), FALSE))' = findings
      BY <2>1, <2>3
    <2>7. p \in Plugins /\ plugins[p] = "valid" => OnceSound(p)
      BY DEF OnceSound, Witnessed
    <2> HIDE DEF findings
    <2>8. ASSUME NEW q \in Plugins
          PROVE  q \in run'.todo \/ OnceSound(q)' \/ run'.report.plugins = "failed"
      <3>1. CASE plugins[p] # "valid"
        BY <3>1, <2>5
      <3>2. CASE plugins[p] = "valid" /\ q = p
        BY <3>2, <2>3, <2>7
      <3>3. CASE plugins[p] = "valid" /\ q # p
        BY <3>3, <2>1, <2>3, <2>4, <2>5
      <3> QED  BY <3>1, <3>2, <3>3
    <2>9. run'.report = [plugins |-> run'.report.plugins, config |-> findings]
      BY <2>5
    <2> QED  BY <2>1, <2>4, <2>6, <2>8, <2>9 DEF Diagnosed
  <1>8. CASE Report
    <2>1. /\ Quiet /\ run.stage = "checks" /\ run.todo = {} /\ run'.stage = "done"
          /\ run'.outcome = "runs" => Healthy(run.report)
      BY <1>8 DEF Report, Ends, Witnessed
    <2>2. SUFFICES ASSUME Diagnoses', run'.outcome = "runs" PROVE WasHealthy'
      BY <2>1 DEF Diagnosed
    <2>3. Diagnoses
      BY <2>1, <2>2, SameMeaning
    <2> DEFINE input == ResolutionOf(run.file)
    <2>4. /\ run.outcome \in {"missing", "blocked", "read"}
          /\ run.outcome = "missing" => run.file = Missing
          /\ run.outcome = "read" => run.file # Unreadable
          /\ run.file \in seen.files /\ run.file \in Files
          /\ run.report = [plugins |-> run.report.plugins,
                           config  |-> ConfigFindings(run.outcome, input, FALSE)]
          /\ \A q \in Plugins : OnceSound(q) \/ run.report.plugins = "failed"
      BY <2>1, <2>3 DEF Diagnosed, Witnessed
    <2>5. input.file = run.file /\ input.env = env
      BY DEF ResolutionOf, Input
    <2> HIDE DEF input
    <2>6. /\ run.report.plugins # "failed"
          /\ \A k \in DOMAIN run.report.config : run.report.config[k] # "failed"
      BY <2>1, <2>2 DEF Healthy
    <2>7. /\ ~ResolveFails(input) /\ ~CredentialsFail(env, Inspect(input).profile)
          /\ run.outcome # "blocked"
      <3> DEFINE findings == ConfigFindings(run.outcome, input, FALSE)
      <3>0. run.report = [plugins |-> run.report.plugins, config |-> findings]
        BY <2>4
      <3> HIDE DEF findings
      <3>1. run.report.config = findings
        BY <3>0
      <3>2. \A k \in DOMAIN findings : findings[k] # "failed"
        BY <2>6, <3>1
      <3>3. input.file \in Files /\ (run.outcome = "missing" => input.file = Missing)
        BY <2>4, <2>5
      <3>4. /\ ~ResolveFails(input) /\ ~CredentialsFail(input.env, Inspect(input).profile)
            /\ run.outcome # "blocked"
        BY <2>4, <3>2, <3>3, HealthyConfiguration DEF findings
      <3> QED  BY <2>5, <3>4
    <2>8. WasHealthy
      <3>1. run.file # Unreadable
        BY <2>4, <2>7 DEF Missing, Unreadable
      <3> QED  BY <2>4, <2>6, <2>7, <3>1 DEF WasHealthy, Fails, input
    <2> QED  BY <2>1, <2>8, HealthStays
  <1>9. CASE Change
    <2>1. /\ UNCHANGED <<line, env, run>> /\ seen' = SeenMore
      BY <1>9 DEF Change
    <2>2. SUFFICES ASSUME Diagnoses' PROVE Diagnosed'
      BY DEF Diagnosed
    <2>3. /\ Diagnoses /\ \A content : ResolutionOf(content)' = ResolutionOf(content)
          /\ seen.files \subseteq seen.files'
          /\ \A q \in Plugins : OnceSound(q) => OnceSound(q)'
          /\ WasHealthy => WasHealthy'
      BY <2>1, <2>2, SameMeaning, HealthStays
    <2>4. (ConfigFindings(run.outcome, ResolutionOf(run.file), FALSE))'
              = ConfigFindings(run.outcome, ResolutionOf(run.file), FALSE)
      BY <2>1, <2>3
    <2> QED  BY <2>1, <2>3, <2>4 DEF Diagnosed
  <1> QED
    BY <1>1, <1>2, <1>3, <1>4, <1>5, <1>6, <1>7, <1>8, <1>9 DEF Next, Process

\* Each step keeps an explanation that of the file that was read.
LEMMA ExplainedStays ==
    ASSUME Witnessed, Explained, Next
    PROVE  Explained'
  <1>1. CASE \E token \in Tokens : Type(token)
    BY <1>1, StartIsFresh DEF Type
  <1>2. CASE Enter \/ TryAgain
    BY <1>2, StartIsFresh DEF Enter, TryAgain
  <1>3. CASE ReadConfig
    <2>1. SUFFICES ASSUME Explains' PROVE Explained'
      BY DEF Explained
    <2>2. UNCHANGED <<line, env>>
      BY <1>3 DEF ReadConfig
    <2>3. Explains /\ \A content : Fails(content)' = Fails(content)
      BY <2>1, <2>2, SameMeaning
    <2> DEFINE outcome == Outcome(line, <<>>, FALSE, Fails(file), LoadFails(file))
    <2>4. Fails(file) \in BOOLEAN
      BY DEF Fails, ResolveFails
    <2>5. /\ Outcome(line, <<>>, TRUE, Fails(file), LoadFails(file)) # "plugin"
          /\ outcome = "runs" => ~Fails(file)
      BY <2>3, <2>4, ExplainOutcome
    <2> HIDE DEF outcome
    <2>6. /\ run'.file = file
          /\ \/ run'.stage = "acts" /\ outcome = "runs"
             \/ run'.stage = "done" /\ run'.outcome # "runs"
      BY <1>3, <2>5 DEF ReadConfig, Ends, Witnessed, outcome
    <2> QED  BY <2>3, <2>5, <2>6 DEF Explained
  <1>4. CASE Act
    <2>1. /\ UNCHANGED <<line, env>> /\ run.stage = "acts" /\ run'.stage = "done"
          /\ run'.file = run.file
          /\ Explains => run'.report = Inspect(ResolutionOf(run.file)).settings
      BY <1>4 DEF Act, Witnessed
    <2>2. SUFFICES ASSUME Explains' PROVE Explained'
      BY DEF Explained
    <2>3. /\ Explains /\ \A content : Fails(content)' = Fails(content)
          /\ \A content : ResolutionOf(content)' = ResolutionOf(content)
      BY <2>1, <2>2, SameMeaning
    <2>4. ~Fails(run.file)
      BY <2>1, <2>3 DEF Explained
    <2>5. (Fails(run.file))' = Fails(run.file) /\ (ResolutionOf(run.file))' = ResolutionOf(run.file)
      BY <2>1, <2>3
    <2> QED  BY <2>1, <2>3, <2>4, <2>5 DEF Explained
  <1>7. CASE ActFails
    <2>1. UNCHANGED <<line, env>> /\ run'.stage = "done" /\ run'.outcome = "failed"
      BY <1>7 DEF ActFails, Ends, Witnessed
    <2> QED  BY <2>1, SameMeaning DEF Explained
  <1>5. CASE \/ ListPlugins \/ LoadPlugin \/ Dispatch \/ StatConfig \/ ReadChecked
             \/ CheckConfig \/ CheckPlugin \/ Report
    <2>1. UNCHANGED <<line, env>>
      BY <1>5 DEF ListPlugins, LoadPlugin, Dispatch, StatConfig, ReadChecked,
                  CheckConfig, CheckPlugin, Report
    <2>2. CASE StatConfig
      <3>1. ~Explains
        BY <2>2, ExplainsOnly DEF StatConfig
      <3> QED  BY <2>1, <3>1, SameMeaning DEF Explained
    <2>3. CASE ~StatConfig
      <3>1. ~Explains
        BY <1>5, <2>3 DEF Explained, ListPlugins, LoadPlugin, Dispatch, ReadChecked,
                          CheckConfig, CheckPlugin, Report
      <3> QED  BY <2>1, <3>1, SameMeaning DEF Explained
    <2> QED  BY <2>2, <2>3
  <1>6. CASE Change
    <2>1. UNCHANGED <<line, env, run>>
      BY <1>6 DEF Change
    <2>2. SUFFICES ASSUME Explains' PROVE Explained'
      BY DEF Explained
    <2>3. /\ Explains /\ \A content : Fails(content)' = Fails(content)
          /\ \A content : ResolutionOf(content)' = ResolutionOf(content)
      BY <2>1, <2>2, SameMeaning
    <2>4. (Fails(run.file))' = Fails(run.file) /\ (ResolutionOf(run.file))' = ResolutionOf(run.file)
      BY <2>1, <2>3
    <2> QED  BY <2>1, <2>3, <2>4 DEF Explained
  <1> QED
    BY <1>1, <1>2, <1>3, <1>4, <1>5, <1>6, <1>7 DEF Next, Process
-----------------------------------------------------------------------------
(* The theorems.                                                           *)

\* Every reachable state satisfies the inductive invariant: what a process
\* reports is about files and plugins that were there while it ran.
THEOREM InvocationInvariant == Spec => []IInv
  <1>1. Init => IInv
    <2>1. SUFFICES ASSUME Init PROVE IInv
      OBVIOUS
    <2>2. run.stage = "typing" /\ run = Idle
      BY <2>1 DEF Init, Idle
    <2>3. Diagnosed /\ Explained
      BY <2>2 DEF Diagnosed, Explained
    <2>4. Witnessed
      <3>1. env \in Envs /\ Missing \in Files
        BY <2>1, InvocationAssumption DEF Init
      <3> QED  BY <2>1, <3>1 DEF Init, Witnessed, Idle
    <2> QED  BY <2>3, <2>4 DEF IInv
  <1>2. ASSUME IInv, [Next]_vars PROVE IInv'
    <2>1. CASE Next
      BY <1>2, <2>1, WitnessedStays, DiagnosedStays, ExplainedStays DEF IInv
    <2>2. CASE UNCHANGED vars
      <3>1. UNCHANGED <<line, env, run, file, plugins, seen, changes>>
        BY <2>2 DEF vars
      <3>2. Witnessed'
        BY <1>2, <3>1 DEF IInv, Witnessed
      <3>3. /\ Diagnoses' = Diagnoses /\ Explains' = Explains
            /\ \A content : ResolutionOf(content)' = ResolutionOf(content)
            /\ \A content : Fails(content)' = Fails(content)
            /\ WasHealthy => WasHealthy'
            /\ \A q \in Plugins : OnceSound(q) => OnceSound(q)'
        BY <3>1, SameMeaning, HealthStays
      <3>4. /\ (Fails(run.file))' = Fails(run.file)
            /\ (ResolutionOf(run.file))' = ResolutionOf(run.file)
            /\ (ConfigFindings(run.outcome, ResolutionOf(run.file), FALSE))'
                  = ConfigFindings(run.outcome, ResolutionOf(run.file), FALSE)
        BY <3>1, <3>3
      <3>5. Diagnosed'
        BY <1>2, <3>1, <3>3, <3>4 DEF IInv, Diagnosed
      <3>6. Explained'
        BY <1>2, <3>1, <3>3, <3>4 DEF IInv, Explained
      <3> QED  BY <3>2, <3>5, <3>6 DEF IInv
    <2> QED  BY <1>2, <2>1, <2>2
  <1> QED  BY <1>1, <1>2, PTL DEF Spec

\* A clean report of doctor local is true of a configuration that there was
\* while it ran and of each plugin at some moment (runDoctorLocal), whatever
\* line asks for it, whatever the files hold and however often other processes
\* change them.
THEOREM HealthReportIsTrue == Spec => []HealthIsTrue
  <1>1. IInv => HealthIsTrue
    <2>1. SUFFICES ASSUME IInv, run.stage = "done", run.outcome = "runs", Diagnoses
                   PROVE  /\ \E content \in seen.files :
                                /\ content # Unreadable /\ ~Fails(content)
                                /\ ~CredentialsFail(env, Inspect(ResolutionOf(content)).profile)
                          /\ \A p \in Plugins : seen.plugins[p] # {"invalid"}
      BY DEF HealthIsTrue
    <2>2. WasHealthy
      BY <2>1 DEF IInv, Diagnosed
    <2> QED  BY <2>2 DEF WasHealthy, OnceSound
  <1> QED  BY <1>1, InvocationInvariant, PTL

\* config explain reports the credentials, the region and the warning control
\* that a command with the same file and environment uses (Inspect against
\* ResolveCredentials, ShouldWarnConfigCredentials), for every file, environment
\* and line.  The property leaves the warning control out where the environment's
\* is nothing but blanks: Inspect takes it as given, the commands as unset.
THEOREM ExplanationIsUsed == Spec => []ExplainIsUsed
  <1>1. IInv => ExplainIsUsed
    <2> DEFINE input == ResolutionOf(run.file)
    <2>1. SUFFICES ASSUME IInv, run.stage = "done", run.outcome = "runs", Explains
                   PROVE  LET profile == Inspect(input).profile
                          IN  /\ \A key \in {"ak", "sk"} :
                                    run.report[key].value = UsedCredential(env, profile, key).value
                              /\ run.report.region.value = profile.region
                              /\ Trimmed(env.warn) = env.warn =>
                                    run.report.warn.value = UsedWarning(env, profile)
      BY DEF ExplainIsUsed
    <2>2. ~ResolveFails(input) /\ run.report = Inspect(input).settings
      BY <2>1 DEF IInv, Explained, Fails
    <2>3. input.file = run.file /\ input.env = env
      BY DEF ResolutionOf, Input
    <2>4. run.file \in Files
      BY <2>1 DEF IInv, Witnessed
    <2> HIDE DEF input
    <2>5. ASSUME NEW key \in {"ak", "sk"}
          PROVE  Inspect(input).settings[key].value
                    = UsedCredential(env, Inspect(input).profile, key).value
      BY <2>2, <2>3, <2>4, CredentialsAgree
    <2>6. /\ Inspect(input).settings.region.value = Inspect(input).profile.region
          /\ Trimmed(env.warn) = env.warn =>
                Inspect(input).settings.warn.value = UsedWarning(env, Inspect(input).profile)
      BY <2>2, <2>3, <2>4, ControlsAgree
    <2> QED  BY <2>2, <2>5, <2>6
  <1> QED  BY <1>1, InvocationInvariant, PTL
-----------------------------------------------------------------------------
(* The repairs.                                                            *)

\* A plugin command has done what it is for, or was refused because the
\* configuration does not resolve: then config reset is the repair.
Tried(p, state) ==
    \/ run.outcome = "runs" /\ plugins[p] = state
    \/ run.outcome = "config" /\ Fails(run.file)

\* The configuration could not be read, or a call failed, or another process
\* came in between.
Stopped ==
    \/ run.outcome = "unreadable" /\ run.file = Unreadable
    \/ run.outcome = "failed" /\ changes > 0

\* Once a repair has ended, what it is for is repaired, or it was stopped; with
\* no fault and no other process it fails only over what it cannot handle.
RepairsRepair ==
    run.stage = "done" =>
        /\ line = ResetLine =>
              \/ run.outcome = "runs" /\ file = Missing
              \/ run.outcome = "failed" /\ file = Unreadable
              \/ Stopped
        /\ \A p \in Plugins :
              /\ line = RemoveLine(p)  => Tried(p, "absent") \/ Stopped
              /\ line = InstallLine(p) =>
                    \/ Tried(p, "valid")
                    \/ run.outcome = "failed" /\ plugins[p] = "invalid"
                    \/ Stopped

RepairLines == {ResetLine} \cup UNION { {RemoveLine(p), InstallLine(p)} : p \in Plugins }

\* A repair loads no plugin and diagnoses nothing, and acts only when it runs.
Repairing ==
    /\ line \in RepairLines =>
          /\ run.stage \in {"typing", "started", "acts", "done"}
          /\ run.stage = "acts" => run.outcome = "runs"
    /\ RepairsRepair

\* The arguments of a split line.
LEMMA SplitArgs == \A opts, args : SplitInto(opts, args).rest = args
  BY DEF SplitInto

\* What the lines of the repairs name.
LEMMA RepairMeaning ==
    /\ line = ResetLine => Resets /\ Named = {}
    /\ \A p \in Plugins :
          /\ line = RemoveLine(p) =>
                ~Resets /\ Named = {p} /\ Is(Args, 2, {"remove"}) /\ ~Is(Args, 2, {"install"})
                        /\ ~Is(Args, 2, {"reinstall"})
          /\ line = InstallLine(p) =>
                ~Resets /\ Named = {p} /\ ~Is(Args, 2, {"remove"}) /\ ~Is(Args, 2, {"reinstall"})
                        /\ Is(Args, 2, {"install", "reinstall"})
    /\ line \in RepairLines => ~Diagnoses
  <1>1. \A names, name : Word(name) \in Words(names) <=> name \in names
    BY DEF Word, Words, Token
  <1>2. ASSUME line = ResetLine
        PROVE  Resets /\ Named = {} /\ ~Is(Args, 1, {"doctor"})
    <2>1. Args = <<Word("config"), Word("reset")>>
      BY <1>2, RepairsSplit, SplitArgs DEF Args, Parsed
    <2>2. Len(Args) = 2 /\ Args[1] = Word("config") /\ Args[2] = Word("reset")
      BY <2>1
    <2>3. "config" \notin {"doctor"} /\ "config" \notin {"plugin", "plugins"}
      OBVIOUS
    <2>4. ~Is(Args, 1, {"doctor"}) /\ ~Is(Args, 1, {"plugin", "plugins"})
      BY <2>2, <2>3, OneWord
    <2>5. Is(Args, 1, {"config"}) /\ Is(Args, 2, {"reset"})
      BY <1>1, <2>2 DEF Is
    <2> QED  BY <2>4, <2>5 DEF Resets, Named
  <1>3. ASSUME NEW p \in Plugins, NEW sub \in {"remove", "install"},
               Args = <<Word("plugin"), Word(sub), Word(p)>>
        PROVE  /\ ~Resets /\ Named = {p} /\ ~Is(Args, 1, {"doctor"}) /\ ~Is(Args, 2, {"reinstall"})
               /\ sub = "remove" => Is(Args, 2, {"remove"}) /\ ~Is(Args, 2, {"install"})
               /\ sub = "install" => ~Is(Args, 2, {"remove"}) /\ Is(Args, 2, {"install", "reinstall"})
    <2>1. Len(Args) = 3 /\ Args[1] = Word("plugin") /\ Args[2] = Word(sub) /\ Args[3] = Word(p)
      BY <1>3
    <2>2. /\ "plugin" \notin {"doctor"} /\ "plugin" \notin {"config"} /\ sub \notin {"reinstall"}
          /\ sub = "install" => sub \notin {"remove"}
          /\ sub = "remove" => sub \notin {"install"}
      OBVIOUS
    <2>3. /\ ~Is(Args, 1, {"doctor"}) /\ ~Is(Args, 1, {"config"}) /\ ~Is(Args, 2, {"reinstall"})
          /\ sub = "install" => ~Is(Args, 2, {"remove"})
          /\ sub = "remove" => ~Is(Args, 2, {"install"})
      BY <2>1, <2>2, OneWord
    <2>4. /\ Is(Args, 1, {"plugin", "plugins"})
          /\ sub = "remove" => Is(Args, 2, {"remove"})
          /\ sub = "install" => Is(Args, 2, {"install", "reinstall"})
      BY <1>1, <2>1 DEF Is
    <2>5. \A q \in Plugins : Is(Args, 3, {q}) <=> q = p
      BY <1>1, <2>1 DEF Is
    <2>6. Named = {p}
      BY <2>4, <2>5 DEF Named
    <2> QED  BY <2>3, <2>4, <2>6 DEF Resets
  <1>4. ASSUME NEW p \in Plugins
        PROVE  /\ line = RemoveLine(p) => Args = <<Word("plugin"), Word("remove"), Word(p)>>
               /\ line = InstallLine(p) => Args = <<Word("plugin"), Word("install"), Word(p)>>
    BY RepairsSplit, SplitArgs DEF Args, Parsed
  <1>5. line \in RepairLines => ~Is(Args, 1, {"doctor"})
    BY <1>2, <1>3, <1>4 DEF RepairLines
  <1> QED  BY <1>2, <1>3, <1>4, <1>5 DEF Diagnoses, IsDoctorLocal

\* Of other lines nothing is said.
LEMMA OtherLines ==
    ASSUME UNCHANGED line, line \notin RepairLines
    PROVE  Repairing'
  <1>1. /\ line' \notin RepairLines /\ line' # ResetLine
        /\ \A p \in Plugins : line' # RemoveLine(p) /\ line' # InstallLine(p)
    BY DEF RepairLines
  <1>2. RepairsRepair'
    BY <1>1 DEF RepairsRepair
  <1> QED  BY <1>1, <1>2 DEF Repairing

\* Each step keeps a repair one.
LEMMA RepairingStays ==
    ASSUME Witnessed, Repairing, Next
    PROVE  Repairing'
  <1>1. CASE \E token \in Tokens : Type(token)
    BY <1>1 DEF Type, Repairing, RepairsRepair
  <1>2. CASE Enter \/ TryAgain
    <2>1. run'.stage = "started"
      BY <1>2 DEF Enter, TryAgain, Start, Idle
    <2> QED  BY <2>1 DEF Repairing, RepairsRepair
  <1>3. CASE ReadConfig
    <2> DEFINE outcome == Outcome(line, <<>>, FALSE, Fails(file), LoadFails(file))
               asked == Outcome(line, <<>>, TRUE, Fails(file), LoadFails(file))
    <2>1. /\ UNCHANGED <<line, env, file, plugins>> /\ run'.file = file
          /\ asked # "plugin" =>
                \/ run'.stage = "done" /\ run'.outcome = "unreadable" /\ file = Unreadable
                \/ /\ run'.stage = IF outcome = "runs" THEN "acts" ELSE "done"
                   /\ run'.outcome = outcome
      <3> HIDE DEF outcome, asked
      <3> QED  BY <1>3 DEF ReadConfig, Ends, Witnessed, outcome, asked
    <2>2. (Fails(run.file))' = Fails(file)
      BY <2>1, SameMeaning
    <2>3. Fails(file) \in BOOLEAN
      BY DEF Fails, ResolveFails
    <2>4. CASE line = ResetLine
      <3>1. asked = "runs" /\ outcome = "runs"
        BY <2>4, ResetRuns
      <3>2. /\ line' = ResetLine /\ \A p \in Plugins : line' \notin {RemoveLine(p), InstallLine(p)}
        BY <2>1, <2>4, RepairMeaning
      <3> HIDE DEF outcome, asked
      <3> QED  BY <2>1, <3>1, <3>2 DEF Repairing, RepairsRepair, Stopped
    <2>5. CASE line # ResetLine /\ line \in RepairLines
      <3> DEFINE tried == IF Fails(file) THEN "config" ELSE "runs"
      <3>1. PICK p \in Plugins : line \in {RemoveLine(p), InstallLine(p)}
        BY <2>5 DEF RepairLines
      <3>2. \A broken, fails, torn :
               Outcome(line, <<>>, broken, fails, torn) = IF fails THEN "config" ELSE "runs"
        BY <3>1, PluginRepairRuns
      <3>3. asked = tried /\ outcome = tried
        BY <3>2, Zenon
      <3> HIDE DEF outcome, asked
      <3> QED  BY <2>1, <2>2, <2>5, <3>3 DEF Repairing, RepairsRepair, Tried, Stopped
    <2>6. CASE line \notin RepairLines
      BY <2>1, <2>6, OtherLines
    <2> QED  BY <2>4, <2>5, <2>6
  <1>4. CASE Act
    <2>1. /\ UNCHANGED <<line, env>> /\ run.stage = "acts" /\ run'.stage = "done"
          /\ run'.outcome = run.outcome
      BY <1>4 DEF Act, Witnessed
    <2>2. line = ResetLine => file' = Missing
      BY <1>4, RepairMeaning DEF Act
    <2>3. ASSUME NEW p \in Plugins
          PROVE  /\ line = RemoveLine(p) => (plugins[p])' = "absent"
                 /\ line = InstallLine(p) => (plugins[p])' = "valid"
      <3>1. line \in {RemoveLine(p), InstallLine(p)} => p \in Named
        BY RepairMeaning
      <3> QED  BY <1>4, <3>1, RepairMeaning DEF Act
    <2>4. line \in RepairLines => run.outcome = "runs"
      BY <2>1 DEF Repairing
    <2> QED  BY <2>1, <2>2, <2>3, <2>4 DEF Repairing, RepairsRepair, Tried, RepairLines
  <1>7. CASE ActFails
    <2>1. /\ UNCHANGED <<line, env, file>> /\ run'.stage = "done" /\ run'.outcome = "failed"
      BY <1>7 DEF ActFails, Ends, Witnessed
    <2>2. Works => changes' > 0
      BY <1>7 DEF ActFails, Fault, Witnessed
    <2>3. line = ResetLine => file' = Unreadable \/ changes' > 0
      <3>1. line = ResetLine => Named = {}
        BY RepairMeaning
      <3> QED  BY <2>1, <2>2, <3>1 DEF Works
    <2>4. ASSUME NEW p \in Plugins
          PROVE  /\ line = RemoveLine(p) => changes' > 0
                 /\ line = InstallLine(p) => (plugins[p])' = "invalid" \/ changes' > 0
      <3>1. line = RemoveLine(p) => Works
        BY RepairMeaning DEF Works
      <3>2. line = InstallLine(p) => Works \/ plugins[p] = "invalid"
        BY RepairMeaning DEF Works
      <3>3. line = InstallLine(p) => plugins' = plugins
        BY <1>7, RepairMeaning DEF ActFails
      <3> QED  BY <2>2, <3>1, <3>2, <3>3
    <2> QED  BY <2>1, <2>3, <2>4 DEF Repairing, RepairsRepair, Stopped
  <1>5. CASE \/ ListPlugins \/ LoadPlugin \/ Dispatch \/ StatConfig \/ ReadChecked
             \/ CheckConfig \/ CheckPlugin \/ Report
    <2>1. UNCHANGED line
      BY <1>5 DEF ListPlugins, LoadPlugin, Dispatch, StatConfig, ReadChecked,
                  CheckConfig, CheckPlugin, Report
    <2>2. line \notin RepairLines
      BY <1>5, RepairMeaning DEF Repairing, ListPlugins, LoadPlugin, Dispatch, StatConfig,
                  ReadChecked, CheckConfig, CheckPlugin, Report
    <2> QED  BY <2>1, <2>2, OtherLines
  <1>6. CASE Change
    <2>1. UNCHANGED <<line, run>> /\ run.stage # "done"
      BY <1>6 DEF Change, Running
    <2> QED  BY <2>1 DEF Repairing, RepairsRepair
  <1> QED
    BY <1>1, <1>2, <1>3, <1>4, <1>5, <1>6, <1>7 DEF Next, Process

\* The commands against a configuration that does not resolve, a broken plugin
\* and a missing one (config reset, plugin remove, plugin install) do what a user
\* enters them for, whatever state the machine is in and whatever other
\* processes do, or they say what stopped them: Run refuses config reset only for
\* a file that it cannot read, and the plugin commands for that and for a
\* configuration that does not resolve; a removal fails only where a call failed
\* or another process interfered, an installation also over a bundle that does
\* not load.  It is the part of RepairsEnd that needs no fairness; what the
\* commands meet on disk is in ConfigStore and PluginStore.
THEOREM RepairsDoRepair == Spec => []RepairsRepair
  <1>1. Init => Repairing
    <2>1. SUFFICES ASSUME Init PROVE Repairing
      OBVIOUS
    <2>2. run.stage = "typing"
      BY <2>1 DEF Init, Idle
    <2> QED  BY <2>2 DEF Repairing, RepairsRepair
  <1>2. ASSUME IInv, Repairing, [Next]_vars PROVE Repairing'
    <2>1. CASE Next
      BY <1>2, <2>1, RepairingStays DEF IInv
    <2>2. CASE UNCHANGED vars
      <3>1. UNCHANGED <<line, env, run, file, plugins, changes>>
        BY <2>2 DEF vars
      <3>2. (Fails(run.file))' = Fails(run.file)
        BY <3>1, SameMeaning
      <3> QED  BY <1>2, <3>1, <3>2 DEF Repairing, RepairsRepair, Tried, Stopped
    <2> QED  BY <1>2, <2>1, <2>2
  <1>3. Repairing => RepairsRepair
    BY DEF Repairing
  <1> QED  BY <1>1, <1>2, <1>3, InvocationInvariant, PTL DEF Spec
=============================================================================
