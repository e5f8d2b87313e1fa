--------------------------- MODULE ConfigResolution ---------------------------
(***************************************************************************)
(* How internal/config turns the configuration file, the environment and   *)
(* the options of one invocation into the settings it runs with, and what  *)
(* internal/localdoctor finds in them.  Nothing here keeps state.          *)
(*                                                                         *)
(* A configuration is [active, ak, sk, warn, profiles], a profile [region, *)
(* language, endpoint, ak, sk, warn], and an environment [ak, sk,          *)
(* language, warn].  A text is "" where it is not set.  warn stands for    *)
(* both warning controls, which go through the same functions, and region  *)
(* for the request timeout too, which is taken from the profile alike.     *)
(***************************************************************************)
EXTENDS Naturals, Sequences, FiniteSets, SequencesExt, StoredFiles

Unset == ""

Candidate(value, source) == [value |-> value, source |-> source]

\* The candidate with the highest precedence that has a value.
FirstCandidate(candidates) ==
    LET given == { i \in DOMAIN candidates : candidates[i].value # Unset }
        first == CHOOSE i \in given : \A j \in given : i <= j
    IN  IF given = {} THEN Candidate(Unset, "unset") ELSE candidates[first]

\* conditionalCandidate: no candidate where its prerequisite is not there.
If(available, value, source) ==
    Candidate(IF available THEN value ELSE Unset, source)

-----------------------------------------------------------------------------
(* Resolution.                                                             *)

NoProfile == [region |-> Unset, language |-> Unset, endpoint |-> Unset,
              ak |-> Unset, sk |-> Unset, warn |-> Unset]

NoConfig == [active |-> Unset, ak |-> Unset, sk |-> Unset, warn |-> Unset,
             profiles |-> <<>>]

\* What Load can return: every profile has all fields, set or not.
IsConfig(cfg) ==
    /\ cfg = [active |-> cfg.active, ak |-> cfg.ak, sk |-> cfg.sk, warn |-> cfg.warn,
              profiles |-> cfg.profiles]
    /\ \A n \in DOMAIN cfg.profiles :
          LET p == cfg.profiles[n]
          IN  p = [region |-> p.region, language |-> p.language, endpoint |-> p.endpoint,
                   ak |-> p.ak, sk |-> p.sk, warn |-> p.warn]

\* Load over a file's bytes: none are an empty configuration; Torn stands for
\* all that is no JSON or holds a secret where none may be.
LoadFails(file) == file = Torn
Loaded(file) == IF IsWhole(file) THEN file.holds ELSE NoConfig

\* selectProfile: the option, the active profile, the only profile.
SelectProfile(cfg, option) ==
    LET names == DOMAIN cfg.profiles
        wanted == FirstCandidate(<<Candidate(option, "option"), Candidate(cfg.active, "config")>>)
        single == wanted.value = Unset /\ Cardinality(names) = 1
    IN  [ fails |-> \/ wanted.value # Unset /\ wanted.value \notin names
                    \/ wanted.value = Unset /\ Cardinality(names) > 1,
          name  |-> CASE wanted.value \in names -> wanted.value
                      [] single                 -> CHOOSE n \in names : TRUE
                      [] OTHER                  -> Unset ]

\* mutant: a global fallback goes before the profile's own value
WithDefaultsFirst(cfg, profile) ==
    [profile EXCEPT
        !.ak   = IF cfg.ak = Unset THEN @ ELSE cfg.ak,
        !.sk   = IF cfg.sk = Unset THEN @ ELSE cfg.sk,
        !.warn = IF cfg.warn = Unset THEN @ ELSE cfg.warn]

\* ApplyProfileDefaults
WithDefaults(cfg, profile) ==
    [profile EXCEPT
        !.ak   = IF @ = Unset THEN cfg.ak ELSE @,
        !.sk   = IF @ = Unset THEN cfg.sk ELSE @,
        !.warn = IF @ = Unset THEN cfg.warn ELSE @]

\* i18n.MatchLanguage over tags that are written as supported or not supported.
Languages == {"zh-CN", "en-US", "en-GB"}
Matched(language) == IF language \in Languages THEN language ELSE Unset

\* strings.TrimSpace and parseWarningBool: everything but a refusal warns.
Trimmed(text) == IF text = "blank" THEN Unset ELSE text
WarningBool(text) == IF text \in {"off", "false"} THEN "false" ELSE "true"

\* What one invocation hands to Inspect.
Input(file, env, profileOption, languageOption, locale) ==
    [file |-> file, env |-> env, profile |-> profileOption,
     language |-> languageOption, locale |-> locale]

\* The value of each setting and where it comes from; available is set where
\* the file loads and a profile is selected, or none is asked for.
Settings(input, cfg, available, name, profile) ==
    LET env == input.env
        credential(key) ==
            FirstCandidate(<<Candidate(env[key], "environment"),
                             If(available, profile[key], "profile"),
                             If(available, cfg[key], "config")>>)
    IN  [ profile  |-> IF available THEN name ELSE Unset,
          language |-> FirstCandidate(<<Candidate(Matched(input.language), "option"),
                                        Candidate(Matched(env.language), "environment"),
                                        If(available, Matched(profile.language), "profile"),
                                        Candidate(Matched(input.locale), "os"),
                                        Candidate("zh-CN", "default")>>),
          region   |-> FirstCandidate(<<If(available, profile.region, "profile")>>),
          endpoint |-> FirstCandidate(<<If(available, profile.endpoint, "profile")>>),
          ak       |-> credential("ak"),
          sk       |-> credential("sk"),
          warn     |-> FirstCandidate(<<
                         Candidate(IF env.warn = Unset THEN Unset ELSE WarningBool(env.warn),
                                   "environment"),
                         If(available, profile.warn, "profile"),
                         Candidate(cfg.warn, "config"),
                         Candidate("true", "default")>>) ]

InspectSelected(input, cfg, selected) ==
    LET loads == ~LoadFails(input.file)
        available == loads /\ ~selected.fails
        profile == IF available /\ selected.name # Unset
                   THEN cfg.profiles[selected.name] ELSE NoProfile
    IN  [ configFails  |-> ~loads,
          profileFails |-> loads /\ selected.fails,
          profile      |-> IF available THEN WithDefaults(cfg, profile) ELSE profile,
          settings     |-> Settings(input, cfg, available, selected.name, profile) ]

Inspect(input) ==
    LET cfg == Loaded(input.file)
    IN  InspectSelected(input, cfg, SelectProfile(cfg, input.profile))

\* Resolve stops where Inspect records a failure.
ResolveFails(input) ==
    LET inspection == Inspect(input)
    IN  inspection.configFails \/ inspection.profileFails

-----------------------------------------------------------------------------
(* What commands take from a resolution.                                   *)

\* ResolveCredentials over the environment and the selected profile.
UsedCredential(env, profile, key) ==
    FirstCandidate(<<Candidate(env[key], "environment"), Candidate(profile[key], "config")>>)

CredentialsFail(env, profile) ==
    \E key \in {"ak", "sk"} : UsedCredential(env, profile, key).value = Unset

\* ShouldWarnConfigCredentials and ShouldWarnDeprecated.
UsedWarning(env, profile) ==
    IF Trimmed(env.warn) # Unset THEN WarningBool(Trimmed(env.warn))
    ELSE IF profile.warn # Unset THEN profile.warn ELSE "true"

-----------------------------------------------------------------------------
(* The findings of the local doctor.                                       *)

\* evaluateConfigFile: seen is "missing", "blocked" (no path, not
\* a regular file or not readable) or "read"; open is set where others than
\* the owner have access.
FileFinding(seen, input, open) ==
    LET cfg == Loaded(input.file)
        stored == \/ cfg.ak # Unset \/ cfg.sk # Unset
                  \/ \E n \in DOMAIN cfg.profiles :
                        cfg.profiles[n].ak # Unset \/ cfg.profiles[n].sk # Unset
    IN  CASE seen = "blocked" -> "failed"
          [] seen = "missing" -> "skipped"
          [] seen = "read"    -> IF LoadFails(input.file) THEN "failed"
                                 ELSE IF stored /\ open THEN "warning" ELSE "passed"

\* mutant: one credential is enough
CredentialFindingEither(seen, inspection) ==
    LET sources == { inspection.settings.ak.source, inspection.settings.sk.source }
    IN  IF seen = "blocked" \/ inspection.configFails \/ inspection.profileFails
        THEN "skipped"
        ELSE IF sources = {"unset"} THEN "failed" ELSE "passed"

\* credentialFinding
CredentialFinding(seen, inspection) ==
    LET sources == { inspection.settings.ak.source, inspection.settings.sk.source }
    IN  IF seen = "blocked" \/ inspection.configFails \/ inspection.profileFails
        THEN IF sources = {"environment"} THEN "passed" ELSE "skipped"
        ELSE IF "unset" \in sources THEN "failed"
        ELSE IF sources = {"environment"} THEN "passed" ELSE "warning"

\* configFindings; an endpoint is accepted if it names a host over HTTPS.
ConfigFindings(seen, input, open) ==
    LET inspection == Inspect(input)
        settings == inspection.settings
        blocked == seen = "blocked" \/ inspection.configFails
        dependent == blocked \/ inspection.profileFails
    IN  [ config_file |-> FileFinding(seen, input, open),
          profile     |-> IF blocked THEN "skipped"
                          ELSE IF inspection.profileFails THEN "failed"
                          ELSE IF settings.profile = Unset THEN "skipped" ELSE "passed",
          credentials |-> CredentialFinding(seen, inspection),
          region      |-> IF dependent THEN "skipped"
                          ELSE IF settings.region.value = Unset THEN "warning" ELSE "passed",
          endpoint    |-> IF dependent \/ settings.endpoint.value = Unset THEN "skipped"
                          ELSE IF settings.endpoint.value = "https" THEN "passed" ELSE "failed" ]
=============================================================================
