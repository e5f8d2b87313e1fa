--------------------------- MODULE NetworkDoctor ---------------------------
(***************************************************************************)
(* ctyun doctor network (internal/networkdoctor): a plan of checks that    *)
(* depend on each other is built from the configured sources and endpoints *)
(* (Build), executed in waves of concurrent probes (Run), and reduced to   *)
(* one row for each source and endpoint and to an exit status.             *)
(*                                                                         *)
(* A probe is an external call with any outcome.  An index or a signature  *)
(* that is fetched belongs to one of the publications of its host, and an  *)
(* index verifies only with the signature of the same publication.         *)
(*                                                                         *)
(* Abstracted: the categories and texts of failures, and durations.  The   *)
(* warnings that evaluateCapabilityResults puts on other checks than       *)
(* capabilities are left out: no row is made from them.                    *)
(***************************************************************************)
EXTENDS Naturals, FiniteSets, Sequences, FiniteSetsExt, SequencesExt

CONSTANTS Inputs,       \* what Build may be given
          Publications  \* what a host may serve as index or signature

(* An input has the sources in order, each with the origins of its         *)
(* candidates; the endpoints; the route target of every origin, which is   *)
(* that of a proxy if there is one; and the release public key.            *)
ASSUME DoctorAssumption ==
    \A in \in Inputs :
        /\ in.key \in {"good", "bad", "missing"}
        /\ in.sources \in Seq(ToSet(in.sources)) /\ in.endpoints \in Seq(ToSet(in.endpoints))
        /\ \A s \in ToSet(in.sources) :
              s.candidates \in Seq(ToSet(s.candidates)) /\ s.subject # "ctyun"
        /\ \A i, j \in DOMAIN in.sources :
              i # j => in.sources[i].subject # in.sources[j].subject

VARIABLES plan,      \* the checks in planned order, and what each depends on
          result,    \* result[c]: "none" until c has been completed
          data,      \* data[c]: what was fetched by c
          wave,      \* the checks of the current wave
          outputs,   \* outputs[c]: output of a check of the wave that is done
          queue,     \* checks that the coordinator has still to record
          progress,  \* the number of completed checks the observer was told
          phase,     \* where the coordinator is
          fault,     \* has the display, the observer or the writer failed?
          report     \* the rows printed

vars == <<plan, result, data, wave, outputs, queue, progress, phase, fault, report>>

-----------------------------------------------------------------------------
(* Build.                                                                  *)

Kind(c) == c[1]
PublicKey == <<"configuration">>

(* The checks of one candidate.  Those with an identity that exists are    *)
(* shared: the route by all, the HTTPS probe within a subject.             *)
CandidateChecks(in, source, k) ==
    LET origin == source.candidates[k]
        s      == source.subject
    IN << <<"route", in.route[origin]>>, <<"https", s, origin>>,
          <<"index", s, k>>, <<"signature", s, k>>, <<"verification", s, k>> >>

EndpointChecks(in, origin) ==
    << <<"route", in.route[origin]>>, <<"https", "ctyun", origin>> >>

Capabilities(in) ==
    [i \in 1..Len(in.sources) |-> <<"capability", in.sources[i].subject>>]
    \o [i \in 1..Len(in.endpoints) |-> <<"capability", "ctyun", in.endpoints[i]>>]

SourceChecks(in, source) ==
    FlattenSeq([k \in 1..Len(source.candidates) |-> CandidateChecks(in, source, k)])

(* The key is looked at only if there is something to verify with it. *)
KeyChecks(in) == IF in.sources = <<>> THEN <<>> ELSE <<PublicKey>>

Planned(in) ==
    KeyChecks(in)
    \o FlattenSeq([i \in 1..Len(in.sources) |-> SourceChecks(in, in.sources[i])])
    \o FlattenSeq([i \in 1..Len(in.endpoints) |-> EndpointChecks(in, in.endpoints[i])])
    \o Capabilities(in)

(* A check that exists already is shared. *)
AddOnce(checks, c) == IF c \in ToSet(checks) THEN checks ELSE Append(checks, c)

AddEach(list) ==
    LET added[n \in 0..Len(list)] == IF n = 0 THEN <<>> ELSE AddOnce(added[n - 1], list[n])
    IN  added

Checks(in) == AddEach(Planned(in))[Len(Planned(in))]

DependsOn(in, c) ==
    LET Candidates(s) == (CHOOSE x \in ToSet(in.sources) : x.subject = s).candidates IN
    CASE Kind(c) \in {"configuration", "route"} -> <<>>
      [] Kind(c) = "https"                  -> << <<"route", in.route[c[3]]>> >>
      [] Kind(c) \in {"index", "signature"} -> << <<"https", c[2], Candidates(c[2])[c[3]]>> >>
      [] Kind(c) = "verification"           -> <<PublicKey, <<"index", c[2], c[3]>>, <<"signature", c[2], c[3]>> >>
      [] Kind(c) = "capability" /\ c[2] = "ctyun" -> << <<"https", "ctyun", c[3]>> >>
      [] OTHER -> [k \in 1..Len(Candidates(c[2])) |-> <<"verification", c[2], k>>]

Build(in) == [checks    |-> Checks(in),
              dependsOn |-> [c \in ToSet(Checks(in)) |-> DependsOn(in, c)],
              key       |-> in.key]

-----------------------------------------------------------------------------
All           == ToSet(plan.checks)
Needed(c)     == ToSet(plan.dependsOn[c])
Done          == {c \in All : result[c] # "none"}
First(S)      == plan.checks[Min({i \in DOMAIN plan.checks : plan.checks[i] \in S})]
IsCapability(c) == Kind(c) = "capability"
IsRow(c)      == Kind(c) = "verification" \/ (Kind(c) = "https" /\ c[2] = "ctyun")

NoData == "no data"
Ended  == {"ok", "failed"}

TypeOK ==
    /\ \A c \in All : result[c] \in {"none", "passed"} \cup
                         IF IsCapability(c) THEN {} ELSE {"failed", "skipped"}
    /\ data \in [All -> Publications \cup {NoData}]
    /\ wave \subseteq All /\ DOMAIN outputs \subseteq wave
    /\ queue \subseteq All \ Done
    /\ progress \in 0..Len(plan.checks)
    /\ phase \in {"select", "skip", "run", "collect", "report"} \cup Ended
    /\ fault \in BOOLEAN
    /\ \A c \in DOMAIN report : IsRow(c) /\ report[c].status \in {"passed", "warning", "failed"}

Init ==
    /\ \E in \in Inputs : plan = Build(in)
    /\ result = [c \in All |-> "none"]
    /\ data = [c \in All |-> NoData]
    /\ wave = {} /\ outputs = <<>> /\ queue = {} /\ report = <<>>
    /\ progress = 0 /\ fault = FALSE
    /\ phase \in {"select", "failed"}        \* display.Start may fail

-----------------------------------------------------------------------------
(* readyChecks.                                                            *)

Complete(c) == result[c] = "none" /\ Needed(c) \subseteq Done

UnmetIfFailed(c) == \E d \in Needed(c) : result[d] = "failed"   \* mutant: skipped is good enough
Unmet(c) == \E d \in Needed(c) : result[d] \in {"failed", "skipped"}

Skips(c) == Complete(c) /\ Unmet(c) /\ ~IsCapability(c)

Ready(c) == Complete(c) /\ ~Skips(c)

(* The next wave, the end of the plan, or a cycle in it. *)
Select ==
    /\ phase = "select"
    /\ LET ready == {c \in All : Ready(c)}
           skipped == {c \in All : Skips(c)} IN
       /\ wave' = ready
       /\ queue' = skipped
       /\ phase' = IF Done = All THEN "report"
                   ELSE IF skipped # {} THEN "skip"
                   ELSE IF ready # {} THEN "run" ELSE "failed"
    /\ UNCHANGED <<plan, result, data, outputs, progress, fault, report>>

(* The observer is told of the check that has just been completed, or its  *)
(* error ends Run.                                                         *)
Observe(next) ==
    \/ /\ progress' = Cardinality({c \in All : result'[c] # "none"})
       /\ phase' = next
       /\ UNCHANGED fault
    \/ /\ phase' = "failed" /\ fault' = TRUE
       /\ UNCHANGED progress

Rest == queue \ {First(queue)}

AfterSkips == IF Rest # {} THEN "skip" ELSE IF wave = {} THEN "select" ELSE "run"

SkipUnrecorded ==                 \* mutant: skipped checks are not recorded as completed
    /\ phase = "skip"
    /\ queue' = Rest
    /\ phase' = AfterSkips
    /\ UNCHANGED <<plan, result, data, wave, outputs, progress, fault, report>>
(* A check that rests on a failed one is completed without being probed. *)
Skip ==
    /\ phase = "skip"
    /\ result' = [result EXCEPT ![First(queue)] = "skipped"]
    /\ queue' = Rest
    /\ Observe(AfterSkips)
    /\ UNCHANGED <<plan, data, wave, outputs, report>>

-----------------------------------------------------------------------------
(* runWave and executeCheck: every check of the wave runs concurrently.    *)
(* Any probe may find its deadline passed.                                 *)

Failure == [status |-> "failed", data |-> NoData]
Success(d) == [status |-> "passed", data |-> d]

(* The index and the signature a verification depends on. *)
Verifies(c) == /\ plan.key = "good"
               /\ data[plan.dependsOn[c][2]] = data[plan.dependsOn[c][3]]

Successes(c) ==
    CASE Kind(c) \in {"index", "signature"} -> {Success(d) : d \in Publications}
      [] Kind(c) = "configuration" -> IF plan.key = "missing" THEN {} ELSE {Success(NoData)}
      [] Kind(c) = "verification"  -> IF Verifies(c) THEN {Success(NoData)} ELSE {}
      [] OTHER                     -> {Success(NoData)}

(* The state of a capability is left to the report. *)
Outcomes(c) == IF IsCapability(c) THEN {Success(NoData)} ELSE {Failure} \cup Successes(c)

Probe(c) ==
    /\ phase = "run" /\ c \in wave \ DOMAIN outputs
    /\ \E out \in Outcomes(c) :
          outputs' = [x \in DOMAIN outputs \cup {c} |-> IF x = c THEN out ELSE outputs[x]]
    /\ UNCHANGED <<plan, result, data, wave, queue, progress, phase, fault, report>>

(* All outputs have arrived; they are taken in planned order. *)
Collect ==
    /\ phase = "run" /\ DOMAIN outputs = wave
    /\ queue' = wave
    /\ phase' = "collect"
    /\ UNCHANGED <<plan, result, data, wave, outputs, progress, fault, report>>

Record ==
    /\ phase = "collect"
    /\ LET c == First(queue) IN
       /\ result' = [result EXCEPT ![c] = outputs[c].status]
       /\ data' = [data EXCEPT ![c] = outputs[c].data]
    /\ queue' = Rest
    /\ IF Rest = {} THEN wave' = {} /\ outputs' = <<>> ELSE UNCHANGED <<wave, outputs>>
    /\ Observe(IF Rest = {} THEN "select" ELSE "collect")
    /\ UNCHANGED <<plan, report>>

-----------------------------------------------------------------------------
(* buildReport.                                                            *)

(* evaluateCapabilityCheck. *)
CapabilityStatus(c) ==
    LET passed == {d \in Needed(c) : result[d] = "passed"} IN
    IF passed = {} THEN "failed" ELSE IF passed = Needed(c) THEN "passed" ELSE "warning"

FailedCapabilities == {c \in All : IsCapability(c) /\ CapabilityStatus(c) = "failed"}

(* rootFailure: the first failed check below a check, depth first. *)
Roots ==
    LET Root[x \in All] ==
            LET causes == {i \in 1..Len(plan.dependsOn[x]) : result[Root[plan.dependsOn[x][i]]] = "failed"}
            IN IF result[x] = "failed" \/ causes = {} THEN x
               ELSE Root[plan.dependsOn[x][CHOOSE i \in causes : \A j \in causes : i <= j]]
    IN Root

RootFailureShallow(c) == c             \* mutant: a skipped check is its own cause
RootFailure(c) == Roots[c]

(* visibleSourceResult and visibleEndpointResult. *)
Row(c) ==
    IF result[c] = "passed" THEN [status |-> "passed", cause |-> c]
    ELSE [status |-> IF Kind(c) = "verification" /\ CapabilityStatus(<<"capability", c[2]>>) # "failed"
                     THEN "warning" ELSE "failed",
          cause  |-> RootFailure(c)]

(* Run has returned; runDoctor prints the rows and sets the exit status. *)
Report ==
    /\ phase = "report"
    /\ \/ /\ report' = [c \in {x \in All : IsRow(x)} |-> Row(c)]
          /\ phase' = IF FailedCapabilities = {} THEN "ok" ELSE "failed"
          /\ UNCHANGED fault
       \/ phase' = "failed" /\ fault' = TRUE /\ UNCHANGED report
    /\ UNCHANGED <<plan, result, data, wave, outputs, queue, progress>>

-----------------------------------------------------------------------------
Coordinate == Select \/ Skip \/ Collect \/ Record \/ Report

Next == Coordinate \/ \E c \in wave : Probe(c)

Spec == Init /\ [][Next]_vars

(* The coordinator runs, and every probe returns by its deadline. *)
FairSpec == Spec /\ WF_vars(Coordinate) /\ WF_vars(\E c \in wave : Probe(c))

-----------------------------------------------------------------------------
(* What c rests on, directly or not. *)
Below(S) == S \cup UNION {Needed(c) : c \in S}
Chain(c) == Below(Below(Below({c})))

(* Nothing is probed over something that has not passed: when a probe      *)
(* other than the summary of a capability returns, all it rests on, also   *)
(* at a distance, has passed before the wave began (readyChecks, runWave). *)
ProbedOverPassed ==
    [][\A c \in DOMAIN outputs' \ DOMAIN outputs :
          ~IsCapability(c) => \A d \in Chain(c) \ {c} : result[d] = "passed"]_vars

(* Each check is completed and told to the observer exactly once, skipped  *)
(* ones included, and a report is made only of a finished plan.            *)
EveryCheckReported ==
    /\ ~fault => progress = Cardinality(Done)
    /\ phase \in {"report", "ok"} => Done = All /\ progress = Len(plan.checks)

(* The rows and the exit status agree with what the probes found: a row    *)
(* passed if its whole chain did, a failed one is a warning only if        *)
(* another candidate of its source works, and it names a check of its      *)
(* chain that really failed over checks that passed; the command succeeds  *)
(* just if every source has a verified candidate and every endpoint        *)
(* answers; and what was verified is one publication of one candidate.     *)
(* Rows are told apart by candidate and origin, as they are here; in the   *)
(* code stableID joins their parts with hyphens (plan.go:115), so two      *)
(* origins that differ only in punctuation would share a row.              *)
ReportIsTrue ==
    LET Works(c) == \A d \in Chain(c) : result[d] = "passed" IN
    /\ \A c \in DOMAIN report :
          /\ report[c].status = "passed" <=> Works(c)
          /\ report[c].status = "warning" => \E v \in DOMAIN report : v[1] = c[1] /\ v[2] = c[2] /\ Works(v)
          /\ report[c].status # "passed" =>
                LET cause == report[c].cause IN
                /\ cause \in Chain(c) /\ result[cause] = "failed"
                /\ \A d \in Chain(cause) \ {cause} : result[d] = "passed"
    /\ ~fault /\ DOMAIN report # {} =>
          (phase = "ok" <=> \A k \in All : IsCapability(k) => \E d \in Needed(k) : Works(d))
    /\ \A s \in {c[2] : c \in {x \in All : Kind(x) = "verification"}}, k \in 1..3 :
          <<"verification", s, k>> \in Done /\ result[<<"verification", s, k>>] = "passed" =>
             data[<<"index", s, k>>] = data[<<"signature", s, k>>] /\ plan.key = "good"

(* The command ends, whatever the probes find and however late. *)
DoctorEnds == <>(phase \in Ended)
=============================================================================
