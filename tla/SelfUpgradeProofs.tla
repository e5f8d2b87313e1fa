------------------------- MODULE SelfUpgradeProofs -------------------------
(***************************************************************************)
(* Theorems about SelfUpgrade, for any number of processes, hosts and      *)
(* versions.                                                               *)
(***************************************************************************)
EXTENDS SelfUpgrade, TLAPS

Stages == {"ready"} \cup Working \cup Ended

Runs == [stage : Stages, sources : Seq(Sources), own : Versions \cup {0},
         found : Versions \cup {0}, installed : BOOLEAN, alone : BOOLEAN, faults : Nat]

Type ==
    /\ index \in [Sources -> Versions \cup {0}]
    /\ signature \in [Sources -> Versions \cup {0}]
    /\ place \in [Binaries -> Places]
    /\ version \in [Binaries -> Versions]
    /\ saved \in [Procs -> SUBSET Binaries]
    /\ run \in [Procs -> Runs]

(* Nothing happens to the other processes, and this one keeps what it read *)
(* of its own version and of the others.                                   *)
Moves(p, stage) ==
    /\ run' \in [Procs -> Runs]
    /\ \A q \in Procs : q # p => run'[q] = run[q]
    /\ run'[p].stage = stage
    /\ run'[p].own = run[p].own /\ run'[p].alone = run[p].alone

(* ... and what it found. *)
Keeps(p) ==
    /\ run'[p].sources = run[p].sources /\ run'[p].found = run[p].found

LEMMA GotoMoves ==
    ASSUME Type, NEW p \in Procs, NEW s \in Stages, Goto(p, s)
    PROVE  /\ Moves(p, s) /\ Keeps(p)
           /\ run'[p].faults = run[p].faults /\ run'[p].installed = run[p].installed
BY DEF Type, Runs, Goto, Moves, Keeps

LEMMA FaultMoves ==
    ASSUME Type, NEW p \in Procs, NEW s \in Stages, Fault(p, s)
    PROVE  /\ Moves(p, s) /\ Keeps(p)
           /\ run'[p].faults = run[p].faults + 1 /\ run'[p].installed = run[p].installed
<1> DEFINE n == run[p].faults + 1
           r == [run[p] EXCEPT !.stage = s, !.faults = n]
<1>1. run[p] \in Runs /\ n \in Nat
    BY DEF Type, Runs
<1>2. /\ r \in Runs /\ r.stage = s /\ r.sources = run[p].sources
      /\ r.own = run[p].own /\ r.alone = run[p].alone /\ r.found = run[p].found
      /\ r.faults = n /\ r.installed = run[p].installed
    <2> HIDE DEF n
    <2> QED
        BY <1>1 DEF Runs
<1>3. run' = [run EXCEPT ![p] = r]
    BY DEF Fault
<1> HIDE DEF r
<1> QED
    BY <1>2, <1>3 DEF Type, Moves, Keeps

LEMMA NextSourceMoves ==
    ASSUME Type, NEW p \in Procs, NextSource(p)
    PROVE  /\ run'[p].faults = run[p].faults /\ run'[p].installed = run[p].installed
           /\ \/ Moves(p, "index") /\ run'[p].sources # <<>>
              \/ Moves(p, "failed")
<1>1. CASE Goto(p, "failed")
    BY <1>1, GotoMoves DEF Stages, Ended
<1>2. CASE /\ Len(run[p].sources) > 1
           /\ run' = [run EXCEPT ![p].stage = "index", ![p].sources = Tail(@)]
    <2>1. run[p] \in Runs
        BY DEF Type
    <2>2. run[p].sources \in Seq(Sources)
        BY <2>1 DEF Runs
    <2>3. Tail(run[p].sources) \in Seq(Sources) /\ Tail(run[p].sources) # <<>>
        <3> DEFINE t == run[p].sources
        <3>1. t \in Seq(Sources) /\ Len(t) > 1
            BY <1>2, <2>2
        <3> HIDE DEF t
        <3>2. Tail(t) \in Seq(Sources) /\ Len(Tail(t)) = Len(t) - 1 /\ Len(t) \in Nat
            BY <3>1
        <3>3. Len(Tail(t)) # 0
            BY <3>1, <3>2
        <3>4. Tail(t) # <<>>
            <4>1. Len(<<>>) = 0
                OBVIOUS
            <4> QED
                BY <3>3, <4>1
        <3> QED
            BY <3>2, <3>4 DEF t
    <2> DEFINE r == [run[p] EXCEPT !.stage = "index", !.sources = Tail(@)]
    <2>4. /\ r \in Runs /\ r.stage = "index" /\ r.sources = Tail(run[p].sources)
          /\ r.own = run[p].own /\ r.alone = run[p].alone
          /\ r.faults = run[p].faults /\ r.installed = run[p].installed
        BY <2>1, <2>3 DEF Runs, Stages, Working
    <2>5. run' = [run EXCEPT ![p] = r]
        BY <1>2
    <2> HIDE DEF r
    <2> QED
        BY <2>3, <2>4, <2>5 DEF Type, Moves
<1> QED
    BY <1>1, <1>2 DEF NextSource

LEMMA FetchIndexMoves ==
    ASSUME Type, NEW p \in Procs, Source(p) \in Sources, FetchIndex(p)
    PROVE  /\ Moves(p, "signature") /\ run'[p].sources = run[p].sources
           /\ run'[p].found = index[Source(p)]
           /\ run'[p].faults = run[p].faults /\ run'[p].installed = run[p].installed
<1> DEFINE f == index[Source(p)]
<1>1. f \in Versions \cup {0}
    BY DEF Type
<1>2. run' = [run EXCEPT ![p].stage = "signature", ![p].found = f]
    BY DEF FetchIndex
<1> HIDE DEF f
<1>3. "signature" \in Stages
    BY DEF Stages, Working
<1> QED
    BY <1>1, <1>2, <1>3 DEF Type, Runs, Moves, f

LEMMA MoveInMoves ==
    ASSUME Type, NEW p \in Procs, MoveIn(p)
    PROVE  /\ Moves(p, "dropOld") /\ Keeps(p)
           /\ run'[p].faults = run[p].faults /\ run'[p].installed
<1>1. run' = [run EXCEPT ![p].stage = "dropOld", ![p].installed = TRUE]
    BY DEF MoveIn
<1>2. "dropOld" \in Stages
    BY DEF Stages, Working
<1> QED
    BY <1>1, <1>2 DEF Type, Runs, Moves, Keeps

LEMMA LaunchMoves ==
    ASSUME Type, NEW p \in Procs, NEW choice \in Choices, Launch(p, choice)
    PROVE  /\ run' \in [Procs -> Runs]
           /\ \A q \in Procs : q # p =>
                 /\ run'[q].stage = run[q].stage /\ run'[q].sources = run[q].sources
                 /\ run'[q].own = run[q].own /\ run'[q].found = run[q].found
                 /\ run'[q].installed = run[q].installed /\ run'[q].faults = run[q].faults
                 /\ run'[q].alone <=> run[q].alone /\ ~InProgress(q)
           /\ run'[p].stage = "index" /\ run'[p].sources = choice /\ choice # <<>>
           /\ \E b \in Installed : run'[p].own = version[b]
           /\ run'[p].installed = run[p].installed /\ run'[p].faults = run[p].faults
           /\ run'[p].alone <=> \A o \in Procs : ~InProgress(o)
<1>1. PICK b \in Installed :
          run' = [q \in Procs |->
             IF q = p
             THEN [run[p] EXCEPT !.stage = "index", !.sources = choice,
                                 !.own = version[b],
                                 !.alone = \A o \in Procs : ~InProgress(o)]
             ELSE [run[q] EXCEPT !.alone = @ /\ ~InProgress(q)]]
    BY DEF Launch
<1>2. choice \in Seq(Sources) /\ choice # <<>>
    BY UpgradeAssumption
<1>3. version[b] \in Versions
    BY DEF Type, Installed
<1>4. "index" \in Stages
    BY DEF Stages, Working
<1> DEFINE v == version[b]
           o == \A q \in Procs : ~InProgress(q)
           r == [run[p] EXCEPT !.stage = "index", !.sources = choice, !.own = v, !.alone = o]
           s(q) == [run[q] EXCEPT !.alone = @ /\ ~InProgress(q)]
<1>5. run[p] \in Runs
    BY DEF Type
<1>6. o \in BOOLEAN
    OBVIOUS
<1>7. /\ r \in Runs /\ r.stage = "index" /\ r.sources = choice /\ r.own = v /\ r.alone = o
      /\ r.installed = run[p].installed /\ r.faults = run[p].faults
    <2> HIDE DEF o, v
    <2>1. v \in Versions
        BY <1>3 DEF v
    <2> QED
        BY <1>2, <1>4, <1>5, <1>6, <2>1 DEF Runs
<1>8. ASSUME NEW q \in Procs
      PROVE  /\ s(q) \in Runs /\ s(q).stage = run[q].stage /\ s(q).sources = run[q].sources
             /\ s(q).own = run[q].own /\ s(q).found = run[q].found
             /\ s(q).installed = run[q].installed /\ s(q).faults = run[q].faults
             /\ s(q).alone = (run[q].alone /\ ~InProgress(q))
    <2>1. run[q] \in Runs
        BY DEF Type
    <2> DEFINE a == run[q].alone /\ ~InProgress(q)
    <2>2. a \in BOOLEAN
        OBVIOUS
    <2>3. s(q) = [run[q] EXCEPT !.alone = a]
        OBVIOUS
    <2> HIDE DEF a, s
    <2> QED
        BY <2>1, <2>2, <2>3 DEF Runs, a
<1>9. run' = [q \in Procs |-> IF q = p THEN r ELSE s(q)]
    BY <1>1
<1> HIDE DEF r, s
<1>10. run'[p] = r /\ \A q \in Procs : q # p => run'[q] = s(q)
    BY <1>9
<1>11. run' \in [Procs -> Runs]
    BY <1>7, <1>8, <1>9
<1>12. \A q \in Procs : q # p => (run'[q].alone <=> run[q].alone /\ ~InProgress(q))
    BY <1>8, <1>10
<1>13. run'[p].alone <=> \A q \in Procs : ~InProgress(q)
    BY <1>7, <1>10
<1>14. \A q \in Procs : q # p =>
          /\ run'[q].stage = run[q].stage /\ run'[q].sources = run[q].sources
          /\ run'[q].own = run[q].own /\ run'[q].found = run[q].found
          /\ run'[q].installed = run[q].installed /\ run'[q].faults = run[q].faults
    BY <1>8, <1>10
<1>15. /\ run'[p].stage = "index" /\ run'[p].sources = choice
       /\ \E c \in Installed : run'[p].own = version[c]
       /\ run'[p].installed = run[p].installed /\ run'[p].faults = run[p].faults
    BY <1>7, <1>10
<1> QED
    BY <1>2, <1>11, <1>12, <1>13, <1>14, <1>15

-----------------------------------------------------------------------------
(* What a process installs was released on its source.                     *)

(* Stages in which a process has taken an index to be genuine. *)
Decided == {"decide", "download", "extract", "moveAside", "moveIn", "rollback",
            "dropOld", "cleanup", "report"}

(* A signature never runs ahead of its index, and the version a process    *)
(* goes on with was signed by its source.                                  *)
Signed ==
    /\ \A s \in Sources : signature[s] <= index[s]
    /\ \A p \in Procs :
          /\ run[p].stage \in Decided \cup {"index", "signature"} => run[p].sources # <<>>
          /\ run[p].stage \in Decided \cup {"signature"} => run[p].found \in Versions
          /\ run[p].stage \in Decided => run[p].found <= signature[Source(p)]

LEMMA VersionsAreNumbers == Versions \cup {0} \subseteq Nat
BY UpgradeAssumption

LEMMA SourceIsOne ==
    ASSUME Type, NEW p \in Procs, run[p].sources # <<>>
    PROVE  Source(p) \in Sources
<1> DEFINE t == run[p].sources
<1>1. t \in Seq(Sources) /\ t # <<>>
    BY DEF Type, Runs
<1> HIDE DEF t
<1>2. Head(t) \in Sources
    BY <1>1
<1> QED
    BY <1>2 DEF t, Source

(* The steps of a process that has left its sources behind. *)
LEMMA Settled ==
    ASSUME Type, NEW p \in Procs, Step(p) \/ Kill(p),
           ~FetchIndex(p), ~FetchSignature(p), ~SourceFails(p)
    PROVE  \E s \in Decided \cup Ended :
              Moves(p, s) /\ Keeps(p) /\ (s \in Decided => run[p].stage \in Decided)
<1> USE DEF Decided, Ended
<1>1. ASSUME NEW s \in Decided \cup Ended, Goto(p, s) \/ Fault(p, s)
      PROVE  Moves(p, s) /\ Keeps(p)
    <2>1. s \in Stages
        BY DEF Stages, Working, Swapping
    <2> QED
        BY <1>1, <2>1, GotoMoves, FaultMoves
<1>2. CASE Decide(p) \/ PrepareFails(p) \/ Download(p)
    BY <1>1, <1>2 DEF Decide, PrepareFails, Download
<1>3. CASE Extract(p) \/ ExtractFails(p) \/ MoveAside(p) \/ MoveAsideFails(p)
    BY <1>1, <1>3 DEF Extract, ExtractFails, MoveAside, MoveAsideFails
<1>4. CASE MoveIn(p)
    BY <1>4, MoveInMoves DEF MoveIn
<1>5. CASE MoveInFails(p) \/ Rollback(p) \/ RollbackFails(p)
    BY <1>1, <1>5 DEF MoveInFails, Rollback, RollbackFails
<1>6. CASE DropOld(p) \/ DropOldFails(p)
    BY <1>1, <1>6 DEF DropOld, DropOldFails
<1>7. CASE Cleanup(p) \/ Report(p)
    BY <1>1, <1>7 DEF Cleanup, Report
<1>8. CASE Kill(p)
    BY <1>1, <1>8 DEF Kill
<1> QED
    BY <1>2, <1>3, <1>4, <1>5, <1>6, <1>7, <1>8 DEF Step

(* What any step of a process does to its record. *)
LEMMA RunStep ==
    ASSUME Type, Signed, NEW p \in Procs, Step(p) \/ Kill(p)
    PROVE  \E s \in Stages :
              /\ Moves(p, s) /\ UNCHANGED hosts /\ s # "ready"
              /\ s \in Decided \cup {"index", "signature"} => run'[p].sources # <<>>
              /\ s \in Decided \cup {"signature"} => run'[p].found \in Versions
              /\ s \in Decided => run'[p].found <= signature[Head(run'[p].sources)]
<1> USE DEF Decided
<1>1. UNCHANGED hosts
    BY DEF Step, FetchIndex, FetchSignature, SourceFails, Decide, PrepareFails, Download,
           Extract, ExtractFails, MoveAside, MoveAsideFails, MoveIn, MoveInFails, Rollback,
           RollbackFails, DropOld, DropOldFails, Cleanup, Report, Kill
<1>2. Stages = {"ready"} \cup Working \cup Ended
    BY DEF Stages
<1>3. ASSUME NextSource(p) PROVE \E s \in Stages :
              /\ Moves(p, s) /\ s \notin Decided \cup {"signature", "ready"}
              /\ s = "index" => run'[p].sources # <<>>
    <2>1. {"index", "failed"} \subseteq Stages
        BY DEF Stages, Working, Ended
    <2> QED
        BY <1>3, <2>1, NextSourceMoves
<1>4. CASE FetchIndex(p)
    <2>1. run[p].stage = "index" /\ index[Source(p)] # 0
        BY <1>4 DEF FetchIndex
    <2>2. run[p].sources # <<>> /\ Source(p) \in Sources
        BY <2>1, SourceIsOne DEF Signed
    <2>3. index[Source(p)] \in Versions
        BY <2>1, <2>2 DEF Type
    <2>4. "signature" \in Stages
        BY DEF Stages, Working
    <2>5. /\ Moves(p, "signature") /\ run'[p].sources = run[p].sources
          /\ run'[p].found = index[Source(p)]
        BY <1>4, <2>2, FetchIndexMoves
    <2> QED
        BY <1>1, <2>2, <2>3, <2>4, <2>5
<1>5. CASE FetchSignature(p)
    <2>1. run[p].stage = "signature"
        BY <1>5 DEF FetchSignature
    <2>2. run[p].sources # <<>> /\ Source(p) \in Sources /\ run[p].found \in Versions
        BY <2>1, SourceIsOne DEF Signed
    <2>3. CASE signature[Source(p)] = run[p].found /\ Goto(p, "decide")
        <3>1. "decide" \in Stages
            BY DEF Stages, Working
        <3>2. Moves(p, "decide") /\ Keeps(p)
            BY <2>3, <3>1, GotoMoves
        <3>3. run[p].found <= signature[Source(p)]
            BY <2>2, <2>3, UpgradeAssumption
        <3> QED
            BY <1>1, <2>2, <3>1, <3>2, <3>3 DEF Keeps, Source
    <2>4. CASE NextSource(p)
        BY <1>1, <1>3, <2>4
    <2> QED
        BY <1>5, <2>3, <2>4 DEF FetchSignature
<1>6. CASE SourceFails(p)
    BY <1>1, <1>3, <1>6 DEF SourceFails
<1>7. CASE ~FetchIndex(p) /\ ~FetchSignature(p) /\ ~SourceFails(p)
    <2>1. PICK s \in Decided \cup Ended :
              Moves(p, s) /\ Keeps(p) /\ (s \in Decided => run[p].stage \in Decided)
        BY <1>7, Settled
    <2>2. s \in Stages
        BY DEF Stages, Working, Swapping
    <2>3. CASE s \in Decided
        BY <1>1, <2>1, <2>2, <2>3 DEF Signed, Keeps, Source
    <2>4. CASE s \in Ended
        BY <1>1, <2>1, <2>2, <2>4 DEF Ended
    <2> QED
        BY <2>3, <2>4
<1> QED
    BY <1>4, <1>5, <1>6, <1>7

LEMMA SignedStep ==
    ASSUME Type, Signed, [Next]_vars
    PROVE  /\ index' \in [Sources -> Versions \cup {0}]
           /\ signature' \in [Sources -> Versions \cup {0}]
           /\ run' \in [Procs -> Runs]
           /\ Signed'
<1>1. CASE UNCHANGED vars
    BY <1>1 DEF vars, hosts, Type, Signed, Source
<1>2. ASSUME UNCHANGED run,
             index' \in [Sources -> Versions \cup {0}],
             signature' \in [Sources -> Versions \cup {0}],
             \A s \in Sources : signature'[s] <= index'[s] /\ signature[s] <= signature'[s]
      PROVE  Signed'
    <2>1. ASSUME NEW p \in Procs, run[p].stage \in Decided
          PROVE  run[p].found <= signature'[Source(p)]
        <3>1. /\ run[p].found \in Versions /\ Source(p) \in Sources
              /\ run[p].found <= signature[Source(p)]
            BY <2>1, SourceIsOne DEF Signed
        <3>2. /\ run[p].found \in Nat /\ signature[Source(p)] \in Nat
              /\ signature'[Source(p)] \in Nat
            BY <1>2, <3>1, VersionsAreNumbers DEF Type
        <3> QED
            BY <1>2, <3>1, <3>2
    <2> QED
        BY <1>2, <2>1 DEF Signed, Source
<1>3. ASSUME NEW s \in Sources, NEW v \in Versions, PublishIndex(s, v)
      PROVE  /\ index' \in [Sources -> Versions \cup {0}] /\ UNCHANGED <<signature, run>>
             /\ \A t \in Sources : signature'[t] <= index'[t] /\ signature[t] <= signature'[t]
    <2>1. \A t \in Sources : signature[t] \in Nat /\ index[t] \in Nat
        BY VersionsAreNumbers DEF Type
    <2> QED
        BY <1>3, <2>1, UpgradeAssumption DEF PublishIndex, Type, Signed, disk
<1>4. ASSUME NEW s \in Sources, PublishSignature(s)
      PROVE  /\ signature' \in [Sources -> Versions \cup {0}] /\ UNCHANGED <<index, run>>
             /\ \A t \in Sources : signature'[t] <= index'[t] /\ signature[t] <= signature'[t]
    <2>1. \A t \in Sources : signature[t] \in Nat /\ index[t] \in Nat
        BY VersionsAreNumbers DEF Type
    <2> QED
        BY <1>4, <2>1, UpgradeAssumption DEF PublishSignature, Type, Signed, disk
<1>5. ASSUME NEW p \in Procs, NEW choice \in Choices, Launch(p, choice)
      PROVE  run' \in [Procs -> Runs] /\ Signed' /\ UNCHANGED hosts
    <2>1. UNCHANGED hosts
        BY <1>5 DEF Launch
    <2> QED
        BY <1>5, <2>1, LaunchMoves DEF Signed, Source, hosts, Decided
<1>6. ASSUME NEW p \in Procs, Step(p) \/ Kill(p)
      PROVE  run' \in [Procs -> Runs] /\ Signed' /\ UNCHANGED hosts
    BY <1>6, RunStep DEF Moves, Signed, Source, hosts
<1> QED
    BY <1>1, <1>2, <1>3, <1>4, <1>5, <1>6 DEF Next, Type, hosts

-----------------------------------------------------------------------------
(* Where the binaries are.                                                 *)

(* Stages in which the binary of a process has not been at the path of the *)
(* executable.                                                             *)
Before == {"ready", "index", "signature", "decide", "download", "extract",
           "moveAside", "moveIn", "rollback"}

OneInstalled == \A b, c \in Installed : b = c

(* What a process renamed is the backup it may restore or delete, and no   *)
(* other process has a claim to it.                                        *)
Backups ==
    \A p \in Procs : \A b \in saved[p] :
        /\ place[b] \in {"old", "absent"}
        /\ \A c \in saved[p] : b = c
        /\ \A q \in Procs : b \in saved[q] => p = q

NotYetIn ==
    \A p \in Procs : run[p].stage \in Before =>
        /\ place[p] \in {"absent", "tmp"} /\ ~run[p].installed
        /\ \A q \in Procs : p \notin saved[q]

(* Between its renames a process is alone: there is no executable that     *)
(* another one could rename.                                               *)
OneSwaps ==
    \A p \in Procs : run[p].stage \in Swapping =>
        /\ Installed = {} /\ saved[p] # {}
        /\ \A q \in Procs : run[q].stage \in Swapping => p = q

Counted ==
    \A p \in Procs : /\ run[p].stage = "rollback" => run[p].faults >= 1
                     /\ run[p].stage = "dropOld" => run[p].installed

(* Without an executable there is a backup that nobody will delete. *)
Backed ==
    Installed = {} =>
        \E q \in Procs : ~run[q].installed /\ \E c \in saved[q] : place[c] = "old"

Kept == OneInstalled /\ Backups /\ NotYetIn /\ OneSwaps /\ Counted /\ Backed
            /\ SingleFaultTolerated

(* Steps that leave the disk alone. *)
Quiet(p) ==
    \/ FetchIndex(p) \/ FetchSignature(p) \/ SourceFails(p) \/ Decide(p) \/ PrepareFails(p)
    \/ Download(p) \/ ExtractFails(p) \/ MoveAsideFails(p) \/ MoveInFails(p)
    \/ RollbackFails(p) \/ DropOldFails(p) \/ Report(p) \/ Kill(p)

(* What a step may do to a record of Kept's concern. *)
Passes(p, s) ==
    /\ Moves(p, s) /\ run[p].stage # "killed"
    /\ run'[p].installed = run[p].installed
    /\ run'[p].faults \in {run[p].faults, run[p].faults + 1}
    /\ s \in Before => run[p].stage \in Before
    /\ s \in Swapping => run[p].stage \in Swapping
    /\ s = "rollback" => run'[p].faults >= 1
    /\ s # "dropOld"
    /\ run[p].stage \in Swapping =>
          s \in Swapping \/ s = "killed" \/ run'[p].faults >= 2

LEMMA QuietPasses ==
    ASSUME Type, Signed, Kept, NEW p \in Procs, Quiet(p)
    PROVE  UNCHANGED disk /\ \E s \in Stages : Passes(p, s)
<1>1. UNCHANGED disk
    BY DEF Quiet, FetchIndex, FetchSignature, SourceFails, Decide, PrepareFails, Download,
           ExtractFails, MoveAsideFails, MoveInFails, RollbackFails, DropOldFails, Report, Kill
<1>2. run[p].faults \in Nat
    BY DEF Type, Runs
<1>3. \A s \in Stages : Goto(p, s) =>
          /\ Moves(p, s)
          /\ run'[p].faults = run[p].faults /\ run'[p].installed = run[p].installed
    BY GotoMoves
<1>4. \A s \in Stages : Fault(p, s) =>
          /\ Moves(p, s)
          /\ run'[p].faults = run[p].faults + 1 /\ run'[p].installed = run[p].installed
    BY FaultMoves
<1>5. {"index", "signature", "decide", "download", "extract", "moveAside", "moveIn", "rollback",
       "dropOld", "cleanup", "report", "ok", "failed", "killed"} \subseteq Stages
    BY DEF Stages, Working, Swapping, Ended
<1> USE DEF Before, Swapping
<1>6. ASSUME NextSource(p), run[p].stage \in {"index", "signature"}
      PROVE  \E s \in Stages : Passes(p, s)
    BY <1>5, <1>6, NextSourceMoves DEF Passes
<1>7. CASE FetchIndex(p)
    <2>1. run[p].stage = "index"
        BY <1>7 DEF FetchIndex
    <2>2. Source(p) \in Sources
        BY <2>1, SourceIsOne DEF Signed
    <2>3. /\ Moves(p, "signature")
          /\ run'[p].faults = run[p].faults /\ run'[p].installed = run[p].installed
        BY <1>7, <2>2, FetchIndexMoves
    <2>4. Passes(p, "signature")
        BY <2>1, <2>3 DEF Passes
    <2> QED
        BY <1>1, <1>5, <2>4
<1>8. CASE FetchSignature(p)
    <2>1. run[p].stage = "signature" /\ (Goto(p, "decide") \/ NextSource(p))
        BY <1>8 DEF FetchSignature
    <2>2. CASE Goto(p, "decide")
        <3>1. Passes(p, "decide")
            BY <1>3, <1>5, <2>1, <2>2 DEF Passes
        <3> QED
            BY <1>1, <1>5, <3>1
    <2>3. CASE NextSource(p)
        BY <1>1, <1>6, <2>1, <2>3
    <2> QED
        BY <2>1, <2>2, <2>3
<1>9. CASE SourceFails(p)
    BY <1>6, <1>9 DEF SourceFails
<1>10. CASE Decide(p) \/ PrepareFails(p) \/ Download(p)
    BY <1>3, <1>4, <1>5, <1>10 DEF Decide, PrepareFails, Download, Passes
<1>11. CASE ExtractFails(p)
    BY <1>3, <1>4, <1>5, <1>11 DEF ExtractFails, Passes
<1>12. CASE MoveAsideFails(p)
    BY <1>3, <1>4, <1>5, <1>12 DEF MoveAsideFails, Passes
<1>13. CASE MoveInFails(p)
    BY <1>2, <1>4, <1>5, <1>13 DEF MoveInFails, Passes
<1>14. CASE RollbackFails(p)
    <2>1. run[p].stage = "rollback" /\ run[p].faults >= 1
        BY <1>14 DEF RollbackFails, Kept, Counted
    <2>2. run[p].faults + 1 >= 2
        BY <1>2, <2>1
    <2> QED
        BY <1>4, <1>5, <1>14, <2>1, <2>2 DEF RollbackFails, Passes
<1>15. CASE DropOldFails(p)
    BY <1>4, <1>5, <1>15 DEF DropOldFails, Passes
<1>16. CASE Report(p)
    BY <1>3, <1>4, <1>5, <1>16 DEF Report, Passes
<1>17. CASE Kill(p)
    <2>1. InProgress(p) /\ Goto(p, "killed")
        BY <1>17 DEF Kill
    <2>2. run[p].stage # "killed"
        BY <2>1 DEF InProgress, Working
    <2>3. Passes(p, "killed")
        BY <1>3, <1>5, <2>1, <2>2 DEF Passes
    <2> QED
        BY <1>1, <1>5, <2>3
<1> QED
    BY <1>1, <1>7, <1>8, <1>9, <1>10, <1>11, <1>12, <1>13, <1>14, <1>15, <1>16, <1>17 DEF Quiet

(* A step that moves no binary in or out and passes as above. *)
LEMMA PassesKeeps ==
    ASSUME Type, Type', Kept, NEW p \in Procs, NEW s \in Stages, Passes(p, s),
           UNCHANGED <<place, saved>>
    PROVE  Kept'
<1>1. Installed' = Installed
    BY DEF Installed
<1>2. OneInstalled' /\ Backups'
    BY <1>1 DEF Kept, OneInstalled, Backups
<1>3. /\ run'[p].stage = s /\ run'[p].installed = run[p].installed
      /\ \A q \in Procs : q # p => run'[q] = run[q]
      /\ \A q \in Procs : run'[q].installed = run[q].installed
    BY DEF Passes, Moves
<1>4. \A q \in Procs : run'[q].stage \in Before => run[q].stage \in Before
    BY <1>3 DEF Passes
<1>5. \A q \in Procs : run'[q].stage \in Swapping => run[q].stage \in Swapping
    BY <1>3 DEF Passes
<1>6. NotYetIn'
    BY <1>3, <1>4 DEF Kept, NotYetIn
<1>7. OneSwaps'
    BY <1>1, <1>5 DEF Kept, OneSwaps
<1>8. Counted'
    BY <1>3 DEF Kept, Counted, Passes
<1>9. Backed'
    BY <1>1, <1>3 DEF Kept, Backed
<1>10. SingleFaultTolerated'
    <2> SUFFICES ASSUME Installed = {}
                 PROVE  \E q \in Procs :
                           \/ run'[q].stage \in Swapping
                           \/ run'[q].stage = "killed" /\ saved[q] # {}
                           \/ run'[q].faults >= 2
        BY <1>1 DEF SingleFaultTolerated
    <2>1. PICK q \in Procs : \/ run[q].stage \in Swapping
                             \/ run[q].stage = "killed" /\ saved[q] # {}
                             \/ run[q].faults >= 2
        BY DEF Kept, SingleFaultTolerated
    <2>2. CASE q # p
        BY <1>3, <2>1, <2>2
    <2>3. CASE q = p /\ run[p].stage \in Swapping
        BY <1>3, <2>3 DEF Passes, Kept, OneSwaps
    <2>4. CASE q = p /\ run[p].faults >= 2
        <3>1. run[p].faults \in Nat
            BY DEF Type, Runs
        <3>2. run'[p].faults >= 2
            BY <2>4, <3>1 DEF Passes
        <3> QED
            BY <3>2
    <2>5. CASE q = p /\ run[p].stage = "killed" /\ saved[q] # {}
        BY <2>5 DEF Passes
    <2> QED
        BY <2>1, <2>2, <2>3, <2>4, <2>5
<1> QED
    BY <1>2, <1>6, <1>7, <1>8, <1>9, <1>10 DEF Kept

(* What the other steps of a process leave. *)
LEMMA ExtractKeeps ==
    ASSUME Type, Type', Kept, NEW p \in Procs, Extract(p)
    PROVE  Kept'
<1>1. run[p].stage = "extract" /\ place' = [place EXCEPT ![p] = "tmp"] /\ UNCHANGED saved
    BY DEF Extract
<1>2. /\ Moves(p, "moveAside") /\ run'[p].installed = run[p].installed
      /\ run'[p].faults = run[p].faults
    BY GotoMoves DEF Extract, Stages, Working
<1>3. /\ \A b \in Binaries : b # p => place'[b] = place[b]
      /\ place'[p] = "tmp" /\ p \in Binaries
    BY <1>1 DEF Type, Binaries
<1>4. place[p] \in {"absent", "tmp"} /\ ~run[p].installed /\ \A q \in Procs : p \notin saved[q]
    BY <1>1 DEF Kept, NotYetIn, Before
<1>5. Installed' = Installed
    BY <1>3, <1>4 DEF Installed
<1>6. \A q \in Procs : \A b \in saved[q] : b # p /\ b \in Binaries
    BY <1>4 DEF Type
<1>7. OneInstalled' /\ Backups'
    BY <1>1, <1>3, <1>5, <1>6 DEF Kept, OneInstalled, Backups
<1>8. NotYetIn'
    BY <1>1, <1>2, <1>3, <1>4 DEF Kept, NotYetIn, Moves, Binaries
<1>9. OneSwaps' /\ Counted'
    BY <1>1, <1>2, <1>5 DEF Kept, OneSwaps, Counted, Moves, Swapping
<1>10. \A q \in Procs : run'[q].installed = run[q].installed
    BY <1>2 DEF Moves
<1>11. Backed'
    BY <1>1, <1>3, <1>5, <1>6, <1>10 DEF Kept, Backed
<1>12. SingleFaultTolerated'
    BY <1>1, <1>2, <1>5 DEF Kept, SingleFaultTolerated, Moves, Swapping
<1> QED
    BY <1>7, <1>8, <1>9, <1>11, <1>12 DEF Kept

LEMMA MoveAsideKeeps ==
    ASSUME Type, Type', Kept, NEW p \in Procs, MoveAside(p)
    PROVE  Kept'
<1>1. run[p].stage = "moveAside"
    BY DEF MoveAside
<1>2. /\ Moves(p, "moveIn") /\ run'[p].installed = run[p].installed
      /\ run'[p].faults = run[p].faults
    BY GotoMoves DEF MoveAside, Stages, Working, Swapping
<1>3. PICK b \in Installed : /\ place' = [place EXCEPT ![b] = "old"]
                             /\ saved' = [saved EXCEPT ![p] = {b}]
    BY DEF MoveAside
<1>4. /\ b \in Binaries /\ place[b] = "exe"
      /\ \A c \in Binaries : c # b => place'[c] = place[c] /\ place[c] # "exe"
      /\ place'[b] = "old"
    BY <1>3 DEF Type, Installed, Kept, OneInstalled
<1>5. saved'[p] = {b} /\ \A q \in Procs : q # p => saved'[q] = saved[q]
    BY <1>3 DEF Type
<1>6. Installed' = {}
    BY <1>4 DEF Installed
<1>7. \A q \in Procs : \A c \in saved[q] : c # b /\ c \in Binaries
    BY <1>4 DEF Kept, Backups, Type
<1>8. Backups'
    BY <1>4, <1>5, <1>7 DEF Kept, Backups
<1>9. \A q \in Procs : run'[q].stage \in Before => run[q].stage \in Before
    BY <1>1, <1>2 DEF Moves, Before
<1>10. \A q \in Procs : run'[q].installed = run[q].installed
    BY <1>2 DEF Moves
<1>11. \A q \in Procs : run[q].stage \in Before => q # b /\ q \in Binaries
    BY <1>4 DEF Kept, NotYetIn, Binaries
<1>12. NotYetIn'
    <2> SUFFICES ASSUME NEW q \in Procs, run'[q].stage \in Before
                 PROVE  /\ place'[q] \in {"absent", "tmp"} /\ ~run'[q].installed
                        /\ \A r \in Procs : q \notin saved'[r]
        BY DEF NotYetIn
    <2>1. /\ place[q] \in {"absent", "tmp"} /\ ~run[q].installed
          /\ \A r \in Procs : q \notin saved[r]
        BY <1>9 DEF Kept, NotYetIn
    <2> QED
        BY <1>4, <1>5, <1>9, <1>10, <1>11, <2>1
<1>13. \A q \in Procs : run[q].stage \notin Swapping
    BY <1>3 DEF Kept, OneSwaps
<1>14. OneSwaps'
    BY <1>2, <1>5, <1>6, <1>13 DEF OneSwaps, Moves
<1>15. Counted'
    BY <1>2, <1>10 DEF Kept, Counted, Moves
<1>16. ~run'[p].installed
    BY <1>1, <1>2 DEF Kept, NotYetIn, Before
<1>17. Backed'
    BY <1>4, <1>5, <1>16 DEF Backed
<1>18. SingleFaultTolerated'
    BY <1>2 DEF SingleFaultTolerated, Moves, Swapping
<1> QED
    BY <1>6, <1>8, <1>12, <1>14, <1>15, <1>17, <1>18 DEF Kept, OneInstalled

(* A binary takes the vacant path of the executable. *)
LEMMA TakesThePath ==
    ASSUME Type, Installed = {}, NEW b \in Binaries, place' = MovedIn(b)
    PROVE  /\ place'[b] = "exe" /\ Installed' = {b}
           /\ \A c \in Binaries : c # b => place'[c] = place[c] /\ place[c] # "exe"
BY DEF Type, Installed, MovedIn

LEMMA MoveInKeeps ==
    ASSUME Type, Type', Kept, NEW p \in Procs, MoveIn(p)
    PROVE  Kept'
<1>1. run[p].stage = "moveIn" /\ place' = MovedIn(p) /\ UNCHANGED saved
    BY DEF MoveIn
<1>2. /\ Moves(p, "dropOld") /\ run'[p].installed /\ run'[p].faults = run[p].faults
    BY MoveInMoves
<1>3. Installed = {} /\ \A q \in Procs : run[q].stage \in Swapping => p = q
    BY <1>1 DEF Kept, OneSwaps, Swapping
<1>4. /\ place'[p] = "exe" /\ Installed' = {p}
      /\ \A c \in Binaries : c # p => place'[c] = place[c]
    BY <1>1, <1>3, TakesThePath DEF Binaries
<1>5. \A q \in Procs : p \notin saved[q]
    BY <1>1 DEF Kept, NotYetIn, Before
<1>6. Backups'
    BY <1>1, <1>4, <1>5 DEF Kept, Backups, Type
<1>7. NotYetIn'
    BY <1>1, <1>2, <1>4 DEF Kept, NotYetIn, Moves, Before, Binaries
<1>8. OneSwaps'
    BY <1>2, <1>3 DEF OneSwaps, Moves, Swapping
<1>9. Counted'
    BY <1>2 DEF Kept, Counted, Moves
<1> QED
    BY <1>4, <1>6, <1>7, <1>8, <1>9 DEF Kept, OneInstalled, Backed, SingleFaultTolerated

LEMMA RollbackKeeps ==
    ASSUME Type, Type', Kept, NEW p \in Procs, Rollback(p)
    PROVE  Kept'
<1>1. run[p].stage = "rollback" /\ saved' = [saved EXCEPT ![p] = {}]
    BY DEF Rollback
<1>2. /\ Moves(p, "cleanup") /\ run'[p].installed = run[p].installed
      /\ run'[p].faults = run[p].faults
    BY GotoMoves DEF Rollback, Stages, Working
<1>3. Installed = {} /\ \A q \in Procs : run[q].stage \in Swapping => p = q
    BY <1>1 DEF Kept, OneSwaps, Swapping
<1>4. PICK b \in saved[p] : place[b] = "old" /\ place' = MovedIn(b)
    BY DEF Rollback
<1>5. b \in Binaries
    BY <1>4 DEF Type
<1>6. /\ place'[b] = "exe" /\ Installed' = {b}
      /\ \A c \in Binaries : c # b => place'[c] = place[c]
    BY <1>3, <1>4, <1>5, TakesThePath
<1>7. saved'[p] = {} /\ \A q \in Procs : q # p => saved'[q] = saved[q] /\ b \notin saved[q]
    BY <1>1, <1>4 DEF Type, Kept, Backups
<1>8. Backups'
    BY <1>6, <1>7 DEF Kept, Backups, Type
<1>9. NotYetIn'
    <2> SUFFICES ASSUME NEW q \in Procs, run'[q].stage \in Before
                 PROVE  /\ place'[q] \in {"absent", "tmp"} /\ ~run'[q].installed
                        /\ \A r \in Procs : q \notin saved'[r]
        BY DEF NotYetIn
    <2>1. q # p /\ run'[q] = run[q]
        BY <1>2 DEF Moves, Before
    <2>2. /\ place[q] \in {"absent", "tmp"} /\ ~run[q].installed
          /\ \A r \in Procs : q \notin saved[r]
        BY <2>1 DEF Kept, NotYetIn
    <2>3. q # b /\ q \in Binaries
        BY <1>4, <2>2 DEF Binaries
    <2> QED
        BY <1>6, <1>7, <2>1, <2>2, <2>3
<1>10. OneSwaps'
    BY <1>2, <1>3 DEF OneSwaps, Moves, Swapping
<1>11. Counted'
    BY <1>2 DEF Kept, Counted, Moves
<1> QED
    BY <1>6, <1>8, <1>9, <1>10, <1>11 DEF Kept, OneInstalled, Backed, SingleFaultTolerated

LEMMA DropOldKeeps ==
    ASSUME Type, Type', Kept, NEW p \in Procs, DropOld(p)
    PROVE  Kept'
<1>1. /\ run[p].stage = "dropOld" /\ UNCHANGED saved
      /\ place' = [b \in Binaries |-> IF b \in saved[p] THEN "absent" ELSE place[b]]
    BY DEF DropOld
<1>2. /\ Moves(p, "cleanup") /\ run'[p].installed = run[p].installed
      /\ run'[p].faults = run[p].faults
    BY GotoMoves DEF DropOld, Stages, Working
<1>3. \A b \in Binaries : place'[b] = IF b \in saved[p] THEN "absent" ELSE place[b]
    BY <1>1
<1>4. Installed' = Installed
    BY <1>3 DEF Installed, Kept, Backups
<1>5. Backups'
    BY <1>1, <1>3 DEF Kept, Backups, Type
<1>6. NotYetIn'
    BY <1>1, <1>2, <1>3 DEF Kept, NotYetIn, Moves, Before, Binaries
<1>7. OneSwaps' /\ Counted'
    BY <1>1, <1>2, <1>4 DEF Kept, OneSwaps, Counted, Moves, Swapping
<1>8. Backed'
    <2> SUFFICES ASSUME Installed = {}
                 PROVE  \E q \in Procs :
                           ~run'[q].installed /\ \E c \in saved[q] : place'[c] = "old"
        BY <1>1, <1>4 DEF Backed
    <2>1. PICK q \in Procs : ~run[q].installed /\ \E c \in saved[q] : place[c] = "old"
        BY DEF Kept, Backed
    <2>2. PICK c \in saved[q] : place[c] = "old"
        BY <2>1
    <2>3. q # p /\ run'[q] = run[q]
        BY <1>1, <1>2, <2>1 DEF Kept, Counted, Moves
    <2>4. c \notin saved[p] /\ c \in Binaries
        BY <2>2, <2>3 DEF Kept, Backups, Type
    <2> QED
        BY <1>3, <2>1, <2>2, <2>3, <2>4
<1>9. SingleFaultTolerated'
    BY <1>1, <1>2, <1>4 DEF Kept, SingleFaultTolerated, Moves, Swapping
<1> QED
    BY <1>4, <1>5, <1>6, <1>7, <1>8, <1>9 DEF Kept, OneInstalled

LEMMA CleanupKeeps ==
    ASSUME Type, Type', Kept, NEW p \in Procs, Cleanup(p)
    PROVE  Kept'
<1>1. run[p].stage = "cleanup" /\ UNCHANGED saved
    BY DEF Cleanup
<1>2. PICK s \in {"report", "failed"} : Goto(p, s)
    BY DEF Cleanup
<1>3. /\ Moves(p, s) /\ run'[p].installed = run[p].installed
      /\ run'[p].faults = run[p].faults
    BY <1>2, GotoMoves DEF Stages, Working, Ended
<1>4. \A b \in Binaries : place'[b] = place[b] \/ (place[b] = "tmp" /\ place'[b] = "absent")
    BY DEF Cleanup, Type
<1>5. Installed' = Installed
    BY <1>4 DEF Installed
<1>6. Backups'
    BY <1>1, <1>4 DEF Kept, Backups, Type
<1>7. NotYetIn'
    BY <1>1, <1>3, <1>4 DEF Kept, NotYetIn, Moves, Before, Binaries
<1>8. OneSwaps' /\ Counted'
    BY <1>1, <1>3, <1>5 DEF Kept, OneSwaps, Counted, Moves, Swapping
<1>9. \A q \in Procs : run'[q].installed = run[q].installed
    BY <1>3 DEF Moves
<1>10. Backed'
    BY <1>1, <1>4, <1>5, <1>9 DEF Kept, Backed, Type
<1>11. SingleFaultTolerated'
    BY <1>1, <1>3, <1>5 DEF Kept, SingleFaultTolerated, Moves, Swapping
<1> QED
    BY <1>5, <1>6, <1>7, <1>8, <1>10, <1>11 DEF Kept, OneInstalled

LEMMA LaunchKeeps ==
    ASSUME Type, Type', Kept, NEW p \in Procs, NEW choice \in Choices, Launch(p, choice)
    PROVE  Kept'
<1>1. UNCHANGED <<place, saved>> /\ run[p].stage = "ready"
    BY DEF Launch, disk
<1>2. /\ \A q \in Procs : /\ run'[q].installed = run[q].installed
                          /\ run'[q].faults = run[q].faults
      /\ \A q \in Procs : q # p => run'[q].stage = run[q].stage
      /\ run'[p].stage = "index"
    BY LaunchMoves
<1>3. Installed' = Installed
    BY <1>1 DEF Installed
<1>4. OneInstalled' /\ Backups' /\ Backed'
    BY <1>1, <1>2, <1>3 DEF Kept, OneInstalled, Backups, Backed
<1>5. NotYetIn'
    BY <1>1, <1>2 DEF Kept, NotYetIn, Before
<1>6. OneSwaps'
    BY <1>1, <1>2, <1>3 DEF Kept, OneSwaps, Swapping
<1>7. Counted'
    BY <1>2 DEF Kept, Counted
<1>8. SingleFaultTolerated'
    BY <1>1, <1>2, <1>3 DEF Kept, SingleFaultTolerated, Swapping
<1> QED
    BY <1>4, <1>5, <1>6, <1>7, <1>8 DEF Kept

(* The shapes of the files. *)
LEMMA DiskStep ==
    ASSUME Type, Signed, [Next]_vars
    PROVE  /\ place' \in [Binaries -> Places]
           /\ version' \in [Binaries -> Versions]
           /\ saved' \in [Procs -> SUBSET Binaries]
<1> USE DEF Type, Places
<1>1. CASE UNCHANGED disk
    BY <1>1 DEF disk
<1>2. \A p \in Procs : p \in Binaries
    BY DEF Binaries
<1>3. \A b : MovedIn(b) \in [Binaries -> Places]
    BY DEF MovedIn
<1>4. ASSUME NEW p \in Procs, Step(p)
      PROVE  /\ place' \in [Binaries -> Places]
             /\ version' \in [Binaries -> Versions]
             /\ saved' \in [Procs -> SUBSET Binaries]
    <2>1. CASE Extract(p)
        <3>1. run[p].found \in Versions
            BY <2>1 DEF Extract, Signed, Decided
        <3> QED
            BY <1>2, <2>1, <3>1 DEF Extract
    <2>2. CASE MoveAside(p)
        BY <2>2 DEF MoveAside, Installed
    <2>3. CASE MoveIn(p)
        BY <1>3, <2>3 DEF MoveIn
    <2>4. CASE Rollback(p)
        BY <1>3, <2>4 DEF Rollback
    <2>5. CASE DropOld(p)
        BY <2>5 DEF DropOld
    <2>6. CASE Cleanup(p)
        BY <1>2, <2>6 DEF Cleanup
    <2>7. CASE UNCHANGED disk
        BY <1>1, <2>7
    <2> QED
        BY <1>4, <2>1, <2>2, <2>3, <2>4, <2>5, <2>6, <2>7
        DEF Step, FetchIndex, FetchSignature, SourceFails, Decide, PrepareFails, Download,
            ExtractFails, MoveAsideFails, MoveInFails, RollbackFails, DropOldFails, Report
<1> QED
    BY <1>1, <1>4 DEF Next, vars, PublishIndex, PublishSignature, Launch, Kill

LEMMA KeptStep ==
    ASSUME Type, Type', Signed, Kept, [Next]_vars
    PROVE  Kept'
<1>1. CASE UNCHANGED <<disk, run>>
    BY <1>1 DEF disk, Kept, OneInstalled, Installed, Backups, NotYetIn, OneSwaps, Counted,
                Backed, SingleFaultTolerated
<1>2. ASSUME NEW p \in Procs, Step(p) \/ Kill(p) PROVE Kept'
    <2>1. CASE Quiet(p)
        <3>1. PICK s \in Stages : Passes(p, s)
            BY <2>1, QuietPasses
        <3>2. UNCHANGED <<place, saved>>
            BY <2>1, QuietPasses DEF disk
        <3> QED
            BY <3>1, <3>2, PassesKeeps
    <2> QED
        BY <1>2, <2>1, ExtractKeeps, MoveAsideKeeps, MoveInKeeps, RollbackKeeps,
           DropOldKeeps, CleanupKeeps DEF Step, Quiet
<1> QED
    BY <1>1, <1>2, LaunchKeeps DEF Next, vars, PublishIndex, PublishSignature

(* The inductive invariant. *)
IInv == Type /\ Signed /\ Kept

LEMMA Initially == Init => IInv
<1> SUFFICES ASSUME Init PROVE IInv
    OBVIOUS
<1>1. Type
    BY DEF Init, Type, Runs, Stages, Binaries, Places
<1>2. \A p \in Procs : run[p].stage = "ready" /\ ~run[p].installed /\ saved[p] = {}
                       /\ place[p] = "absent"
    BY UpgradeAssumption DEF Init, Binaries
<1>3. Installed = {Original}
    BY UpgradeAssumption DEF Init, Binaries, Installed
<1>4. Signed
    <2>1. \A s \in Sources : signature[s] <= index[s]
        BY <1>1, VersionsAreNumbers DEF Init, Type
    <2> QED
        BY <1>2, <2>1 DEF Signed, Decided
<1>5. Kept
    BY <1>2, <1>3 DEF Kept, OneInstalled, Backups, NotYetIn, OneSwaps, Counted, Backed,
                      SingleFaultTolerated, Swapping
<1> QED
    BY <1>1, <1>4, <1>5 DEF IInv

LEMMA Inductive == IInv /\ [Next]_vars => IInv'
<1> SUFFICES ASSUME IInv, [Next]_vars PROVE IInv'
    OBVIOUS
<1>1. Type' /\ Signed'
    BY SignedStep, DiskStep DEF IInv, Type
<1>2. Kept'
    BY <1>1, KeptStep DEF IInv
<1> QED
    BY <1>1, <1>2 DEF IInv

(* Every reachable state satisfies the invariant: what is on disk, what    *)
(* was verified, and what a single fault may have taken.                   *)
THEOREM UpgradeInvariant == Spec => []IInv
BY Initially, Inductive, PTL DEF Spec

(* internal/cli/upgrade_command.go: the version an upgrade downloads and   *)
(* installs is no newer than what the very source it reads has published a *)
(* signature for, however hosts lag behind each other and are published to *)
(* meanwhile.                                                              *)
THEOREM SignedIsInstalled == Spec => []OnlySigned
<1>1. IInv => OnlySigned
    BY DEF IInv, Signed, OnlySigned, Decided, Swapping
<1> QED
    BY <1>1, UpgradeInvariant, PTL

(* internal/release/install.go: no single failing call, of any upgrade of  *)
(* any number that overlap, takes the executable away for good.            *)
THEOREM ExecutableStays == Spec => []SingleFaultTolerated
<1>1. IInv => SingleFaultTolerated
    BY DEF IInv, Kept
<1> QED
    BY <1>1, UpgradeInvariant, PTL

-----------------------------------------------------------------------------
(* An upgrade implements the slots: the path of the executable is the slot *)
(* and its backups are the copies.                                         *)

Aside == {<<b, version[b]>> : b \in {c \in Binaries : place[c] = "old"}}

LEMMA SlotVacant == Installed = {} => Slot = 0
BY DEF Slot

LEMMA SlotTaken ==
    ASSUME NEW b, Installed = {b}
    PROVE  Slot = version[b]
<1>1. (CHOOSE c \in Installed : TRUE) = b
    OBVIOUS
<1> QED
    BY <1>1 DEF Slot

LEMMA TheOneInstalled ==
    ASSUME OneInstalled, NEW b \in Installed
    PROVE  Installed = {b}
BY DEF OneInstalled

(* A step that moves no binary to or from the two places, or changes it    *)
(* there, does not touch the slot.                                         *)
LEMMA SlotsStutter ==
    ASSUME OneInstalled,
           \A b \in Binaries :
              /\ place'[b] = "exe" <=> place[b] = "exe"
              /\ place'[b] = "old" <=> place[b] = "old"
              /\ place[b] \in {"exe", "old"} => version'[b] = version[b]
    PROVE  UNCHANGED Slots!vars
<1>1. Installed' = Installed
    BY DEF Installed
<1>2. Slot' = Slot
    <2>1. CASE Installed = {}
        BY <1>1, <2>1 DEF Slot
    <2>2. ASSUME NEW b \in Installed PROVE Slot' = Slot
        <3>1. Installed = {b}
            BY TheOneInstalled
        <3>2. (CHOOSE c \in Installed : TRUE) = b
            BY <3>1
        <3>3. version'[b] = version[b]
            BY DEF Installed
        <3> QED
            BY <1>1, <3>1, <3>2, <3>3 DEF Slot
    <2> QED
        BY <2>1, <2>2
<1> DEFINE S == {c \in Binaries : place[c] = "old"}
<1>3. S' = S /\ \A c \in S : version'[c] = version[c]
    OBVIOUS
<1>4. Aside' = Aside
    <2>1. Aside = {<<b, version[b]>> : b \in S}
        BY DEF Aside
    <2>2. Aside' = {<<b, version'[b]>> : b \in S'}
        BY DEF Aside
    <2> HIDE DEF S
    <2> QED
        BY <1>3, <2>1, <2>2
<1> QED
    BY <1>2, <1>4 DEF Slots!vars, Aside

LEMMA SlotsStep ==
    ASSUME IInv, [Next]_vars
    PROVE  Slots!Next \/ UNCHANGED Slots!vars
<1> DEFINE Goal == Slots!Next \/ UNCHANGED Slots!vars
<1>1. OneInstalled
    BY DEF IInv, Kept
<1>2. \A p \in Procs : p \in Binaries
    BY DEF Binaries
<1>3. ASSUME UNCHANGED disk PROVE Goal
    BY <1>1, <1>3, SlotsStutter DEF disk
<1> SUFFICES ASSUME NEW p \in Procs, Step(p), ~Quiet(p) PROVE Goal
    BY <1>3, QuietPasses
    DEF Next, vars, PublishIndex, PublishSignature, Launch, Kill, Quiet, IInv
<1>4. CASE Extract(p)
    <2>1. place[p] \in {"absent", "tmp"}
        BY <1>4 DEF Extract, IInv, Kept, NotYetIn, Before
    <2> QED
        BY <1>1, <1>2, <1>4, <2>1, SlotsStutter DEF Extract, IInv, Type
<1>5. CASE MoveAside(p)
    <2>1. PICK b \in Installed : place' = [place EXCEPT ![b] = "old"] /\ UNCHANGED version
        BY <1>5 DEF MoveAside
    <2>2. b \in Binaries /\ place[b] = "exe" /\ Installed = {b}
        BY <1>1, TheOneInstalled DEF Installed
    <2>3. Slot = version[b] /\ Slot # 0
        BY <2>2, SlotTaken, UpgradeAssumption DEF IInv, Type
    <2>4. /\ place'[b] = "old"
          /\ \A c \in Binaries : c # b => place'[c] = place[c]
        BY <2>1, <2>2 DEF IInv, Type
    <2>5. Installed' = {}
        BY <2>2, <2>4 DEF Installed
    <2>6. Slot' = 0
        BY <2>5 DEF Slot
    <2>7. Aside' = Aside \cup {<<b, Slot>>}
        <3>1. {c \in Binaries : place'[c] = "old"}
                  = {c \in Binaries : place[c] = "old"} \cup {b}
            BY <2>2, <2>4
        <3> QED
            BY <2>1, <2>3, <3>1 DEF Aside
    <2>8. Slots!SetAside("ctyun", b)
        BY <2>3, <2>6, <2>7 DEF Slots!SetAside, Slots!Vacant, Aside
    <2> QED
        BY <2>2, <2>8 DEF Slots!Next
<1>6. CASE MoveIn(p)
    <2>1. run[p].stage = "moveIn" /\ place' = MovedIn(p) /\ UNCHANGED version
        BY <1>6 DEF MoveIn
    <2>2. Installed = {} /\ place[p] \in {"absent", "tmp"}
        BY <2>1 DEF IInv, Kept, OneSwaps, Swapping, NotYetIn, Before
    <2>3. /\ place'[p] = "exe" /\ Installed' = {p}
          /\ \A c \in Binaries : c # p => place'[c] = place[c]
        BY <1>2, <2>1, <2>2, TakesThePath DEF IInv
    <2>4. Slot = 0 /\ Slot' = version[p]
        <3>1. (CHOOSE c \in Installed' : TRUE) = p
            BY <2>3
        <3> QED
            BY <2>1, <2>2, <2>3, <3>1 DEF Slot
    <2>5. Aside' = Aside
        <3>1. {c \in Binaries : place'[c] = "old"} = {c \in Binaries : place[c] = "old"}
            BY <2>2, <2>3
        <3> QED
            BY <2>1, <3>1 DEF Aside
    <2>6. PICK v \in Versions : v = version[p]
        BY <1>2 DEF IInv, Type
    <2>7. Slots!Install("ctyun", v)
        BY <2>4, <2>5, <2>6 DEF Slots!Install, Slots!Vacant, Aside
    <2> QED
        BY <2>7 DEF Slots!Next
<1>7. CASE Rollback(p)
    <2>1. run[p].stage = "rollback" /\ UNCHANGED version
        BY <1>7 DEF Rollback
    <2>2. PICK b \in saved[p] : place[b] = "old" /\ place' = MovedIn(b)
        BY <1>7 DEF Rollback
    <2>3. Installed = {} /\ b \in Binaries
        BY <2>1, <2>2 DEF IInv, Kept, OneSwaps, Swapping, Type
    <2>4. /\ place'[b] = "exe" /\ Installed' = {b}
          /\ \A c \in Binaries : c # b => place'[c] = place[c]
        BY <2>2, <2>3, TakesThePath DEF IInv
    <2>5. Slot = 0 /\ Slot' = version[b]
        <3>1. (CHOOSE c \in Installed' : TRUE) = b
            BY <2>4
        <3> QED
            BY <2>1, <2>3, <2>4, <3>1 DEF Slot
    <2>6. Aside' = Aside \ {<<b, version[b]>>} /\ <<b, version[b]>> \in Aside
        <3>1. {c \in Binaries : place'[c] = "old"}
                  = {c \in Binaries : place[c] = "old"} \ {b}
            BY <2>4
        <3> QED
            BY <2>1, <2>2, <2>3, <3>1 DEF Aside
    <2>7. PICK v \in Versions : v = version[b]
        BY <2>3 DEF IInv, Type
    <2>8. Slots!Restore("ctyun", b, v)
        BY <2>5, <2>6, <2>7 DEF Slots!Restore, Slots!Vacant, Aside
    <2> QED
        BY <2>3, <2>8 DEF Slots!Next
<1>8. CASE DropOld(p)
    <2>1. /\ run[p].stage = "dropOld" /\ UNCHANGED version
          /\ \A c \in Binaries : place'[c] = IF c \in saved[p] THEN "absent" ELSE place[c]
        BY <1>8 DEF DropOld
    <2>2. CASE \A b \in saved[p] : place[b] # "old"
        <3>1. \A c \in Binaries : /\ place'[c] = "exe" <=> place[c] = "exe"
                                  /\ place'[c] = "old" <=> place[c] = "old"
            BY <2>1, <2>2 DEF IInv, Kept, Backups
        <3> QED
            BY <1>1, <2>1, <3>1, SlotsStutter
    <2>3. ASSUME NEW b \in saved[p], place[b] = "old" PROVE Goal
        <3>1. saved[p] = {b} /\ b \in Binaries
            BY DEF IInv, Kept, Backups, Type
        <3>2. place'[b] = "absent" /\ \A c \in Binaries : c # b => place'[c] = place[c]
            BY <2>1, <3>1
        <3>3. Installed' = Installed
            BY <2>3, <3>1, <3>2 DEF Installed
        <3>4. Slot' = Slot
            BY <2>1, <3>3 DEF Slot
        <3>5. Aside' = Aside \ {<<b, version[b]>>} /\ <<b, version[b]>> \in Aside
            <4>1. {c \in Binaries : place'[c] = "old"}
                      = {c \in Binaries : place[c] = "old"} \ {b}
                BY <3>2
            <4> QED
                BY <2>1, <2>3, <3>1, <4>1 DEF Aside
        <3>6. Slot # 0 \/ Aside # {<<b, version[b]>>}
            <4>1. CASE Installed = {}
                <5>1. PICK q \in Procs : ~run[q].installed /\ \E c \in saved[q] : place[c] = "old"
                    BY <4>1 DEF IInv, Kept, Backed
                <5>2. PICK c \in saved[q] : place[c] = "old"
                    BY <5>1
                <5>3. q # p
                    BY <2>1, <5>1 DEF IInv, Kept, Counted
                <5>4. c # b /\ c \in Binaries
                    BY <5>2, <5>3 DEF IInv, Kept, Backups, Type
                <5>5. <<c, version[c]>> \in Aside /\ <<c, version[c]>> # <<b, version[b]>>
                    BY <5>2, <5>4 DEF Aside
                <5> QED
                    BY <5>5
            <4>2. ASSUME NEW c \in Installed PROVE Slot # 0
                <5>1. Slot = version[c] /\ c \in Binaries
                    BY <1>1, TheOneInstalled, SlotTaken DEF Installed
                <5> QED
                    BY <5>1, UpgradeAssumption DEF IInv, Type
            <4> QED
                BY <4>1, <4>2
        <3>7. PICK v \in Versions : v = version[b]
            BY <3>1 DEF IInv, Type
        <3>8. Slots!Discard("ctyun", b, v)
            BY <3>4, <3>5, <3>6, <3>7 DEF Slots!Discard, Slots!Vacant, Aside
        <3> QED
            BY <3>1, <3>8 DEF Slots!Next
    <2> QED
        BY <2>2, <2>3
<1>9. CASE Cleanup(p)
    <2>1. \A b \in Binaries : place'[b] = place[b] \/ (place[b] = "tmp" /\ place'[b] = "absent")
        BY <1>9 DEF Cleanup, IInv, Type
    <2>2. UNCHANGED version
        BY <1>9 DEF Cleanup
    <2> QED
        BY <1>1, <2>1, <2>2, SlotsStutter
<1> QED
    BY <1>4, <1>5, <1>6, <1>7, <1>8, <1>9 DEF Step, Quiet

LEMMA SlotsInit == Init => Slots!Init
<1> SUFFICES ASSUME Init PROVE Slots!Init
    OBVIOUS
<1>1. Type
    BY Initially DEF IInv
<1>2. Installed = {Original} /\ Original \in Binaries
    BY UpgradeAssumption DEF Init, Binaries, Installed
<1>3. Slot \in Versions
    BY <1>1, <1>2, SlotTaken DEF Type
<1>4. Aside = {}
    BY DEF Init, Aside
<1> QED
    BY <1>3, <1>4 DEF Slots!Init, Aside

(* InstallArtifact, overlapping itself, failing or killed between any two  *)
(* of its renames, implements the slots: a whole executable is at its path *)
(* or beside it under a backup name, and the last such backup is never     *)
(* deleted while there is none.                                            *)
THEOREM UpgradeImplementsSlots == Spec => ImplementsSlots
<1>1. Init => Slots!Init
    BY SlotsInit
<1>2. IInv /\ [Next]_vars => [Slots!Next]_(Slots!vars)
    BY SlotsStep
<1> QED
    BY <1>1, <1>2, UpgradeInvariant, PTL DEF Spec, ImplementsSlots, Slots!Spec

-----------------------------------------------------------------------------
(* An upgrade that overlaps no other.                                      *)

Start == {"index", "signature", "decide", "download", "extract", "moveAside"}

(* The executable is the one p was launched from, or the one it found. *)
Own(p) == \E b \in Installed : version[b] = run[p].own
New(p) == \E b \in Installed : version[b] = run[p].found
Gone(p) == \A c \in saved[p] : place[c] = "absent"

Sole(p) == \A q \in Procs : InProgress(q) => q = p

(* What p has done so far, stage by stage. *)
Alone(p) ==
    /\ Sole(p)
    /\ run[p].stage \in Start => Own(p) /\ run[p].faults = 0 /\ saved[p] = {}
    /\ run[p].stage \in Decided \ {"decide"} => run[p].found > run[p].own
    /\ run[p].stage \in {"moveAside", "moveIn"} => version[p] = run[p].found
    /\ run[p].stage \in {"moveIn", "rollback"} =>
          \A b \in saved[p] : version[b] = run[p].own
    /\ run[p].stage \in {"moveIn", "dropOld"} => run[p].faults = 0
    /\ run[p].stage = "rollback" => run[p].faults = 1
    /\ run[p].stage = "dropOld" => New(p)
    /\ run[p].stage = "cleanup" /\ run[p].installed =>
          New(p) /\ (run[p].faults = 0 => Gone(p))
    /\ run[p].stage = "cleanup" /\ ~run[p].installed =>
          run[p].faults >= 1 /\ (Own(p) \/ (run[p].faults # 1 /\ Installed = {}))
    /\ run[p].stage = "report" => run[p].installed /\ New(p) /\ Gone(p)

AloneOk == \A p \in Procs : /\ InProgress(p) /\ run[p].alone => Alone(p)
                            /\ run[p].stage = "ready" => run[p].faults = 0 /\ saved[p] = {}

(* What OutcomeIsTrue says of p. *)
Outcome(p) ==
    /\ \A b \in Installed' :
          version'[b] \in {run[p].own, run[p].found} /\ version'[b] >= run[p].own
    /\ run'[p].stage = "ok" =>
          \E b \in Installed' :
             /\ version[b] = IF run[p].installed THEN run[p].found ELSE run[p].own
             /\ \A c \in saved[p] : place'[c] = "absent"
    /\ run'[p].stage = "failed" /\ run'[p].faults = 1 /\ ~run[p].installed =>
          \E b \in Installed' : version[b] = run[p].own

(* At any time the executable is one of the two, and no older one. *)
LEMMA OneOfTwo ==
    ASSUME IInv, NEW p \in Procs, InProgress(p), Alone(p), NEW b \in Installed
    PROVE  version[b] \in {run[p].own, run[p].found} /\ version[b] >= run[p].own
<1>1. \A c \in Installed : c = b
    BY DEF IInv, Kept, OneInstalled
<1>2. /\ run[p].own \in Nat /\ run[p].found \in Nat
    BY VersionsAreNumbers DEF IInv, Type, Runs
<1>3. CASE Own(p)
    BY <1>1, <1>2, <1>3 DEF Own
<1>4. CASE New(p) /\ run[p].stage \in Decided \ {"decide"}
    BY <1>1, <1>2, <1>4 DEF New, Alone
<1>5. run[p].stage \notin Swapping
    BY DEF IInv, Kept, OneSwaps
<1> QED
    BY <1>3, <1>4, <1>5 DEF Alone, Start, Decided, InProgress, Working, Swapping

LEMMA SoleStays ==
    ASSUME NEW p \in Procs, Sole(p), NEW s, Moves(p, s)
    PROVE  Sole(p)'
BY DEF Sole, Moves, InProgress

(* Steps that touch no file. *)
LEMMA AloneQuiet ==
    ASSUME IInv, NEW p \in Procs, Alone(p), Quiet(p), InProgress(p)
    PROVE  Outcome(p) /\ (InProgress(p)' => Alone(p)')
<1> USE DEF Start, Decided
<1>1. UNCHANGED disk /\ \E s \in Stages : Moves(p, s)
    BY QuietPasses DEF IInv, Passes
<1>2. Sole(p)'
    BY <1>1, SoleStays DEF Alone
<1>3. /\ Installed' = Installed /\ place' = place /\ version' = version /\ saved' = saved
      /\ run'[p].own = run[p].own
    BY <1>1 DEF disk, Installed, Moves
<1>4. Own(p)' = Own(p) /\ Gone(p)' = Gone(p)
    BY <1>3 DEF Own, Gone
<1>5. \A b \in Installed' :
          version'[b] \in {run[p].own, run[p].found} /\ version'[b] >= run[p].own
    BY <1>3, OneOfTwo
<1>7. \A s \in Stages : Goto(p, s) =>
          /\ run'[p].stage = s /\ Keeps(p)
          /\ run'[p].faults = run[p].faults /\ run'[p].installed = run[p].installed
    BY GotoMoves DEF IInv, Moves
<1>8. \A s \in Stages : Fault(p, s) =>
          /\ run'[p].stage = s /\ Keeps(p)
          /\ run'[p].faults = run[p].faults + 1 /\ run'[p].installed = run[p].installed
    BY FaultMoves DEF IInv, Moves
<1>9. {"index", "signature", "decide", "download", "extract", "moveAside", "moveIn", "rollback",
       "dropOld", "cleanup", "report", "ok", "failed", "killed"} \subseteq Stages
    BY DEF Stages, Working, Swapping, Ended
<1>10. run[p].faults \in Nat /\ (run[p].stage \in Before => ~run[p].installed)
    BY DEF IInv, Type, Runs, Kept, NotYetIn
<1>11. Own(p) => \E b \in Installed' : version[b] = run[p].own
    BY <1>3 DEF Own
<1>12. ASSUME run[p].stage \in {"index", "signature", "decide"},
              run'[p].stage \in {"index", "signature", "decide", "failed"},
              run'[p].faults = run[p].faults
       PROVE  Outcome(p) /\ (InProgress(p)' => Alone(p)')
    <2>1. Own(p) /\ run[p].faults = 0 /\ saved[p] = {}
        BY <1>12 DEF Alone
    <2> QED
        BY <1>2, <1>3, <1>4, <1>5, <1>12, <2>1
        DEF Outcome, Alone, InProgress, Working, Swapping
<1>13. CASE FetchIndex(p)
    <2>1. run[p].stage = "index" /\ Source(p) \in Sources
        BY <1>13, SourceIsOne DEF FetchIndex, IInv, Signed
    <2>2. run'[p].stage = "signature" /\ run'[p].faults = run[p].faults
        BY <1>13, <2>1, FetchIndexMoves DEF IInv, Moves
    <2> QED
        BY <1>12, <2>1, <2>2
<1>14. CASE FetchSignature(p) \/ SourceFails(p)
    <2>1. /\ run[p].stage \in {"index", "signature"}
          /\ Goto(p, "decide") \/ NextSource(p)
        BY <1>14 DEF FetchSignature, SourceFails
    <2>2. /\ run'[p].stage \in {"index", "decide", "failed"}
          /\ run'[p].faults = run[p].faults
        BY <1>7, <1>9, <2>1, NextSourceMoves DEF IInv, Moves
    <2> QED
        BY <1>12, <2>1, <2>2
<1>15. CASE Decide(p)
    <2>1. /\ run[p].stage = "decide"
          /\ Goto(p, "ok") \/ (run[p].found > run[p].own /\ Goto(p, "download"))
        BY <1>15 DEF Decide
    <2>2. Own(p) /\ run[p].faults = 0 /\ saved[p] = {} /\ ~run[p].installed
        BY <1>10, <2>1 DEF Alone, Before
    <2>3. CASE Goto(p, "ok")
        BY <1>5, <1>7, <1>9, <1>11, <2>2, <2>3
        DEF Outcome, InProgress, Working, Swapping
    <2>4. CASE run[p].found > run[p].own /\ Goto(p, "download")
        <3>1. /\ run'[p].stage = "download" /\ run'[p].faults = 0
              /\ run'[p].found > run'[p].own
            BY <1>3, <1>7, <1>9, <2>2, <2>4 DEF Keeps
        <3> QED
            BY <1>2, <1>3, <1>4, <1>5, <2>2, <3>1 DEF Outcome, Alone
    <2> QED
        BY <2>1, <2>3, <2>4
<1>16. CASE Download(p)
    <2>1. run[p].stage = "download" /\ Goto(p, "extract")
        BY <1>16 DEF Download
    <2>2. /\ run'[p].stage = "extract" /\ run'[p].faults = run[p].faults
          /\ run'[p].found = run[p].found
        BY <1>7, <1>9, <2>1 DEF Keeps
    <2>3. Own(p) /\ run[p].faults = 0 /\ saved[p] = {} /\ run[p].found > run[p].own
        BY <2>1 DEF Alone
    <2> QED
        BY <1>2, <1>3, <1>4, <1>5, <2>2, <2>3 DEF Outcome, Alone
<1>17. CASE PrepareFails(p)
    <2>1. run[p].stage \in {"decide", "download"} /\ Fault(p, "failed")
        BY <1>17 DEF PrepareFails
    <2>2. run'[p].stage = "failed" /\ Own(p)
        BY <1>8, <1>9, <2>1 DEF Alone
    <2> QED
        BY <1>5, <1>11, <2>2 DEF Outcome, InProgress, Working, Swapping
<1>18. CASE ExtractFails(p) \/ MoveAsideFails(p)
    <2>1. run[p].stage \in {"extract", "moveAside"}
        BY <1>18 DEF ExtractFails, MoveAsideFails
    <2>2. /\ Own(p) /\ run[p].faults = 0 /\ ~run[p].installed
          /\ run[p].found > run[p].own
        BY <1>10, <2>1 DEF Alone, Before
    <2>3. Fault(p, "cleanup")
        BY <1>18, <2>2 DEF ExtractFails, MoveAsideFails, Own
    <2>4. /\ run'[p].stage = "cleanup" /\ run'[p].faults = 1 /\ ~run'[p].installed
          /\ run'[p].found = run[p].found
        BY <1>8, <1>9, <2>2, <2>3 DEF Keeps
    <2> QED
        BY <1>2, <1>3, <1>4, <1>5, <2>2, <2>4 DEF Outcome, Alone
<1>19. CASE MoveInFails(p)
    <2>1. run[p].stage = "moveIn" /\ Fault(p, "rollback")
        BY <1>19 DEF MoveInFails
    <2>2. /\ run[p].faults = 0 /\ \A b \in saved[p] : version[b] = run[p].own
          /\ run[p].found > run[p].own
        BY <2>1 DEF Alone
    <2>3. /\ run'[p].stage = "rollback" /\ run'[p].faults = 1
          /\ run'[p].found = run[p].found
        BY <1>8, <1>9, <2>1, <2>2 DEF Keeps
    <2> QED
        BY <1>2, <1>3, <1>5, <2>2, <2>3 DEF Outcome, Alone
<1>20. CASE RollbackFails(p)
    <2>1. run[p].stage = "rollback" /\ Fault(p, "cleanup")
        BY <1>20 DEF RollbackFails
    <2>2. run[p].faults = 1 /\ run[p].found > run[p].own /\ ~run[p].installed
        BY <1>10, <2>1 DEF Alone, Before
    <2>3. /\ run'[p].stage = "cleanup" /\ run'[p].faults = 2 /\ ~run'[p].installed
          /\ run'[p].found = run[p].found
        BY <1>8, <1>9, <2>1, <2>2 DEF Keeps
    <2>4. Installed = {}
        BY <2>1 DEF IInv, Kept, OneSwaps, Swapping
    <2> QED
        BY <1>2, <1>3, <1>5, <2>2, <2>3, <2>4 DEF Outcome, Alone
<1>21. CASE DropOldFails(p)
    <2>1. run[p].stage = "dropOld" /\ Fault(p, "cleanup")
        BY <1>21 DEF DropOldFails
    <2>2. run[p].faults = 0 /\ New(p) /\ run[p].found > run[p].own
        BY <2>1 DEF Alone
    <2>3. run[p].installed
        BY <2>1 DEF IInv, Kept, Counted
    <2>4. /\ run'[p].stage = "cleanup" /\ run'[p].faults = 1 /\ run'[p].installed
          /\ run'[p].found = run[p].found
        <3>1. /\ run'[p].stage = "cleanup" /\ run'[p].faults = 1
              /\ run'[p].found = run[p].found
            BY <1>8, <1>9, <2>1, <2>2 DEF Keeps
        <3>2. run'[p].installed = run[p].installed
            BY <1>8, <1>9, <2>1
        <3> QED
            BY <2>3, <3>1, <3>2
    <2>5. New(p)'
        BY <1>3, <2>2, <2>4 DEF New
    <2> QED
        BY <1>2, <1>3, <1>5, <2>2, <2>4, <2>5 DEF Outcome, Alone
<1>22. CASE Report(p)
    <2>1. run[p].stage = "report" /\ (Goto(p, "ok") \/ Fault(p, "failed"))
        BY <1>22 DEF Report
    <2>2. run[p].installed /\ New(p) /\ Gone(p)
        BY <2>1 DEF Alone
    <2>3. run'[p].stage \in {"ok", "failed"}
        BY <1>7, <1>8, <1>9, <2>1
    <2>4. \E b \in Installed' : version[b] = run[p].found /\ \A c \in saved[p] : place'[c] = "absent"
        BY <1>3, <2>2 DEF New, Gone
    <2> QED
        BY <1>5, <2>2, <2>3, <2>4 DEF Outcome, InProgress, Working, Swapping
<1>23. CASE Kill(p)
    <2>1. run'[p].stage = "killed"
        BY <1>7, <1>9, <1>23 DEF Kill
    <2> QED
        BY <1>5, <2>1 DEF Outcome, InProgress, Working, Swapping
<1> QED
    BY <1>13, <1>14, <1>15, <1>16, <1>17, <1>18, <1>19, <1>20, <1>21, <1>22, <1>23 DEF Quiet

(* Steps that move a binary. *)
LEMMA AloneMoves ==
    ASSUME IInv, NEW p \in Procs, Alone(p), Step(p), ~Quiet(p), InProgress(p)
    PROVE  Outcome(p) /\ (InProgress(p)' => Alone(p)')
<1> USE DEF Start, Decided
<1>1. p \in Binaries /\ Type
    BY DEF Binaries, IInv
<1>2. \A s \in Stages : Goto(p, s) =>
          /\ Moves(p, s) /\ run'[p].stage = s
          /\ run'[p].found = run[p].found /\ run'[p].own = run[p].own
          /\ run'[p].faults = run[p].faults /\ run'[p].installed = run[p].installed
    BY <1>1, GotoMoves DEF Moves, Keeps
<1>3. {"moveAside", "moveIn", "cleanup", "report", "failed"} \subseteq Stages
    BY DEF Stages, Working, Swapping, Ended
<1>4. \A s \in Stages : Moves(p, s) => Sole(p)'
    BY SoleStays DEF Alone
<1>5. /\ run[p].own \in Nat /\ run[p].found \in Nat /\ run[p].faults \in Nat
      /\ run[p].stage \in Before => ~run[p].installed
    BY <1>1, VersionsAreNumbers DEF Type, Runs, IInv, Kept, NotYetIn
<1>6. \A b \in Installed : version[b] \in {run[p].own, run[p].found}
                           /\ version[b] >= run[p].own
    BY OneOfTwo
<1>7. CASE Extract(p)
    <2>1. /\ run[p].stage = "extract" /\ place' = [place EXCEPT ![p] = "tmp"]
          /\ version' = [version EXCEPT ![p] = run[p].found]
          /\ Goto(p, "moveAside") /\ UNCHANGED saved
        BY <1>7 DEF Extract
    <2>2. /\ Own(p) /\ run[p].faults = 0 /\ saved[p] = {} /\ run[p].found > run[p].own
          /\ place[p] \in {"absent", "tmp"}
        BY <2>1 DEF Alone, IInv, Kept, NotYetIn, Before
    <2>3. Installed' = Installed /\ \A b \in Installed : version'[b] = version[b]
        BY <1>1, <2>1, <2>2 DEF Type, Installed
    <2>4. /\ run'[p].stage = "moveAside" /\ Sole(p)' /\ run'[p].faults = 0
          /\ run'[p].own = run[p].own /\ run'[p].found = run[p].found
        BY <1>2, <1>3, <1>4, <2>1, <2>2
    <2>5. Own(p)' /\ version'[p] = run[p].found
        BY <1>1, <2>1, <2>2, <2>3, <2>4 DEF Own, Type
    <2> QED
        BY <1>6, <2>1, <2>2, <2>3, <2>4, <2>5 DEF Outcome, Alone
<1>8. CASE MoveAside(p)
    <2>1. run[p].stage = "moveAside" /\ Goto(p, "moveIn") /\ UNCHANGED version
        BY <1>8 DEF MoveAside
    <2>2. PICK b \in Installed : /\ place' = [place EXCEPT ![b] = "old"]
                                 /\ saved' = [saved EXCEPT ![p] = {b}]
        BY <1>8 DEF MoveAside
    <2>3. /\ Own(p) /\ run[p].faults = 0 /\ run[p].found > run[p].own
          /\ version[p] = run[p].found
        BY <2>1 DEF Alone
    <2>4. Installed = {b}
        BY TheOneInstalled DEF IInv, Kept
    <2>5. Installed' = {}
        BY <1>1, <2>2, <2>4 DEF Type, Installed
    <2>6. saved'[p] = {b} /\ version[b] = run[p].own
        BY <1>1, <2>2, <2>3, <2>4 DEF Type, Own
    <2>7. /\ run'[p].stage = "moveIn" /\ Sole(p)' /\ run'[p].faults = 0
          /\ run'[p].own = run[p].own /\ run'[p].found = run[p].found
        BY <1>2, <1>3, <1>4, <2>1, <2>3
    <2> QED
        BY <2>1, <2>3, <2>5, <2>6, <2>7 DEF Outcome, Alone
<1>9. CASE MoveIn(p)
    <2>1. run[p].stage = "moveIn" /\ place' = MovedIn(p) /\ UNCHANGED <<version, saved>>
        BY <1>9 DEF MoveIn
    <2>2. Installed = {}
        BY <2>1 DEF IInv, Kept, OneSwaps, Swapping
    <2>3. Installed' = {p}
        BY <1>1, <2>1, <2>2, TakesThePath
    <2>4. run[p].faults = 0 /\ run[p].found > run[p].own /\ version[p] = run[p].found
        BY <2>1 DEF Alone
    <2>5. /\ Moves(p, "dropOld") /\ run'[p].stage = "dropOld"
          /\ run'[p].own = run[p].own /\ run'[p].found = run[p].found
          /\ run'[p].faults = 0 /\ run'[p].installed
        BY <1>1, <1>9, <2>4, MoveInMoves DEF Moves, Keeps
    <2>6. Sole(p)'
        BY <2>5, SoleStays DEF Alone
    <2>7. New(p)'
        BY <2>1, <2>3, <2>4, <2>5 DEF New
    <2> QED
        BY <1>5, <2>1, <2>3, <2>4, <2>5, <2>6, <2>7 DEF Outcome, Alone
<1>10. CASE Rollback(p)
    <2>1. run[p].stage = "rollback" /\ Goto(p, "cleanup") /\ UNCHANGED version
        BY <1>10 DEF Rollback
    <2>2. PICK b \in saved[p] : place' = MovedIn(b)
        BY <1>10 DEF Rollback
    <2>3. Installed = {} /\ b \in Binaries /\ ~run[p].installed
        BY <1>1, <1>5, <2>1 DEF IInv, Kept, OneSwaps, Swapping, Type, Before
    <2>4. Installed' = {b}
        BY <1>1, <2>2, <2>3, TakesThePath
    <2>5. run[p].faults = 1 /\ run[p].found > run[p].own /\ version[b] = run[p].own
        BY <2>1, <2>2 DEF Alone
    <2>6. /\ run'[p].stage = "cleanup" /\ Sole(p)' /\ run'[p].faults = 1
          /\ run'[p].own = run[p].own /\ run'[p].found = run[p].found
          /\ ~run'[p].installed
        BY <1>2, <1>3, <1>4, <2>1, <2>3, <2>5
    <2>7. Own(p)'
        BY <2>1, <2>4, <2>5, <2>6 DEF Own
    <2> QED
        BY <1>5, <2>1, <2>4, <2>5, <2>6, <2>7 DEF Outcome, Alone
<1>11. CASE DropOld(p)
    <2>1. /\ run[p].stage = "dropOld" /\ Goto(p, "cleanup") /\ UNCHANGED <<version, saved>>
          /\ \A c \in Binaries : place'[c] = IF c \in saved[p] THEN "absent" ELSE place[c]
        BY <1>11 DEF DropOld
    <2>2. run[p].faults = 0 /\ New(p) /\ run[p].found > run[p].own /\ run[p].installed
        BY <2>1 DEF Alone, IInv, Kept, Counted
    <2>3. Installed' = Installed
        BY <2>1 DEF Installed, IInv, Kept, Backups
    <2>4. Gone(p)'
        BY <1>1, <2>1 DEF Gone, Type
    <2>5. /\ run'[p].stage = "cleanup" /\ Sole(p)' /\ run'[p].faults = 0
          /\ run'[p].own = run[p].own /\ run'[p].found = run[p].found
          /\ run'[p].installed
        BY <1>2, <1>3, <1>4, <2>1, <2>2
    <2>6. New(p)'
        BY <2>1, <2>2, <2>3, <2>5 DEF New
    <2> QED
        BY <1>6, <2>1, <2>2, <2>3, <2>4, <2>5, <2>6 DEF Outcome, Alone
<1>12. CASE Cleanup(p)
    <2>1. run[p].stage = "cleanup" /\ UNCHANGED <<version, saved>>
        BY <1>12 DEF Cleanup
    <2>2. \A b \in Binaries : place'[b] = place[b] \/ (place[b] = "tmp" /\ place'[b] = "absent")
        BY <1>12 DEF Cleanup, IInv, Type
    <2>3. Installed' = Installed /\ \A b \in Binaries : place[b] = "absent" => place'[b] = "absent"
        BY <2>2 DEF Installed
    <2>4. run[p].found > run[p].own
        BY <2>1 DEF Alone
    <2>5. CASE run[p].installed /\ run[p].faults = 0
        <3>1. New(p) /\ Gone(p)
            BY <2>1, <2>5 DEF Alone
        <3>2. Goto(p, "report")
            BY <1>12, <2>5 DEF Cleanup
        <3>3. /\ run'[p].stage = "report" /\ Sole(p)' /\ run'[p].installed
              /\ run'[p].own = run[p].own /\ run'[p].found = run[p].found
            BY <1>2, <1>3, <1>4, <2>5, <3>2
        <3>4. New(p)' /\ Gone(p)'
            BY <1>1, <2>1, <2>3, <3>1, <3>3 DEF New, Gone, Type
        <3> QED
            BY <1>6, <2>1, <2>3, <2>4, <3>3, <3>4 DEF Outcome, Alone
    <2>6. CASE ~(run[p].installed /\ run[p].faults = 0)
        <3>1. Goto(p, "failed")
            BY <1>12, <2>6 DEF Cleanup
        <3>2. run'[p].stage = "failed" /\ run'[p].faults = run[p].faults
            BY <1>2, <1>3, <3>1
        <3>3. run[p].faults = 1 /\ ~run[p].installed => Own(p)
            BY <2>1 DEF Alone
        <3> QED
            BY <1>6, <2>1, <2>3, <3>2, <3>3
            DEF Outcome, Own, InProgress, Working, Swapping
    <2> QED
        BY <2>5, <2>6
<1> QED
    BY <1>7, <1>8, <1>9, <1>10, <1>11, <1>12 DEF Step, Quiet

(* Another process that moves ends p's being alone. *)
LEMMA AloneStep ==
    ASSUME IInv, AloneOk, [Next]_vars
    PROVE  /\ AloneOk'
           /\ \A p \in Procs : InProgress(p) /\ run[p].alone => Outcome(p)
<1>1. CASE UNCHANGED <<disk, run>>
    <2>1. AloneOk'
        BY <1>1 DEF AloneOk, Alone, Sole, InProgress, Own, New, Gone, Installed, disk
    <2>2. ASSUME NEW p \in Procs, InProgress(p), run[p].alone PROVE Outcome(p)
        <3>1. Alone(p) /\ Installed' = Installed
            BY <1>1, <2>2 DEF AloneOk, Installed, disk
        <3> QED
            BY <1>1, <2>2, <3>1, OneOfTwo
            DEF Outcome, disk, InProgress, Working, Swapping
    <2> QED
        BY <2>1, <2>2
<1>2. ASSUME NEW p \in Procs, NEW choice \in Choices, Launch(p, choice)
      PROVE  /\ AloneOk'
             /\ \A q \in Procs : InProgress(q) /\ run[q].alone => Outcome(q)
    <2>1. run[p].stage = "ready" /\ UNCHANGED disk
        BY <1>2 DEF Launch
    <2>2. ~InProgress(p)
        BY <2>1 DEF InProgress, Working, Swapping
    <2>3. /\ \A q \in Procs : q # p =>
                /\ run'[q].stage = run[q].stage /\ run'[q].faults = run[q].faults
                /\ run'[q].alone <=> run[q].alone /\ ~InProgress(q)
          /\ run'[p].stage = "index" /\ run'[p].faults = run[p].faults
          /\ \E b \in Installed : run'[p].own = version[b]
          /\ run'[p].alone <=> \A o \in Procs : ~InProgress(o)
        BY <1>2, LaunchMoves DEF IInv
    <2>4. /\ Installed' = Installed /\ version' = version /\ saved' = saved
        BY <2>1 DEF disk, Installed
    <2>5. ASSUME NEW q \in Procs, q # p PROVE InProgress(q)' <=> InProgress(q)
        BY <2>3, <2>5 DEF InProgress
    <2>6. ASSUME run'[p].alone PROVE Alone(p)'
        <3>1. Sole(p)'
            BY <2>3, <2>5, <2>6 DEF Sole
        <3>2. run'[p].faults = 0 /\ saved'[p] = {}
            BY <2>1, <2>3, <2>4 DEF AloneOk
        <3>3. Own(p)'
            BY <2>3, <2>4 DEF Own
        <3> QED
            BY <2>3, <3>1, <3>2, <3>3 DEF Alone, Decided
    <2>7. \A q \in Procs : q # p /\ InProgress(q)' => ~run'[q].alone
        BY <2>3, <2>5
    <2>8. \A q \in Procs : run'[q].stage = "ready" => run'[q].faults = 0 /\ saved'[q] = {}
        BY <2>3, <2>4 DEF AloneOk
    <2>9. AloneOk'
        BY <2>6, <2>7, <2>8 DEF AloneOk
    <2>10. ASSUME NEW q \in Procs, InProgress(q), run[q].alone PROVE Outcome(q)
        <3>1. q # p /\ Alone(q)
            BY <2>2, <2>10 DEF AloneOk
        <3>2. run'[q].stage \notin {"ok", "failed"}
            BY <2>3, <2>10, <3>1 DEF InProgress, Working, Swapping
        <3> QED
            BY <2>4, <2>10, <3>1, <3>2, OneOfTwo DEF Outcome
    <2> QED
        BY <2>9, <2>10
<1>3. ASSUME NEW p \in Procs, Step(p) \/ Kill(p)
      PROVE  /\ AloneOk'
             /\ \A q \in Procs : InProgress(q) /\ run[q].alone => Outcome(q)
    <2>1. InProgress(p)
        BY <1>3 DEF InProgress, Working, Swapping, Step, Kill, FetchIndex, FetchSignature,
            SourceFails, Decide, PrepareFails, Download, Extract, ExtractFails, MoveAside,
            MoveAsideFails, MoveIn, MoveInFails, Rollback, RollbackFails, DropOld,
            DropOldFails, Cleanup, Report
    <2>2. PICK s \in Stages : Moves(p, s) /\ s # "ready"
        BY <1>3, RunStep DEF IInv
    <2>3. \A q \in Procs : q # p => ~(InProgress(q) /\ run[q].alone)
        BY <2>1 DEF AloneOk, Alone, Sole
    <2>4. ASSUME Alone(p) PROVE Outcome(p) /\ (InProgress(p)' => Alone(p)')
        BY <1>3, <2>1, <2>4, AloneQuiet, AloneMoves DEF Quiet
    <2>5. \A q \in Procs : q # p => run'[q] = run[q]
        BY <2>2 DEF Moves
    <2>6. run'[p].alone = run[p].alone /\ run'[p].stage = s
        BY <2>2 DEF Moves
    <2>7. \A q \in Procs : q # p => saved'[q] = saved[q]
        BY <1>3 DEF IInv, Type, disk, Step, Kill, FetchIndex, FetchSignature,
            SourceFails, Decide, PrepareFails, Download, Extract, ExtractFails, MoveAside,
            MoveAsideFails, MoveIn, MoveInFails, Rollback, RollbackFails, DropOld,
            DropOldFails, Cleanup, Report
    <2>8. AloneOk'
        BY <2>1, <2>2, <2>3, <2>4, <2>5, <2>6, <2>7 DEF AloneOk, InProgress
    <2> QED
        BY <2>1, <2>3, <2>4, <2>8 DEF AloneOk
<1> QED
    BY <1>1, <1>2, <1>3 DEF Next, vars, PublishIndex, PublishSignature

LEMMA AloneInit == Init => AloneOk
<1> SUFFICES ASSUME Init, NEW p \in Procs
             PROVE  run[p].stage = "ready" /\ run[p].faults = 0 /\ saved[p] = {}
    BY DEF AloneOk, InProgress, Working, Swapping
<1> QED
    BY DEF Init

(* ctyun upgrade: an upgrade that overlaps no other reports success only   *)
(* with what it found in place and nothing left beside it, never lowers    *)
(* the version, and after one failing call leaves what it started from.    *)
THEOREM OutcomesAreTrue == Spec => OutcomeIsTrue
<1>1. Init => IInv /\ AloneOk
    BY Initially, AloneInit
<1>2. IInv /\ AloneOk /\ [Next]_vars => (IInv /\ AloneOk)'
    BY Inductive, AloneStep
<1>3. IInv /\ AloneOk /\ [Next]_vars =>
          [\A p \in Procs :
             InProgress(p) /\ run[p].alone =>
                /\ \A b \in Installed' :
                      version'[b] \in {run[p].own, run[p].found} /\ version'[b] >= run[p].own
                /\ run'[p].stage = "ok" =>
                      \E b \in Installed' :
                         /\ version[b] = IF run[p].installed THEN run[p].found ELSE run[p].own
                         /\ \A c \in saved[p] : place'[c] = "absent"
                /\ run'[p].stage = "failed" /\ run'[p].faults = 1 /\ ~run[p].installed =>
                      \E b \in Installed' : version[b] = run[p].own]_vars
    BY AloneStep DEF Outcome
<1> QED
    BY <1>1, <1>2, <1>3, PTL DEF Spec, OutcomeIsTrue
=============================================================================
