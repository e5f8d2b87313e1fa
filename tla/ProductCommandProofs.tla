------------------------ MODULE ProductCommandProofs ------------------------
(***************************************************************************)
(* Theorems about ProductCommand, for any number of processes and any      *)
(* commands, retries, polls and answers.                                   *)
(***************************************************************************)
EXTENDS ProductCommand, TLAPS

Stages == {"ready"} \cup Remote \cup Local \cup Ended
Rows == Payloads \cup {<<>>}
Reqs == {c[p] : c \in Commands, p \in Procs}
Answers == [status : {"none", "accepted", "retryable", "refused"}, rows : Rows]

Runs == [stage : Stages, req : Reqs, attempt : Nat, polls : Nat \ {0}, open : {0, 1},
         executed : Nat, answer : Answers, seen : Seq(Rows), state : States,
         ok : BOOLEAN, published : BOOLEAN]

Type == /\ run \in [Procs -> Runs]
        /\ temp \in [Procs -> {"none", "partial", "whole"}]

Saving == {"stat", "create", "copy", "check", "publish", "cleanup"}

-----------------------------------------------------------------------------
(* What holds of the record r of a process with the temporary file t.      *)

(* Waiting(r, n): the first n answers were pending. *)
Waiting(r, n) == \A i \in 1..n : ~Ambiguous(r.seen[i]) /\ StateOf(r.seen[i]) = "pending"

(* What a waiter that succeeds has seen. *)
Told(r) ==
    /\ \A i \in 1..Len(r.seen) : ~Ambiguous(r.seen[i])
    /\ \A i \in 1..(Len(r.seen) - 1) : StateOf(r.seen[i]) = "pending"
    /\ IF r.state = "timeout"
       THEN Len(r.seen) = MaxPolls /\ StateOf(r.seen[MaxPolls]) = "pending"
       ELSE r.state = StateOf(r.seen[Len(r.seen)])

ClosedBetween(r) ==
    r.stage \in {"ready", "send", "sent", "evaluate", "ok", "failed"} => r.open = 0

Admitted(r) ==
    /\ r.stage \notin {"ready", "failed"} => Applicable(r.req)
    /\ r.stage = "evaluate" => r.req.waits
    /\ r.stage \in Saving => r.req.save # "no"

(* An operation that may not be sent again is sent by the first attempt. *)
SentOnce(r) ==
    ~r.req.retryable =>
        /\ r.stage \in {"ready", "send"} => r.attempt = 0 /\ r.executed = 0
        /\ r.stage \in {"sent", "refused"} => r.attempt >= 1
        /\ r.stage = "sent" /\ r.answer = NoAnswer => r.executed = 0
        /\ r.executed <= 1

(* Only an operation that was executed is accepted, and only an accepted   *)
(* one succeeds.                                                           *)
Executed(r) ==
    /\ r.answer.status = "accepted" \/ r.ok => r.executed >= 1
    /\ r.stage \in {"read", "evaluate"} \cup Saving => r.executed >= 1
    /\ r.stage = "ok" => r.ok

Polled(r) ==
    r.req.waits =>
        /\ r.stage \in {"ready", "send", "sent", "refused", "read"} =>
              Len(r.seen) = r.polls - 1 /\ Waiting(r, r.polls - 1)
        /\ r.stage = "evaluate" =>
              /\ Len(r.seen) = r.polls /\ Waiting(r, r.polls - 1)
              /\ r.seen[r.polls] = r.answer.rows

Succeeds(r) ==
    r.ok => /\ r.stage \in {"cleanup", "release"} \cup Ended
            /\ r.req.save # "no" => r.published
            /\ r.req.waits => Told(r)

Good(r, t) ==
    /\ ClosedBetween(r) /\ Admitted(r) /\ SentOnce(r) /\ Executed(r) /\ Polled(r)
    /\ Succeeds(r)
    /\ r.stage \in {"check", "publish"} => t = "whole"

Inv == Type /\ \A p \in Procs : Good(run[p], temp[p])

-----------------------------------------------------------------------------
(* The commands are well formed. *)
LEMMA ReqShape ==
    ASSUME NEW r \in Reqs
    PROVE  /\ r.retryable \in BOOLEAN /\ r.waits \in BOOLEAN /\ r.binary \in BOOLEAN
           /\ r.deadline \in BOOLEAN /\ r.save \in {"no", "new", "overwrite"}
<1>1. PICK c \in Commands, p \in Procs : r = c[p]
    BY DEF Reqs
<1> QED
    BY <1>1, CommandAssumption

(* A record and a file take the place of those of p; the other processes   *)
(* keep theirs.                                                            *)
LEMMA Becomes ==
    ASSUME Inv, NEW p \in Procs, NEW r \in Runs, run' = [run EXCEPT ![p] = r],
           temp' \in [Procs -> {"none", "partial", "whole"}],
           \A q \in Procs : q # p => temp'[q] = temp[q],
           Good(r, temp'[p])
    PROVE  Inv'
<1>1. run' \in [Procs -> Runs] /\ run'[p] = r
    BY DEF Inv, Type
<1>2. \A q \in Procs : q # p => run'[q] = run[q]
    BY DEF Inv, Type
<1> QED
    BY <1>1, <1>2 DEF Inv, Type

(* With the temporary files as they are. *)
LEMMA BecomesHere ==
    ASSUME Inv, NEW p \in Procs, NEW r \in Runs, run' = [run EXCEPT ![p] = r],
           UNCHANGED temp, Good(r, temp[p])
    PROVE  Inv'
BY Becomes DEF Inv, Type

(* A step that changes the stage alone. *)
LEMMA Stage ==
    ASSUME NEW r \in Runs, NEW s \in Stages
    PROVE  LET n == [r EXCEPT !.stage = s] IN
           /\ n \in Runs /\ n.stage = s /\ n.req = r.req /\ n.attempt = r.attempt
           /\ n.polls = r.polls /\ n.open = r.open /\ n.executed = r.executed
           /\ n.answer = r.answer /\ n.seen = r.seen /\ n.state = r.state
           /\ n.ok = r.ok /\ n.published = r.published
BY DEF Runs

(* And one that closes the response. *)
LEMMA Close ==
    ASSUME NEW r \in Runs, NEW s \in Stages
    PROVE  LET n == [r EXCEPT !.stage = s, !.open = 0] IN
           /\ n \in Runs /\ n.stage = s /\ n.req = r.req /\ n.attempt = r.attempt
           /\ n.polls = r.polls /\ n.open = 0 /\ n.executed = r.executed
           /\ n.answer = r.answer /\ n.seen = r.seen /\ n.state = r.state
           /\ n.ok = r.ok /\ n.published = r.published
BY DEF Runs

(* Where a process may go on to without more than its stage, and perhaps   *)
(* its open response, changing.                                            *)
Onward(r, s, t) ==
    /\ s \in Stages \ {"ready", "evaluate", "sent", "refused", "read"}
    /\ (s = "ok") => r.ok
    /\ (s # "failed") => Applicable(r.req)
    /\ (s \in Saving) => (r.req.save # "no" /\ r.executed >= 1)
    /\ (s = "send") => \/ r.stage = "ready"
                       \/ r.req.retryable /\ r.stage \in {"sent", "refused"}
    /\ (s \in {"check", "publish"}) => t = "whole"
    /\ r.ok => (s \in {"cleanup", "release"} \cup Ended)

LEMMA Told1 ==
    ASSUME NEW r, NEW n, n.seen = r.seen, n.state = r.state
    PROVE  /\ Told(n) <=> Told(r)
           /\ \A k : Waiting(n, k) <=> Waiting(r, k)
BY DEF Told, Waiting

LEMMA OnwardGood ==
    ASSUME NEW r \in Runs, NEW t, NEW t2, Good(r, t), NEW s, Onward(r, s, t2),
           NEW n, n \in Runs, n.stage = s, n.req = r.req, n.attempt = r.attempt,
           n.polls = r.polls, n.open = 0 \/ n.open = r.open, n.executed = r.executed,
           n.answer = r.answer, n.seen = r.seen, n.state = r.state,
           n.ok = r.ok, n.published = r.published,
           s \in {"ready", "send", "sent", "evaluate", "ok", "failed"} => n.open = 0
    PROVE  Good(n, t2)
<1> USE DEF Onward
<1>1. ClosedBetween(n) /\ Admitted(n)
    BY DEF ClosedBetween, Admitted
<1>2. SentOnce(n)
  <2>1. SentOnce(r)
      BY DEF Good
  <2> QED
      BY <2>1 DEF SentOnce
<1>3. Executed(n)
  <2>1. Executed(r)
      BY DEF Good
  <2> QED
      BY <2>1 DEF Executed
<1>4. Polled(n)
  <2>1. Polled(r)
      BY DEF Good
  <2>2. Waiting(n, r.polls - 1) <=> Waiting(r, r.polls - 1)
      BY Told1
  <2> QED
      BY <2>1, <2>2 DEF Polled
<1>5. Succeeds(n)
    BY Told1 DEF Good, Succeeds
<1> QED
    BY <1>1, <1>2, <1>3, <1>4, <1>5 DEF Good

-----------------------------------------------------------------------------
(* A step of p that goes on to a stage, its response open or closed.       *)
LEMMA Moves ==
    ASSUME Inv, NEW p \in Procs, NEW s,
           temp' \in [Procs -> {"none", "partial", "whole"}],
           \A q \in Procs : q # p => temp'[q] = temp[q],
           NEW t, t = temp'[p], Onward(run[p], s, t),
           \/ Goto(p, s) /\ (s \in {"send", "ok", "failed"} => run[p].open = 0)
           \/ Closed(p, s)
    PROVE  Inv'
<1>1. run[p] \in Runs /\ Good(run[p], temp[p]) /\ s \in Stages /\ run \in [Procs -> Runs]
    BY DEF Inv, Type, Onward
<1>2. s \notin {"ready", "sent", "evaluate"}
    BY DEF Onward
<1>3. CASE Goto(p, s) /\ (s \in {"send", "ok", "failed"} => run[p].open = 0)
  <2> DEFINE n == [run[p] EXCEPT !.stage = s]
  <2>1. run' = [run EXCEPT ![p] = n]
      BY <1>1, <1>3 DEF Goto
  <2>2. /\ n \in Runs /\ n.stage = s /\ n.req = run[p].req /\ n.attempt = run[p].attempt
        /\ n.polls = run[p].polls /\ n.open = run[p].open /\ n.executed = run[p].executed
        /\ n.answer = run[p].answer /\ n.seen = run[p].seen /\ n.state = run[p].state
        /\ n.ok = run[p].ok /\ n.published = run[p].published
      BY <1>1, Stage
  <2> HIDE DEF n
  <2>3. Good(n, t)
      BY <1>1, <1>2, <1>3, <2>2, OnwardGood
  <2> QED
      BY <2>1, <2>2, <2>3, Becomes
<1>4. CASE Closed(p, s)
  <2> DEFINE n == [run[p] EXCEPT !.stage = s, !.open = 0]
  <2>1. run' = [run EXCEPT ![p] = n]
      BY <1>1, <1>4 DEF Closed
  <2>2. /\ n \in Runs /\ n.stage = s /\ n.req = run[p].req /\ n.attempt = run[p].attempt
        /\ n.polls = run[p].polls /\ n.open = 0 /\ n.executed = run[p].executed
        /\ n.answer = run[p].answer /\ n.seen = run[p].seen /\ n.state = run[p].state
        /\ n.ok = run[p].ok /\ n.published = run[p].published
      BY <1>1, Close
  <2> HIDE DEF n
  <2>3. Good(n, t)
      BY <1>1, <2>2, OnwardGood
  <2> QED
      BY <2>1, <2>2, <2>3, Becomes
<1> QED
    BY <1>3, <1>4

(* The same with the temporary files as they are. *)
LEMMA MovesHere ==
    ASSUME Inv, NEW p \in Procs, NEW s, UNCHANGED temp, Onward(run[p], s, temp[p]),
           \/ Goto(p, s) /\ (s \in {"send", "ok", "failed"} => run[p].open = 0)
           \/ Closed(p, s)
    PROVE  Inv'
BY Moves DEF Inv, Type

(* What the invariant says of one process. *)
LEMMA Here ==
    ASSUME Inv, NEW p \in Procs
    PROVE  /\ run[p] \in Runs /\ run \in [Procs -> Runs] /\ run[p].req \in Reqs
           /\ temp \in [Procs -> {"none", "partial", "whole"}]
           /\ ClosedBetween(run[p]) /\ Admitted(run[p]) /\ SentOnce(run[p])
           /\ Executed(run[p]) /\ Polled(run[p]) /\ Succeeds(run[p])
           /\ run[p].stage \in {"check", "publish"} => temp[p] = "whole"
BY DEF Inv, Type, Good, Runs

(* Where a failed attempt goes on to: only what may be sent again is. *)
LEMMA Retried ==
    ASSUME Inv, NEW p \in Procs, run[p].stage \in {"sent", "refused"}
    PROVE  Onward(run[p], Again(p), temp[p])
<1>1. SentOnce(run[p]) /\ Admitted(run[p]) /\ Succeeds(run[p]) /\ run[p].attempt \in Nat
    BY Here DEF Runs
<1>2. Applicable(run[p].req) /\ ~run[p].ok
    BY <1>1 DEF Admitted, Succeeds, Ended
<1>3. CASE run[p].req.retryable
    BY <1>2, <1>3 DEF Onward, Again, Stages, Local, Ended, Saving
<1>4. CASE ~run[p].req.retryable
  <2>1. Again(p) = "failed"
      BY <1>1, <1>4 DEF SentOnce, Again, Retries
  <2> QED
      BY <1>2, <2>1 DEF Onward, Stages, Ended, Saving
<1> QED
    BY <1>3, <1>4

-----------------------------------------------------------------------------
(* Steps that change no more than the stage, the open response and the     *)
(* temporary file.                                                         *)

LEMMA LaunchInv == ASSUME Inv, NEW p \in Procs, Launch(p) PROVE Inv'
<1> DEFINE s == IF Applicable(run[p].req) THEN "send" ELSE "failed"
<1>1. Onward(run[p], s, temp[p])
    BY Here DEF Launch, Onward, Stages, Local, Ended, Saving, Succeeds
<1>2. Goto(p, s) /\ run[p].open = 0 /\ UNCHANGED temp
    BY Here DEF Launch, ClosedBetween
<1> QED
    BY <1>1, <1>2, MovesHere

LEMMA SendFailsInv == ASSUME Inv, NEW p \in Procs, SendFails(p) PROVE Inv'
<1>1. Onward(run[p], "failed", temp[p])
    BY DEF Onward, Stages, Ended, Saving
<1>2. Goto(p, "failed") /\ run[p].open = 0 /\ UNCHANGED temp
    BY Here DEF SendFails, ClosedBetween
<1> QED
    BY <1>1, <1>2, MovesHere

LEMMA RoundTripFailsInv == ASSUME Inv, NEW p \in Procs, RoundTripFails(p) PROVE Inv'
<1>1. Onward(run[p], "failed", temp[p]) /\ Onward(run[p], Again(p), temp[p])
    BY Retried DEF RoundTripFails, Onward, Stages, Ended, Saving
<1>2. (Goto(p, "failed") \/ Goto(p, Again(p))) /\ run[p].open = 0 /\ UNCHANGED temp
    BY Here DEF RoundTripFails, ClosedBetween
<1> QED
    BY <1>1, <1>2, MovesHere

LEMMA RefusedInv == ASSUME Inv, NEW p \in Procs, Refused(p) PROVE Inv'
<1>1. Onward(run[p], "failed", temp[p]) /\ Onward(run[p], Again(p), temp[p])
    BY Retried DEF Refused, Onward, Stages, Ended, Saving
<1>2. (Closed(p, "failed") \/ Closed(p, Again(p))) /\ UNCHANGED temp
    BY DEF Refused
<1> QED
    BY <1>1, <1>2, MovesHere

LEMMA ReadFailsInv == ASSUME Inv, NEW p \in Procs, ReadFails(p) PROVE Inv'
<1>1. Onward(run[p], "release", temp[p])
    BY Here DEF ReadFails, Onward, Stages, Local, Saving, Admitted
<1> QED
    BY <1>1, MovesHere DEF ReadFails

LEMMA ExpireInv == ASSUME Inv, NEW p \in Procs, Expire(p) PROVE Inv'
<1>1. Onward(run[p], "release", temp[p]) \/ run[p].stage = "ready"
    BY Here DEF Expire, Expires, Remote, Onward, Stages, Local, Saving, Admitted
<1>2. CASE run[p].stage = "sent"
    BY <1>2, Here, Retried, MovesHere DEF Expire, ClosedBetween
<1>3. CASE run[p].stage = "copy"
  <2>1. Onward(run[p], "cleanup", temp[p])
      BY <1>3, Here DEF Onward, Stages, Local, Saving, Admitted, Executed
  <2> QED
      BY <1>3, <2>1, MovesHere DEF Expire
<1>4. CASE run[p].stage \notin {"sent", "copy"}
  <2>1. Closed(p, "release") /\ run[p].stage # "ready" /\ UNCHANGED temp
      BY <1>4 DEF Expire, Expires, Remote
  <2> QED
      BY <1>1, <2>1, MovesHere
<1> QED
    BY <1>2, <1>3, <1>4

LEMMA StatTargetInv == ASSUME Inv, NEW p \in Procs, StatTarget(p) PROVE Inv'
<1> DEFINE s == IF Writable(p) THEN "create" ELSE "release"
<1>1. Onward(run[p], s, temp[p])
    BY Here DEF StatTarget, Onward, Stages, Local, Ended, Saving, Admitted, Executed, Succeeds
<1> QED
    BY <1>1, MovesHere DEF StatTarget

LEMMA CreateTempInv == ASSUME Inv, NEW p \in Procs, CreateTemp(p) PROVE Inv'
<1>1. Onward(run[p], "copy", "partial")
    BY Here DEF CreateTemp, Onward, Stages, Local, Ended, Saving, Admitted, Executed, Succeeds
<1>2. /\ temp' \in [Procs -> {"none", "partial", "whole"}] /\ temp'[p] = "partial"
      /\ \A q \in Procs : q # p => temp'[q] = temp[q]
    BY Here DEF CreateTemp
<1> QED
    BY <1>1, <1>2, Moves DEF CreateTemp

LEMMA CopyInv == ASSUME Inv, NEW p \in Procs, Copy(p) PROVE Inv'
<1> DEFINE s == IF run[p].req.save = "overwrite" THEN "check" ELSE "publish"
<1>1. Onward(run[p], s, "whole")
    BY Here DEF Copy, Onward, Stages, Local, Ended, Saving, Admitted, Executed, Succeeds
<1>2. /\ temp' \in [Procs -> {"none", "partial", "whole"}] /\ temp'[p] = "whole"
      /\ \A q \in Procs : q # p => temp'[q] = temp[q]
    BY Here DEF Copy
<1> QED
    BY <1>1, <1>2, Moves DEF Copy

LEMMA CopyFailsInv == ASSUME Inv, NEW p \in Procs, CopyFails(p) PROVE Inv'
<1>1. Onward(run[p], "cleanup", temp[p])
    BY Here DEF CopyFails, Onward, Stages, Local, Saving, Admitted, Executed
<1> QED
    BY <1>1, MovesHere DEF CopyFails

LEMMA RecheckInv == ASSUME Inv, NEW p \in Procs, Recheck(p) PROVE Inv'
<1> DEFINE s == IF target = Special THEN "cleanup" ELSE "publish"
<1>1. Onward(run[p], s, temp[p])
    BY Here DEF Recheck, Onward, Stages, Local, Ended, Saving, Admitted, Executed, Succeeds
<1> QED
    BY <1>1, MovesHere DEF Recheck

LEMMA WriteFileFailsInv == ASSUME Inv, NEW p \in Procs, WriteFileFails(p) PROVE Inv'
<1> DEFINE s == IF run[p].stage \in {"stat", "create"} THEN "release" ELSE "cleanup"
<1>1. Onward(run[p], s, temp[p])
    BY Here DEF WriteFileFails, Onward, Stages, Local, Ended, Saving, Admitted, Executed
<1> QED
    BY <1>1, MovesHere DEF WriteFileFails

LEMMA CleanupInv == ASSUME Inv, NEW p \in Procs, Cleanup(p) PROVE Inv'
<1>1. Onward(run[p], "release", temp'[p])
    BY Here DEF Cleanup, Onward, Stages, Local, Saving, Admitted
<1>2. /\ temp' \in [Procs -> {"none", "partial", "whole"}]
      /\ \A q \in Procs : q # p => temp'[q] = temp[q]
    BY Here DEF Cleanup
<1> QED
    BY <1>1, <1>2, Moves DEF Cleanup

LEMMA ReleaseInv == ASSUME Inv, NEW p \in Procs, Release(p) PROVE Inv'
<1>1. Onward(run[p], "failed", temp[p])
    BY DEF Onward, Stages, Ended, Saving
<1>2. run[p].ok => Onward(run[p], "ok", temp[p])
    BY Here DEF Release, Onward, Stages, Ended, Saving, Admitted
<1>3. ((run[p].ok /\ Closed(p, "ok")) \/ Closed(p, "failed")) /\ UNCHANGED temp
    BY DEF Release
<1> QED
    BY <1>1, <1>2, <1>3, MovesHere

LEMMA KillInv == ASSUME Inv, NEW p \in Procs, Kill(p) PROVE Inv'
<1>1. Onward(run[p], "killed", temp[p])
    BY Here DEF Kill, InProgress, Remote, Local, Onward, Stages, Ended, Saving, Admitted
<1> QED
    BY <1>1, MovesHere DEF Kill

-----------------------------------------------------------------------------
(* Steps that change more of the record.                                   *)

LEMMA SendInv == ASSUME Inv, NEW p \in Procs, Send(p) PROVE Inv'
<1> DEFINE r == run[p]
           k == r.attempt + 1
           m == [r EXCEPT !.stage = "sent", !.attempt = k]
           n == [m EXCEPT !.answer = NoAnswer]
<1>1. r \in Runs /\ r.stage = "send" /\ k \in Nat /\ k >= 1
    BY Here DEF Send, Runs
<1>2. /\ m \in Runs /\ m.stage = "sent" /\ m.attempt = k /\ m.req = r.req
      /\ m.polls = r.polls /\ m.open = r.open /\ m.executed = r.executed
      /\ m.seen = r.seen /\ m.ok = r.ok
    BY <1>1 DEF Runs, Stages, Remote
<1>3. n = [r EXCEPT !.stage = "sent", !.attempt = k, !.answer = NoAnswer]
    BY <1>1 DEF Runs
<1>4. NoAnswer \in Answers
    BY DEF NoAnswer, Answers, Rows
<1> HIDE DEF m
<1>5. /\ n \in Runs /\ n.stage = "sent" /\ n.attempt = k /\ n.req = r.req
      /\ n.polls = r.polls /\ n.open = r.open /\ n.executed = r.executed
      /\ n.seen = r.seen /\ n.ok = r.ok /\ n.answer = NoAnswer
    BY <1>2, <1>4 DEF Runs
<1> HIDE DEF n
<1>6. run' = [run EXCEPT ![p] = n]
    BY <1>3, Here DEF Send
<1>7. r.open = 0 /\ Applicable(r.req) /\ ~r.ok
    BY <1>1, Here DEF ClosedBetween, Admitted, Succeeds, Ended
<1>8. SentOnce(n) /\ Executed(n)
    BY <1>1, <1>5, <1>7, Here DEF SentOnce, Executed, NoAnswer, Saving
<1>9. Polled(n)
    BY <1>1, <1>5, Here DEF Polled, Waiting
<1>10. Good(n, temp[p])
    BY <1>5, <1>7, <1>8, <1>9 DEF Good, ClosedBetween, Admitted, Succeeds, Saving
<1> QED
    BY <1>5, <1>6, <1>10, BecomesHere DEF Send

LEMMA ServeInv == ASSUME Inv, NEW p \in Procs, Serve(p) PROVE Inv'
<1> DEFINE r == run[p]
<1>1. r \in Runs /\ r.stage = "sent" /\ r.answer = NoAnswer /\ UNCHANGED temp
    BY Here DEF Serve
<1>2. r.open = 0 /\ Applicable(r.req) /\ ~r.ok
    BY <1>1, Here DEF ClosedBetween, Admitted, Succeeds, Ended
<1>3. PICK a \in Answers, x \in Nat :
         /\ run' = [run EXCEPT ![p] = [r EXCEPT !.executed = x, !.answer = a]]
         /\ \/ x = r.executed + 1
            \/ (x = r.executed /\ a.status # "accepted")
         /\ a.status # "none"
  <2>1. CASE \E status \in {"accepted", "retryable", "refused"},
               rows \in IF r.req.waits THEN Payloads ELSE {<<>>} :
               run' = [run EXCEPT ![p].executed = @ + 1,
                                  ![p].answer = [status |-> status, rows |-> rows]]
    <3>1. PICK status \in {"accepted", "retryable", "refused"},
               rows \in IF r.req.waits THEN Payloads ELSE {<<>>} :
               run' = [run EXCEPT ![p].executed = @ + 1,
                                  ![p].answer = [status |-> status, rows |-> rows]]
        BY <2>1
    <3> DEFINE b == [status |-> status, rows |-> rows]
               y == r.executed + 1
    <3>2. b \in Answers /\ b.status = status /\ y \in Nat /\ y = r.executed + 1
        BY <1>1 DEF Answers, Rows, Runs
    <3>3. run' = [run EXCEPT ![p] = [r EXCEPT !.executed = y, !.answer = b]]
        BY <3>1, Here
    <3> HIDE DEF b, y
    <3> QED
        BY <3>2, <3>3
  <2>2. CASE \E status \in {"retryable", "refused"} :
               run' = [run EXCEPT ![p].answer = [status |-> status, rows |-> <<>>]]
    <3>1. PICK status \in {"retryable", "refused"} :
               run' = [run EXCEPT ![p].answer = [status |-> status, rows |-> <<>>]]
        BY <2>2
    <3> DEFINE b == [status |-> status, rows |-> <<>>]
               y == r.executed
    <3>2. b \in Answers /\ b.status = status /\ y \in Nat
        BY <1>1 DEF Answers, Rows, Runs
    <3>3. run' = [run EXCEPT ![p] = [r EXCEPT !.answer = b]]
        BY <3>1, Here
    <3>4. [r EXCEPT !.answer = b] = [r EXCEPT !.executed = y, !.answer = b]
        BY <1>1 DEF Runs
    <3> HIDE DEF b
    <3> QED
        BY <3>2, <3>3, <3>4
  <2> QED
      BY <2>1, <2>2 DEF Serve
<1> DEFINE n == [r EXCEPT !.executed = x, !.answer = a]
<1>5. /\ n \in Runs /\ n.stage = "sent" /\ n.attempt = r.attempt /\ n.req = r.req
      /\ n.polls = r.polls /\ n.open = r.open /\ n.executed = x
      /\ n.seen = r.seen /\ n.ok = r.ok /\ n.answer = a
    BY <1>1 DEF Runs
<1>6. run' = [run EXCEPT ![p] = n]
    BY <1>3
<1> HIDE DEF n
<1>7. x >= r.executed /\ x <= r.executed + 1 /\ (a.status = "accepted" => x >= 1)
    BY <1>1, <1>3 DEF Runs
<1>8. SentOnce(n)
    BY <1>1, <1>3, <1>5, <1>7, Here DEF SentOnce, NoAnswer
<1>9. Executed(n) /\ Polled(n)
    BY <1>1, <1>2, <1>5, <1>7, Here DEF Executed, Polled, Waiting, Saving
<1>10. Good(n, temp[p])
    BY <1>2, <1>5, <1>8, <1>9 DEF Good, ClosedBetween, Admitted, Succeeds, Saving
<1> QED
    BY <1>1, <1>5, <1>6, <1>10, BecomesHere

LEMMA ReceiveInv == ASSUME Inv, NEW p \in Procs, Receive(p) PROVE Inv'
<1> DEFINE r == run[p]
           s == IF r.answer.status # "accepted" THEN "refused"
                ELSE IF r.req.binary /\ Saves(p) THEN "stat" ELSE "read"
           n == [r EXCEPT !.open = 1, !.stage = s]
<1>1. r \in Runs /\ r.stage = "sent" /\ r.answer # NoAnswer /\ UNCHANGED temp
    BY Here DEF Receive
<1>2. r.open = 0 /\ Applicable(r.req) /\ ~r.ok
    BY <1>1, Here DEF ClosedBetween, Admitted, Succeeds, Ended
<1>3. s \in {"refused", "stat", "read"} /\ s \in Stages
    BY DEF Stages, Remote, Local
<1>4. run' = [run EXCEPT ![p] = n]
  <2>1. r.open + 1 = 1
      BY <1>2
  <2> QED
      BY <2>1, Here DEF Receive
<1>5. /\ s # "refused" => r.executed >= 1
      /\ s = "stat" => r.req.save # "no"
    BY <1>1, Here DEF Executed, Saves
<1> HIDE DEF s
<1>6. /\ n \in Runs /\ n.stage = s /\ n.attempt = r.attempt /\ n.req = r.req
      /\ n.polls = r.polls /\ n.open = 1 /\ n.executed = r.executed
      /\ n.seen = r.seen /\ n.ok = r.ok /\ n.answer = r.answer
    BY <1>1, <1>3 DEF Runs
<1> HIDE DEF n
<1>7. SentOnce(n) /\ Executed(n)
    BY <1>1, <1>2, <1>3, <1>5, <1>6, Here DEF SentOnce, Executed, Saving
<1>8. Polled(n)
    BY <1>1, <1>3, <1>6, Here DEF Polled, Waiting
<1>9. Good(n, temp[p])
    BY <1>2, <1>3, <1>5, <1>6, <1>7, <1>8 DEF Good, ClosedBetween, Admitted, Succeeds, Saving
<1> QED
    BY <1>1, <1>4, <1>6, <1>9, BecomesHere

LEMMA ReadInv == ASSUME Inv, NEW p \in Procs, Read(p) PROVE Inv'
<1> DEFINE r == run[p]
<1>1. r \in Runs /\ r.stage = "read" /\ UNCHANGED temp
    BY Here DEF Read
<1>2. Applicable(r.req) /\ ~r.ok /\ r.executed >= 1 /\ r.answer \in Answers
    BY <1>1, Here DEF Admitted, Succeeds, Executed, Ended, Runs
<1>3. CASE r.req.waits
  <2> DEFINE w == Append(r.seen, r.answer.rows)
             n == [r EXCEPT !.stage = "evaluate", !.open = 0, !.seen = w]
  <2>1. r.answer.rows \in Rows /\ r.seen \in Seq(Rows)
      BY <1>1, <1>2 DEF Answers, Runs
  <2>2. /\ w \in Seq(Rows) /\ Len(w) = Len(r.seen) + 1 /\ w[Len(r.seen) + 1] = r.answer.rows
        /\ \A i \in 1..Len(r.seen) : w[i] = r.seen[i]
      BY <2>1
  <2>3. run' = [run EXCEPT ![p] = n]
      BY <1>1, <1>3, Here DEF Read
  <2> HIDE DEF w
  <2>4. /\ n \in Runs /\ n.stage = "evaluate" /\ n.req = r.req /\ n.polls = r.polls
        /\ n.open = 0 /\ n.executed = r.executed /\ n.seen = w /\ n.ok = r.ok
        /\ n.answer = r.answer
      BY <1>1, <2>2 DEF Runs, Stages, Local
  <2> HIDE DEF n
  <2>5. SentOnce(n) /\ Executed(n)
      BY <1>1, <1>2, <2>4, Here DEF SentOnce, Executed
  <2>6. Polled(n)
    <3>1. Polled(r) /\ r.polls \in Nat
        BY Here DEF Runs
    <3>2. Len(r.seen) = r.polls - 1 /\ Waiting(r, r.polls - 1)
        BY <1>1, <1>3, <3>1 DEF Polled
    <3>3. Waiting(n, r.polls - 1)
        BY <2>2, <2>4, <3>2 DEF Waiting
    <3>4. Len(w) = r.polls /\ w[r.polls] = r.answer.rows
        BY <2>2, <3>1, <3>2
    <3> QED
        BY <2>4, <3>3, <3>4 DEF Polled
  <2>7. Good(n, temp[p])
      BY <1>2, <1>3, <2>4, <2>5, <2>6 DEF Good, ClosedBetween, Admitted, Succeeds, Saving
  <2> QED
      BY <1>1, <2>3, <2>4, <2>7, BecomesHere
<1>4. CASE ~r.req.waits /\ Saves(p)
  <2>1. Onward(r, "stat", temp[p])
      BY <1>2, <1>4 DEF Onward, Stages, Local, Saving, Saves
  <2> QED
      BY <1>1, <1>4, <2>1, MovesHere DEF Read
<1>5. CASE ~r.req.waits /\ ~Saves(p)
  <2> DEFINE n == [r EXCEPT !.stage = "release", !.open = 0, !.ok = TRUE]
  <2>1. run' = [run EXCEPT ![p] = n]
      BY <1>1, <1>5, Here DEF Read
  <2>2. /\ n \in Runs /\ n.stage = "release" /\ n.req = r.req
        /\ n.open = 0 /\ n.executed = r.executed /\ n.answer = r.answer
      BY <1>1 DEF Runs, Stages, Local
  <2> HIDE DEF n
  <2>3. SentOnce(n) /\ Executed(n)
      BY <1>1, <1>2, <2>2, Here DEF SentOnce, Executed, Saving
  <2>4. Good(n, temp[p])
      BY <1>2, <1>5, <2>2, <2>3
         DEF Good, ClosedBetween, Admitted, Polled, Succeeds, Saving, Saves
  <2> QED
      BY <1>1, <2>1, <2>2, <2>4, BecomesHere
<1> QED
    BY <1>3, <1>4, <1>5

LEMMA EvaluateInv == ASSUME Inv, NEW p \in Procs, Evaluate(p) PROVE Inv'
<1> DEFINE r == run[p]
           rows == r.answer.rows
<1>1. /\ r \in Runs /\ r.stage = "evaluate" /\ UNCHANGED temp
      /\ r.polls \in Nat \ {0} /\ r.seen \in Seq(Rows) /\ r.answer \in Answers
    BY Here DEF Evaluate, Runs
<1>2. /\ r.req.waits /\ r.req.retryable /\ r.req.save = "no" /\ Applicable(r.req)
      /\ ~r.ok /\ r.executed >= 1 /\ r.open = 0
    BY <1>1, Here DEF Admitted, Applicable, Succeeds, Executed, Ended, ClosedBetween
<1>3. Len(r.seen) = r.polls /\ Waiting(r, r.polls - 1) /\ r.seen[r.polls] = rows
    BY <1>1, <1>2, Here DEF Polled
<1>4. CASE Ambiguous(rows)
  <2>1. Onward(r, "failed", temp[p])
      BY <1>2 DEF Onward, Stages, Ended, Saving
  <2> QED
      BY <1>1, <1>2, <1>4, <2>1, MovesHere DEF Evaluate
<1>5. CASE ~Ambiguous(rows) /\ (StateOf(rows) # "pending" \/ r.polls = MaxPolls)
  <2> DEFINE v == IF StateOf(rows) = "pending" THEN "timeout" ELSE StateOf(rows)
             n == [r EXCEPT !.stage = "release", !.ok = TRUE, !.state = v]
  <2>1. StateOf(rows) \in {"pending", "success", "failure"}
      BY DEF StateOf
  <2>2. v \in States /\ (v = "timeout" <=> StateOf(rows) = "pending")
      BY <2>1 DEF States
  <2>3. v # "timeout" => v = StateOf(rows)
      BY <2>2
  <2>4. run' = [run EXCEPT ![p] = n]
      BY <1>1, <1>5, Here DEF Evaluate
  <2> HIDE DEF v
  <2>5. /\ n \in Runs /\ n.stage = "release" /\ n.req = r.req /\ n.open = 0
        /\ n.executed = r.executed /\ n.seen = r.seen /\ n.state = v
        /\ n.answer = r.answer
      BY <1>1, <1>2, <2>2 DEF Runs, Stages, Local
  <2> HIDE DEF n
  <2>6. SentOnce(n) /\ Executed(n)
      BY <1>1, <1>2, <2>5, Here DEF SentOnce, Executed, Saving
  <2>7. Told(n)
    <3>1. \A i \in 1..Len(r.seen) : i \in 1..(r.polls - 1) \/ i = r.polls
        BY <1>1, <1>3
    <3>2. \A i \in 1..Len(n.seen) : ~Ambiguous(n.seen[i])
        BY <1>3, <1>5, <2>5, <3>1 DEF Waiting
    <3>3. \A i \in 1..(Len(n.seen) - 1) : StateOf(n.seen[i]) = "pending"
        BY <1>3, <2>5 DEF Waiting
    <3>4. CASE v = "timeout"
        BY <1>3, <1>5, <2>2, <2>5, <3>2, <3>3, <3>4 DEF Told
    <3>5. CASE v # "timeout"
        BY <1>3, <2>3, <2>5, <3>2, <3>3, <3>5 DEF Told
    <3> QED
        BY <3>4, <3>5
  <2>8. Good(n, temp[p])
      BY <1>2, <2>5, <2>6, <2>7 DEF Good, ClosedBetween, Admitted, Polled, Succeeds, Saving
  <2> QED
      BY <1>1, <2>4, <2>5, <2>8, BecomesHere
<1>6. CASE ~Ambiguous(rows) /\ StateOf(rows) = "pending" /\ r.polls # MaxPolls
  <2> DEFINE k == r.polls + 1
             n == [r EXCEPT !.stage = "send", !.attempt = 0, !.polls = k]
  <2>1. run' = [run EXCEPT ![p] = n]
      BY <1>1, <1>6, Here DEF Evaluate
  <2>2. k \in Nat \ {0} /\ k - 1 = r.polls
      BY <1>1
  <2> HIDE DEF k
  <2>3. /\ n \in Runs /\ n.stage = "send" /\ n.req = r.req /\ n.open = r.open
        /\ n.executed = r.executed /\ n.seen = r.seen /\ n.ok = r.ok /\ n.polls = k
        /\ n.answer = r.answer
      BY <1>1, <2>2 DEF Runs, Stages, Local
  <2> HIDE DEF n
  <2>4. SentOnce(n) /\ Executed(n)
      BY <1>1, <1>2, <2>3 DEF SentOnce, Executed, Saving
  <2>5. Polled(n)
    <3>1. \A i \in 1..r.polls : i \in 1..(r.polls - 1) \/ i = r.polls
        BY <1>1
    <3>2. Waiting(n, r.polls)
        BY <1>3, <1>6, <2>3, <3>1 DEF Waiting
    <3> QED
        BY <1>3, <2>2, <2>3, <3>2 DEF Polled
  <2>6. Good(n, temp[p])
      BY <1>2, <2>3, <2>4, <2>5 DEF Good, ClosedBetween, Admitted, Succeeds, Saving
  <2> QED
      BY <1>1, <2>1, <2>3, <2>6, BecomesHere
<1> QED
    BY <1>4, <1>5, <1>6

LEMMA PublishInv == ASSUME Inv, NEW p \in Procs, Publish(p) PROVE Inv'
<1> DEFINE r == run[p]
           n == [r EXCEPT !.stage = "cleanup", !.ok = TRUE, !.published = TRUE]
<1>1. r \in Runs /\ r.stage = "publish" /\ UNCHANGED temp
    BY Here DEF Publish
<1>2. /\ Applicable(r.req) /\ r.req.save # "no" /\ ~r.req.waits
      /\ r.executed >= 1
    BY <1>1, Here, ReqShape DEF Admitted, Applicable, Saving, Executed
<1>3. run' = [run EXCEPT ![p] = n]
    BY <1>1, Here DEF Publish
<1>4. /\ n \in Runs /\ n.stage = "cleanup" /\ n.req = r.req /\ n.published = TRUE
      /\ n.executed = r.executed
    BY <1>1 DEF Runs, Stages, Local
<1> HIDE DEF n
<1>5. SentOnce(n) /\ Executed(n)
    BY <1>1, <1>2, <1>4, Here DEF SentOnce, Executed, Saving
<1>6. Good(n, temp[p])
    BY <1>2, <1>4, <1>5 DEF Good, ClosedBetween, Admitted, Polled, Succeeds, Saving
<1> QED
    BY <1>1, <1>3, <1>4, <1>6, BecomesHere

-----------------------------------------------------------------------------
LEMMA InitInv == Init => Inv
<1> SUFFICES ASSUME Init PROVE Inv
    OBVIOUS
<1>1. PICK c \in Commands :
         run = [p \in Procs |->
                  [stage |-> "ready", req |-> c[p], attempt |-> 0, polls |-> 1, open |-> 0,
                   executed |-> 0, answer |-> NoAnswer, seen |-> <<>>, state |-> "pending",
                   ok |-> FALSE, published |-> FALSE]]
    BY DEF Init
<1>2. NoAnswer \in Answers /\ <<>> \in Seq(Rows) /\ Len(<<>>) = 0 /\ NoAnswer.status = "none"
    BY DEF NoAnswer, Answers, Rows
<1>3. ASSUME NEW p \in Procs PROVE run[p] \in Runs
  <2>1. c[p] \in Reqs /\ "ready" \in Stages /\ "pending" \in States
      BY DEF Reqs, Stages, States
  <2> HIDE DEF NoAnswer
  <2> QED
      BY <1>1, <1>2, <2>1 DEF Runs
<1>4. Type
  <2>1. run \in [Procs -> Runs]
      BY <1>1, <1>3
  <2> QED
      BY <2>1 DEF Init, Type
<1>5. ASSUME NEW p \in Procs PROVE Good(run[p], temp[p])
  <2> DEFINE r == run[p]
  <2>1. /\ r.stage = "ready" /\ r.attempt = 0 /\ r.polls = 1 /\ r.open = 0 /\ r.executed = 0
        /\ r.answer = NoAnswer /\ r.seen = <<>> /\ r.ok = FALSE
      BY <1>1
  <2> HIDE DEF r
  <2>2. ClosedBetween(r) /\ Admitted(r) /\ SentOnce(r) /\ Executed(r)
      BY <1>2, <2>1 DEF ClosedBetween, Admitted, SentOnce, Executed, Saving
  <2>3. Polled(r) /\ Succeeds(r)
      BY <1>2, <2>1 DEF Polled, Waiting, Succeeds
  <2> QED
      BY <2>1, <2>2, <2>3 DEF Good, r
<1> QED
    BY <1>4, <1>5 DEF Inv

LEMMA StepInv == Inv /\ [Next]_vars => Inv'
<1> SUFFICES ASSUME Inv, [Next]_vars PROVE Inv'
    OBVIOUS
<1>1. CASE OtherProgram
    BY <1>1 DEF OtherProgram, Inv, Type
<1>2. ASSUME NEW p \in Procs, Launch(p) \/ Proceed(p) \/ Respond(p) \/ Expire(p) \/ Kill(p)
      PROVE  Inv'
  <2>1. CASE Launch(p) \/ Expire(p) \/ Kill(p)
      BY <2>1, LaunchInv, ExpireInv, KillInv
  <2>2. CASE Proceed(p)
      BY <2>2, SendInv, SendFailsInv, ReceiveInv, EvaluateInv, StatTargetInv, CreateTempInv,
         CopyInv, CopyFailsInv, RecheckInv, PublishInv, WriteFileFailsInv, CleanupInv,
         ReleaseInv DEF Proceed
  <2>3. CASE Respond(p)
      BY <2>3, ServeInv, RoundTripFailsInv, RefusedInv, ReadInv, ReadFailsInv, CopyInv
         DEF Respond
  <2> QED
      BY <1>2, <2>1, <2>2, <2>3
<1>3. CASE UNCHANGED vars
    BY <1>3 DEF vars, Inv, Type
<1> QED
    BY <1>1, <1>2, <1>3 DEF Next

(* The invariant: what the stages of every process say of its request, its *)
(* response, its attempts, its polls and its temporary file.               *)
THEOREM CommandInvariant == Spec => []Inv
BY InitInv, StepInv, PTL DEF Spec

(* No attempt, poll or early error leaves a response open behind it.       *)
THEOREM NothingOpen == Spec => []NoStrayResponse
<1>1. Inv => NoStrayResponse
    BY DEF Inv, Good, ClosedBetween, NoStrayResponse
<1> QED
    BY <1>1, CommandInvariant, PTL

(* Whatever the network loses or delays, the server executes an operation  *)
(* that may not be sent again at most once, and one that succeeded at      *)
(* least once.                                                             *)
THEOREM ExecutedAtMostOnce == Spec => []ExecutedOnce
<1>1. Inv => ExecutedOnce
    BY DEF Inv, Good, SentOnce, Executed, ExecutedOnce
<1> QED
    BY <1>1, CommandInvariant, PTL

(* A command that succeeds has published its file, or reports the state of *)
(* the last answer after answers that were all pending.                    *)
THEOREM ReportedTruly == Spec => []SuccessIsTrue
<1>1. Inv => SuccessIsTrue
    BY DEF Inv, Good, Executed, Succeeds, Told, Saves, SuccessIsTrue
<1> QED
    BY <1>1, CommandInvariant, PTL

-----------------------------------------------------------------------------
(* Only Publish publishes. *)
LEMMA OnlyPublish ==
    ASSUME Inv, NEW p \in Procs, NEW q \in Procs,
           Launch(q) \/ Proceed(q) \/ Respond(q) \/ Expire(q) \/ Kill(q), ~Publish(p)
    PROVE  run'[p].published = run[p].published
<1>1. run \in [Procs -> Runs] /\ run[p] \in Runs /\ run[q] \in Runs
    BY Here
<1>g. ASSUME NEW s, Goto(q, s) PROVE run'[p].published = run[p].published
    BY <1>1, <1>g DEF Goto, Runs
<1>c. ASSUME NEW s, Closed(q, s) PROVE run'[p].published = run[p].published
    BY <1>1, <1>c DEF Closed, Runs
<1>2. CASE Launch(q) \/ Expire(q) \/ Kill(q)
    BY <1>2, <1>g, <1>c DEF Launch, Expire, Kill
<1>3. CASE Respond(q)
  <2>1. CASE Serve(q)
    <3>1. ASSUME NEW a, run' = [run EXCEPT ![q].answer = a]
          PROVE  run'[p].published = run[p].published
        BY <1>1, <3>1 DEF Runs
    <3>2. ASSUME NEW a, run' = [run EXCEPT ![q].executed = @ + 1, ![q].answer = a]
          PROVE  run'[p].published = run[p].published
        BY <1>1, <3>2 DEF Runs
    <3> QED
        BY <2>1, <3>1, <3>2 DEF Serve
  <2>2. CASE RoundTripFails(q) \/ Refused(q) \/ ReadFails(q) \/ Copy(q)
      BY <1>g, <1>c, <2>2 DEF RoundTripFails, Refused, ReadFails, Copy
  <2>3. CASE Read(q)
    <3>2. CASE run' = [run EXCEPT ![q].stage = "release", ![q].open = 0, ![q].ok = TRUE]
        BY <1>1, <3>2 DEF Runs
    <3>3. CASE run' = [run EXCEPT ![q].stage = "evaluate", ![q].open = 0,
                                  ![q].seen = Append(@, run[q].answer.rows)]
        BY <1>1, <3>3 DEF Runs
    <3> QED
        BY <1>c, <2>3, <3>2, <3>3 DEF Read
  <2> QED
      BY <1>3, <2>1, <2>2, <2>3 DEF Respond
<1>4. CASE Proceed(q)
  <2>1. CASE Send(q)
      BY <1>1, <2>1 DEF Send, Runs
  <2>2. CASE Receive(q)
      BY <1>1, <2>2 DEF Receive, Runs
  <2>3. CASE Evaluate(q)
    <3>1. CASE run' = [run EXCEPT ![q].stage = "send", ![q].attempt = 0, ![q].polls = @ + 1]
        BY <1>1, <3>1 DEF Runs
    <3>2. ASSUME NEW v,
                 run' = [run EXCEPT ![q].stage = "release", ![q].ok = TRUE, ![q].state = v]
          PROVE  run'[p].published = run[p].published
        BY <1>1, <3>2 DEF Runs
    <3> QED
        BY <1>g, <2>3, <3>1, <3>2 DEF Evaluate
  <2>4. CASE \/ SendFails(q) \/ StatTarget(q) \/ CreateTemp(q) \/ Recheck(q)
             \/ WriteFileFails(q) \/ Cleanup(q)
      BY <1>g, <2>4 DEF SendFails, StatTarget, CreateTemp, Recheck, WriteFileFails, Cleanup
  <2>5. CASE Copy(q) \/ CopyFails(q) \/ Release(q)
      BY <1>c, <2>5 DEF Copy, CopyFails, Release
  <2>6. CASE Publish(q)
    <3>1. q # p
        BY <2>6
    <3> QED
        BY <1>1, <2>6, <3>1 DEF Publish
  <2> QED
      BY <1>4, <2>1, <2>2, <2>3, <2>4, <2>5, <2>6 DEF Proceed
<1> QED
    BY <1>2, <1>3, <1>4

(* Whatever races for the destination, a command publishes a whole body    *)
(* there, and without --overwrite it takes the place of nothing.           *)
THEOREM WholeIsPublished == Spec => PublishedWhole
<1>1. Inv /\ [Next]_vars =>
         [\A p \in Procs :
             run'[p].published /\ ~run[p].published =>
                /\ target' = <<p, "whole">>
                /\ run[p].req.save # "overwrite" => target = Absent]_vars
  <2> SUFFICES ASSUME Inv, Next, NEW p \in Procs, run'[p].published, ~run[p].published
               PROVE  /\ target' = <<p, "whole">>
                      /\ run[p].req.save # "overwrite" => target = Absent
      OBVIOUS
  <2>1. Publish(p)
    <3> SUFFICES ASSUME ~Publish(p) PROVE FALSE
        OBVIOUS
    <3>1. CASE OtherProgram
        BY <3>1 DEF OtherProgram
    <3>2. ASSUME NEW q \in Procs,
                 Launch(q) \/ Proceed(q) \/ Respond(q) \/ Expire(q) \/ Kill(q)
          PROVE  FALSE
      <4>1. run'[p].published = run[p].published
          BY <3>2, OnlyPublish
      <4> QED
          BY <4>1
    <3> QED
        BY <3>1, <3>2 DEF Next
  <2>2. temp[p] = "whole"
      BY <2>1, Here DEF Publish
  <2> QED
      BY <2>1, <2>2 DEF Publish
<1> QED
    BY <1>1, CommandInvariant, PTL DEF Spec, PublishedWhole
=============================================================================
