--------------------------- MODULE ProductCommand ---------------------------
(***************************************************************************)
(* A product command: one operation of the remote API, sent by a process   *)
(* that signs the request, retries it (internal/client/http.go, Do), reads *)
(* the response (client/result.go), and either prints it, publishes it as  *)
(* a file (internal/output/file.go, WriteFile) or polls with a waiter      *)
(* until a resource has reached a state (internal/cli/waiters.go).         *)
(*                                                                         *)
(* The server and the network are the environment: a request may be lost   *)
(* or executed and its answer lost, an answer may come late or never, and  *)
(* a body may stop in the middle.  Other programs, and other processes of  *)
(* ctyun, change the destination at any time.                              *)
(*                                                                         *)
(* Abstracted: a payload is the sequence of the states of the rows that    *)
(* have the identity a waiter selects; building and signing a request is   *)
(* part of sending it.                                                     *)
(***************************************************************************)
EXTENDS Naturals, Sequences

CONSTANTS Procs,         \* processes: one product command each
          Commands,      \* what may be given to them: functions from Procs
          MaxRetries,    \* retries of an operation whose metadata allows them
          MaxPolls,      \* max_attempts of the waiter
          Payloads,      \* what the server may answer
          SuccessValues, \* the states a waiter waits for
          FailureValues  \* the states at which it gives up

ASSUME CommandAssumption ==
    /\ MaxRetries \in Nat /\ MaxPolls \in Nat \ {0}
    /\ SuccessValues \cap FailureValues = {}
    /\ \A c \in Commands : \A p \in Procs : LET r == c[p] IN
          /\ {r.retryable, r.waits, r.binary, r.deadline} \subseteq BOOLEAN
          /\ r.save \in {"no", "new", "overwrite"}

VARIABLES target,   \* what the destination path names
          temp,     \* temp[p]: the temporary file of p beside it
          run       \* run[p]: what process p is doing

vars == <<target, temp, run>>

(* Nothing, a regular file or something else of another program, or the    *)
(* body a process received.                                                *)
Absent  == <<"other", "absent">>
Special == <<"other", "special">>
Foreign == {Absent, Special, <<"other", "file">>}
Bodies  == Procs \X {"partial", "whole"}

(* Waiting for the server, or for a call of this process to return. *)
Remote  == {"sent", "refused", "read"}
Local   == {"send", "evaluate", "stat", "create", "copy", "check", "publish", "cleanup", "release"}
Ended   == {"ok", "failed", "killed"}
States  == {"success", "failure", "pending", "timeout"}

NoAnswer == [status |-> "none", rows |-> <<>>]

TypeOK ==
    /\ target \in Foreign \cup Bodies
    /\ temp \in [Procs -> {"none", "partial", "whole"}]
    /\ \A p \in Procs :
          /\ run[p].stage \in {"ready"} \cup Remote \cup Local \cup Ended
          /\ run[p].req \in {c[p] : c \in Commands}
          /\ run[p].attempt \in 0..(MaxRetries + 1)
          /\ run[p].polls \in 1..MaxPolls
          /\ run[p].open \in {0, 1}
          /\ run[p].executed \in 0..(MaxPolls * (MaxRetries + 1))
          /\ run[p].answer.status \in {"none", "accepted", "retryable", "refused"}
          /\ run[p].seen \in Seq(Payloads)
          /\ run[p].state \in States
          /\ {run[p].ok, run[p].published} \subseteq BOOLEAN

Init ==
    /\ target \in Foreign
    /\ temp = [p \in Procs |-> "none"]
    /\ \E c \in Commands :
          run = [p \in Procs |->
                   [stage |-> "ready", req |-> c[p], attempt |-> 0, polls |-> 1, open |-> 0,
                    executed |-> 0, answer |-> NoAnswer, seen |-> <<>>, state |-> "pending",
                    ok |-> FALSE, published |-> FALSE]]

-----------------------------------------------------------------------------
InProgress(p) == run[p].stage \in Remote \cup Local

Saves(p) == run[p].req.save # "no"

Goto(p, stage) == run' = [run EXCEPT ![p].stage = stage]

(* The response is closed, and with it its deadline is cancelled. *)
Closed(p, stage) == run' = [run EXCEPT ![p].stage = stage, ![p].open = 0]

(* The metadata of the operation says whether it may be sent again. *)
RetriesAlways(p) == MaxRetries        \* mutant: retries every operation
Retries(p) == IF run[p].req.retryable THEN MaxRetries ELSE 0

(* validateTransportOutput and WaiterApplies, before anything is sent: a   *)
(* waiter polls only what may be sent again, and never a command that      *)
(* saves its output.                                                       *)
Applicable(r) == r.waits => r.retryable /\ r.save = "no" /\ ~r.binary

Launch(p) ==
    /\ run[p].stage = "ready"
    /\ Goto(p, IF Applicable(run[p].req) THEN "send" ELSE "failed")
    /\ UNCHANGED <<target, temp>>

-----------------------------------------------------------------------------
(* Do.                                                                     *)

Send(p) ==
    /\ run[p].stage = "send"
    /\ run' = [run EXCEPT ![p].stage = "sent", ![p].attempt = @ + 1, ![p].answer = NoAnswer]
    /\ UNCHANGED <<target, temp>>

(* The request cannot be built or signed, or debug output be written. *)
SendFails(p) ==
    /\ run[p].stage = "send"
    /\ Goto(p, "failed")
    /\ UNCHANGED <<target, temp>>

(* The server gets the request, executes it or not, and answers. *)
Serve(p) ==
    /\ run[p].stage = "sent" /\ run[p].answer = NoAnswer
    /\ \/ \E status \in {"accepted", "retryable", "refused"},
             rows \in IF run[p].req.waits THEN Payloads ELSE {<<>>} :
             run' = [run EXCEPT ![p].executed = @ + 1,
                                ![p].answer = [status |-> status, rows |-> rows]]
       \/ \E status \in {"retryable", "refused"} :
             run' = [run EXCEPT ![p].answer = [status |-> status, rows |-> <<>>]]
    /\ UNCHANGED <<target, temp>>

(* Another attempt if one is left, else failure. *)
Again(p) == IF run[p].attempt <= Retries(p) THEN "send" ELSE "failed"

(* RoundTrip fails, whether or not the server has executed the request: a  *)
(* transport error, or the deadline of this attempt.                       *)
RoundTripFails(p) ==
    /\ run[p].stage = "sent"
    /\ Goto(p, Again(p)) \/ Goto(p, "failed")
    /\ UNCHANGED <<target, temp>>

(* RoundTrip returns: the response is open until it is closed.  A binary   *)
(* body that goes to a file is read only when the file has been created.   *)
Receive(p) ==
    /\ run[p].stage = "sent" /\ run[p].answer # NoAnswer
    /\ run' = [run EXCEPT ![p].open = @ + 1,
                          ![p].stage = IF run[p].answer.status # "accepted" THEN "refused"
                                       ELSE IF run[p].req.binary /\ Saves(p) THEN "stat"
                                       ELSE "read"]
    /\ UNCHANGED <<target, temp>>

RefusedUnclosed(p) ==                 \* mutant: retries without closing the response
    /\ run[p].stage = "refused"
    /\ \/ run[p].answer.status = "retryable" /\ Goto(p, Again(p))
       \/ Closed(p, "failed")
    /\ UNCHANGED <<target, temp>>
(* The text of a status that is not accepted is read and the response      *)
(* closed; only then may the next attempt begin.                           *)
Refused(p) ==
    /\ run[p].stage = "refused"
    /\ \/ run[p].answer.status = "retryable" /\ Closed(p, Again(p))
       \/ Closed(p, "failed")
    /\ UNCHANGED <<target, temp>>

(* DecodeHTTPResponse, or a binary body copied to the standard output: a   *)
(* whole body that says the operation succeeded.                           *)
Read(p) ==
    /\ run[p].stage = "read"
    /\ IF run[p].req.waits
       THEN run' = [run EXCEPT ![p].stage = "evaluate", ![p].open = 0,
                               ![p].seen = Append(@, run[p].answer.rows)]
       ELSE IF Saves(p) THEN Closed(p, "stat")
       ELSE run' = [run EXCEPT ![p].stage = "release", ![p].open = 0, ![p].ok = TRUE]
    /\ UNCHANGED <<target, temp>>

(* The body stops, is not of the declared form, or reports an error; what  *)
(* has been read is never asked for again.                                 *)
ReadFails(p) ==
    /\ run[p].stage = "read"
    /\ Closed(p, "release")
    /\ UNCHANGED <<target, temp>>

(* The deadline of an attempt covers the reading of the body as well. *)
ExpiresBeforeBody(p) ==               \* mutant: cancels the deadline with the headers
    run[p].req.deadline /\ run[p].stage = "sent"
Expires(p) ==
    run[p].req.deadline /\ (run[p].stage \in Remote \/ (run[p].stage = "copy" /\ run[p].open = 1))

Expire(p) ==
    /\ Expires(p)
    /\ IF run[p].stage = "sent" THEN Goto(p, Again(p))
       ELSE IF run[p].stage = "copy" THEN Closed(p, "cleanup")
       ELSE Closed(p, "release")
    /\ UNCHANGED <<target, temp>>

-----------------------------------------------------------------------------
(* renderWaiter.                                                           *)

(* waiter.Evaluate: no row is a resource that is not there yet; two rows   *)
(* of one identity are an error, as is any payload it cannot read.         *)
StateOf(rows) ==
    IF rows = <<>> THEN "pending"
    ELSE IF rows[1] \in SuccessValues THEN "success"
    ELSE IF rows[1] \in FailureValues THEN "failure" ELSE "pending"

Ambiguous(rows) == Len(rows) > 1

EvaluateLast(p) ==                    \* mutant: does not look at the last answer
    LET rows == run[p].answer.rows IN
    /\ run[p].stage = "evaluate"
    /\ IF run[p].polls = MaxPolls
       THEN run' = [run EXCEPT ![p].stage = "release", ![p].ok = TRUE, ![p].state = "timeout"]
       ELSE IF Ambiguous(rows) THEN Goto(p, "failed")
       ELSE IF StateOf(rows) # "pending"
       THEN run' = [run EXCEPT ![p].stage = "release", ![p].ok = TRUE, ![p].state = StateOf(rows)]
       ELSE run' = [run EXCEPT ![p].stage = "send", ![p].attempt = 0, ![p].polls = @ + 1]
    /\ UNCHANGED <<target, temp>>

(* The state ends the command, or it sleeps and loads the response again,  *)
(* with all the attempts of a first one.                                   *)
Evaluate(p) ==
    LET rows == run[p].answer.rows IN
    /\ run[p].stage = "evaluate"
    /\ IF Ambiguous(rows) THEN Goto(p, "failed")
       ELSE IF StateOf(rows) # "pending" \/ run[p].polls = MaxPolls
       THEN run' = [run EXCEPT ![p].stage = "release", ![p].ok = TRUE,
                       ![p].state = IF StateOf(rows) = "pending" THEN "timeout" ELSE StateOf(rows)]
       ELSE run' = [run EXCEPT ![p].stage = "send", ![p].attempt = 0, ![p].polls = @ + 1]
    /\ UNCHANGED <<target, temp>>

-----------------------------------------------------------------------------
(* WriteFile.                                                              *)

(* Lstat: a destination that is there may only be overwritten, and only if *)
(* it is a regular file.                                                   *)
Writable(p) == \/ target = Absent
               \/ run[p].req.save = "overwrite" /\ target # Special

StatTarget(p) ==
    /\ run[p].stage = "stat"
    /\ Goto(p, IF Writable(p) THEN "create" ELSE "release")
    /\ UNCHANGED <<target, temp>>

CreateTemp(p) ==
    /\ run[p].stage = "create"
    /\ temp' = [temp EXCEPT ![p] = "partial"]
    /\ Goto(p, "copy")
    /\ UNCHANGED target

(* The body is written, synced and the temporary file closed.  A binary    *)
(* response is closed when it has been copied.                             *)
Copy(p) ==
    /\ run[p].stage = "copy"
    /\ temp' = [temp EXCEPT ![p] = "whole"]
    /\ Closed(p, IF run[p].req.save = "overwrite" THEN "check" ELSE "publish")
    /\ UNCHANGED target

CopyFailsQuietly(p) ==                \* mutant: drops the error of Sync or Close
    /\ run[p].stage = "copy"
    /\ Closed(p, "publish")
    /\ UNCHANGED <<target, temp>>
(* The write, Sync or Close fails, or the body stops. *)
CopyFails(p) ==
    /\ run[p].stage = "copy"
    /\ Closed(p, "cleanup")
    /\ UNCHANGED <<target, temp>>

(* The second Lstat, before a rename. *)
Recheck(p) ==
    /\ run[p].stage = "check"
    /\ Goto(p, IF target = Special THEN "cleanup" ELSE "publish")
    /\ UNCHANGED <<target, temp>>

(* Rename replaces what is there, link does not. *)
Publish(p) ==
    /\ run[p].stage = "publish"
    /\ run[p].req.save = "overwrite" \/ target = Absent
    /\ target' = <<p, temp[p]>>
    /\ run' = [run EXCEPT ![p].stage = "cleanup", ![p].ok = TRUE, ![p].published = TRUE]
    /\ UNCHANGED temp

(* A call of WriteFile fails before the file has been published. *)
WriteFileFails(p) ==
    /\ run[p].stage \in {"stat", "create", "check", "publish"}
    /\ Goto(p, IF run[p].stage \in {"stat", "create"} THEN "release" ELSE "cleanup")
    /\ UNCHANGED <<target, temp>>

(* Remove(temporary), deferred; its failure is ignored. *)
Cleanup(p) ==
    /\ run[p].stage = "cleanup"
    /\ temp' \in {temp, [temp EXCEPT ![p] = "none"]}
    /\ Goto(p, "release")
    /\ UNCHANGED target

(* runTransportCommand returns: response.Close, deferred, has an effect    *)
(* only if nothing has closed the response before.  Printing the result    *)
(* may fail.                                                               *)
Release(p) ==
    /\ run[p].stage = "release"
    /\ \/ run[p].ok /\ Closed(p, "ok")
       \/ ~run[p].published /\ Closed(p, "failed")
    /\ UNCHANGED <<target, temp>>

Kill(p) ==
    /\ InProgress(p)
    /\ Goto(p, "killed")
    /\ UNCHANGED <<target, temp>>

(* Another program changes the destination. *)
OtherProgram ==
    /\ \E f \in Foreign : target' = f
    /\ UNCHANGED <<temp, run>>

-----------------------------------------------------------------------------
(* What p does without waiting for the server. *)
Proceed(p) ==
    \/ Send(p)
    \/ SendFails(p)
    \/ Receive(p)
    \/ Evaluate(p)
    \/ StatTarget(p)
    \/ CreateTemp(p)
    \/ run[p].open = 0 /\ Copy(p)
    \/ CopyFails(p)
    \/ Recheck(p)
    \/ Publish(p)
    \/ WriteFileFails(p)
    \/ Cleanup(p)
    \/ Release(p)

Respond(p) ==
    \/ Serve(p)
    \/ RoundTripFails(p)
    \/ Refused(p)
    \/ Read(p)
    \/ ReadFails(p)
    \/ run[p].open = 1 /\ Copy(p)

Next == \/ OtherProgram
        \/ \E p \in Procs : Launch(p) \/ Proceed(p) \/ Respond(p) \/ Expire(p) \/ Kill(p)

Spec == Init /\ [][Next]_vars

(* Calls of the operating system return and timers fire; nothing is        *)
(* assumed of the server.                                                  *)
FairSpec == Spec /\ \A p \in Procs : WF_vars(Proceed(p)) /\ WF_vars(Expire(p))

-----------------------------------------------------------------------------
(* No attempt, poll or early error leaves a response open behind it: there *)
(* is none when a request is sent and none when the command ends.          *)
NoStrayResponse ==
    \A p \in Procs :
        run[p].stage \in {"send", "sent", "evaluate", "ok", "failed"} => run[p].open = 0

(* "Only operations marked retryable in metadata get automatic retries"    *)
(* (command.go): whatever is lost or late, the server executes any other   *)
(* operation at most once, and one that succeeded at least once.           *)
ExecutedOnce ==
    \A p \in Procs :
        /\ ~run[p].req.retryable => run[p].executed <= 1
        /\ run[p].stage = "ok" => run[p].executed >= 1

(* However commands and other programs race for the destination, what a    *)
(* command publishes there is a whole body, and without --overwrite it     *)
(* takes the place of nothing.                                             *)
PublishedWhole ==
    [][\A p \in Procs :
         run'[p].published /\ ~run[p].published =>
            /\ target' = <<p, "whole">>
            /\ run[p].req.save # "overwrite" => target = Absent]_vars

(* A success is true: the file was published, or the state reported is     *)
(* that of the last answer, after answers that were all pending, and a     *)
(* timeout is reported only after MaxPolls of them.                        *)
SuccessIsTrue ==
    \A p \in Procs : run[p].stage = "ok" =>
        LET seen == run[p].seen IN
        /\ Saves(p) => run[p].published
        /\ run[p].req.waits =>
              /\ \A i \in 1..Len(seen) : ~Ambiguous(seen[i])
              /\ \A i \in 1..(Len(seen) - 1) : StateOf(seen[i]) = "pending"
              /\ IF run[p].state = "timeout"
                 THEN Len(seen) = MaxPolls /\ StateOf(seen[MaxPolls]) = "pending"
                 ELSE run[p].state = StateOf(seen[Len(seen)])

(* A command with a timeout ends even if the server never answers, or      *)
(* stops in the middle of a body.                                          *)
EndsByDeadline ==
    \A p \in Procs : InProgress(p) /\ run[p].req.deadline ~> ~InProgress(p)
=============================================================================
