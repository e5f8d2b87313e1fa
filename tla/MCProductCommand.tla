------------------------- MODULE MCProductCommand -------------------------
(* Instance of ProductCommand for TLC: one command alone (the other is     *)
(* refused at once), or two that save to the same destination.             *)
EXTENDS ProductCommand

CONSTANTS p1, p2

Request(retryable, waits, binary, deadline, save) ==
    [retryable |-> retryable, waits |-> waits, binary |-> binary,
     deadline |-> deadline, save |-> save]

Refusable == Request(FALSE, TRUE, FALSE, FALSE, "no")     \* a waiter on a mutation

Alone == { Request(TRUE, TRUE, FALSE, TRUE, "no"),        \* show ... --wait
           Request(FALSE, FALSE, FALSE, TRUE, "no"),      \* a mutation
           Request(TRUE, FALSE, TRUE, TRUE, "new") }      \* a download, retried

Savers == { Request(FALSE, FALSE, binary, TRUE, save) :
               binary \in BOOLEAN, save \in {"new", "overwrite"} }

Pair(r, s) == [p \in Procs |-> IF p = p1 THEN r ELSE s]

MCCommands == {Pair(r, Refusable) : r \in Alone} \cup {Pair(r, s) : r \in Savers, s \in Savers}

MCPayloads == {<<>>, <<"building">>, <<"running">>, <<"broken">>, <<"running", "running">>}
=============================================================================
