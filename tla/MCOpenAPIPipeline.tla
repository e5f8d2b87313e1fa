------------------------- MODULE MCOpenAPIPipeline -------------------------
(* Two products whose catalogs come to recommend each other's APIs, lose an *)
(* API that is recommended, come to need newer cores, and may come back.    *)
EXTENDS OpenAPIPipeline, TLC

Catalog(revision, apis, recs, retired, features) ==
    [revision |-> revision, apis |-> apis, recs |-> recs, retired |-> retired,
     features |-> features, evidence |-> revision]

None == <<>>

MCHistory ==
    [ ecs |-> << Catalog(1, {1, 2}, None, {}, {}),
                 Catalog(2, {1}, 1 :> [api |-> 3, command |-> "ebs"], {}, {"waiters"}) >>,
      ebs |-> << Catalog(1, {3}, None, {}, {"transport"}),
                 Catalog(2, {3}, 3 :> [api |-> 1, command |-> "ecs"], {}, {"independent-bindings"}),
                 Catalog(3, {3, 4}, 4 :> [api |-> 3, command |-> "ebs"], {3}, {"typed-body"}) >> ]

MCMaxVersion == [ecs |-> 2, ebs |-> 1]
=============================================================================
