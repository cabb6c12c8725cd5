--------------------------- MODULE MCFastConsumer ---------------------------
(***************************************************************************)
(* Small instances of FastConsumer.  The handlers' steps are those that    *)
(* EventPlans computes for a few concrete events.                          *)
(***************************************************************************)
EXTENDS FastConsumer, TLC

P == INSTANCE EventPlans

Event(id, domain, type, entity, ids) ==
    id :> [id |-> id, domain |-> domain, type |-> type, entity |-> entity, ids |-> ids]

\* Events of one work order, with one that the handler ignores; a kit that is
\* short and then staged, whose work order is left to a stub; and two scores
\* of a supplier, written by a bare upsert_node.
MCEvent ==
    Event("started", "mes", "WORK_ORDER_STARTED", "WO1", <<>>)
      @@ Event("hold", "mes", "HOLD_PLACED", "WO1", <<>>)
      @@ Event("paused", "mes", "WORK_ORDER_PAUSED", "WO2", <<>>)
      @@ Event("short", "wms", "KIT_SHORT", "K1", [workOrderId |-> "WO1"])
      @@ Event("staged", "wms", "KIT_STAGED", "K1", [workOrderId |-> "WO1"])
      @@ Event("score1", "srm", "SUPPLIER_SCORE_UPDATED", "S1", <<>>)
      @@ Event("score2", "srm", "SUPPLIER_OTD_DEGRADED", "S1", <<>>)

MCSteps == [e \in Events |-> P!Plan(MCEvent[e])]
MCNodes == UNION {{s.src, s.tgt} : s \in UNION {P!ToSet(MCSteps[e]) : e \in Events}}

\* Events of one entity share a partition.
MCPartitionOf == [e \in Events |-> IF e = "paused" THEN "p2" ELSE "p1"]

WorkOrderSource == <<"started", "hold", "paused">>
\* The first record is sent twice under one id.
KitSource == <<"short", "short", "staged">>
StartSource == <<"started">>
ScoreSource == <<"paused", "score1">>

Twins == Permutations(Instances)
=============================================================================
