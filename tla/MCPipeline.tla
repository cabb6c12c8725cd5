----------------------------- MODULE MCPipeline -----------------------------
(***************************************************************************)
(* A work order, a purchase order and a non-conformance, each in a table   *)
(* and a shard of its own.                                                 *)
(***************************************************************************)
EXTENDS Pipeline

Image(pk, status, field) ==
    [NoImage EXCEPT !.pk = pk, !.status = status, !.ids = [f \in {field} |-> pk]]

MCDomain == [r \in Records |-> CASE r = "wo" -> "MES" [] r = "po" -> "ERP" [] r = "ncr" -> "QMS"]
MCImages == [r \in Records |->
    CASE r = "wo" -> {Image("WO", s, "workOrderId") : s \in {"STARTED", "HOLD", "RELEASED"}}
      [] r = "po" -> {Image("PO", s, "poNumber") : s \in {"ISSUED", "CONFIRMED"}}
      [] r = "ncr" -> {Image("NCR", "OPEN", "ncrId"),
                       [Image("NCR", "OPEN", "ncrId") EXCEPT !.disposition = "REWORK"]}]
MCShard == [r \in Records |-> r]
MCPartitionOf == [k \in {"WO", "PO", "NCR", "id1", "id2"} |-> IF k \in {"PO", "id1"} THEN 1 ELSE 2]
=============================================================================
