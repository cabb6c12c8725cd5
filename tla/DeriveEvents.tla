---------------------------- MODULE DeriveEvents ----------------------------
(***************************************************************************)
(* What the stream producers and the normalizer compute from one record of *)
(* a table's change stream: the type of the event, the entity it is keyed  *)
(* by, and its ISA-95 class.                                               *)
(*                                                                         *)
(* An image is a record with its key prefix (pk), its sort key's prefix    *)
(* (sk), the fields the producers look at, "" for a field that is absent,  *)
(* and ids, the identifying fields it has.  NoImage is a missing image: an *)
(* insertion has no old one, a deletion no new one.                        *)
(***************************************************************************)
EXTENDS Integers, Sequences

NoImage == [pk |-> "", sk |-> "", status |-> "", disposition |-> "",
            confidence |-> 0, ids |-> <<>>]
NoEventType == ""

IsNew(old) == old.pk = ""
Becomes(new, old, s) == new.status = s /\ old.status # s
Joined(prefix, status) == prefix \o "_" \o status
Or(status, default) == IF status = "" THEN default ELSE status

\* The first of the fields in order that the image has, else its key.
FirstId(order, image) ==
    LET has == {i \in DOMAIN order : order[i] \in DOMAIN image.ids}
    IN  IF has = {} THEN image.pk
        ELSE image.ids[order[CHOOSE i \in has : \A j \in has : i <= j]]

-----------------------------------------------------------------------------
(* The manufacturing system *)

MesNewEventType(new) ==
    LET order == "workOrderId" \in DOMAIN new.ids IN
    CASE order /\ new.status = "RELEASED" -> "WORK_ORDER_RELEASED"
      [] order /\ new.status = "STARTED" -> "WORK_ORDER_STARTED"
      [] order /\ new.status = "COMPLETED" -> "WORK_ORDER_COMPLETED"
      [] order /\ new.status = "HOLD" -> "HOLD_PLACED"
      [] new.sk = "OP" /\ new.status = "COMPLETE" -> "OPERATION_COMPLETED"
      [] OTHER -> NoEventType

WorkOrderChange(new, old) ==
    CASE Becomes(new, old, "COMPLETED") -> "WORK_ORDER_COMPLETED"
      [] Becomes(new, old, "HOLD") -> "HOLD_PLACED"
      [] new.status # "HOLD" /\ old.status = "HOLD" /\ ~Becomes(new, old, "COMPLETED") ->
            "HOLD_RELEASED"
      [] new.status = "STARTED" /\ old.status = "RELEASED" -> "WORK_ORDER_STARTED"
      [] OTHER -> NoEventType

\* (mutant) a hold is released only when the order is started again.
WorkOrderChangeToStarted(new, old) ==
    CASE Becomes(new, old, "COMPLETED") -> "WORK_ORDER_COMPLETED"
      [] Becomes(new, old, "HOLD") -> "HOLD_PLACED"
      [] new.status = "STARTED" /\ old.status = "HOLD" -> "HOLD_RELEASED"
      [] new.status = "STARTED" /\ old.status = "RELEASED" -> "WORK_ORDER_STARTED"
      [] OTHER -> NoEventType

MesChange(new, old) == WorkOrderChange(new, old)

MesEventType(new, old) ==
    IF IsNew(old) THEN MesNewEventType(new)
    ELSE LET change == IF "workOrderId" \in DOMAIN new.ids
                       THEN MesChange(new, old) ELSE NoEventType
         IN  IF change = NoEventType /\ new.sk = "OP" /\ Becomes(new, old, "COMPLETE")
             THEN "OPERATION_COMPLETED" ELSE change

-----------------------------------------------------------------------------
(* The quality system *)

QmsNewEventType(new) ==
    LET has == DOMAIN new.ids IN
    CASE "ncrId" \in has /\ new.status = "OPEN" -> "NON_CONFORMANCE_RAISED"
      [] "capaId" \in has /\ new.status = "OPEN" -> "CAPA_OPENED"
      [] "mrbId" \in has /\ new.status = "OPEN" -> "MRB_CONVENED"
      [] "faiId" \in has -> "FAI_SUBMITTED"
      [] "inspectionId" \in has /\ new.disposition # "" -> "INSPECTION_COMPLETED"
      [] OTHER -> NoEventType

\* At most one of the ids is present, so the order of the branches only
\* matters within a record kind.
QmsChange(new, old) ==
    LET has == DOMAIN new.ids
        Disposed == new.disposition # "" /\ old.disposition = "" IN
    CASE "ncrId" \in has /\ Becomes(new, old, "CLOSED") -> "NCR_CLOSED"
      [] "ncrId" \in has /\ Disposed /\ ~Becomes(new, old, "CLOSED") -> "NCR_DISPOSITIONED"
      [] "capaId" \in has /\ Becomes(new, old, "APPROVED") -> "CAPA_APPROVED"
      [] "capaId" \in has /\ Becomes(new, old, "CLOSED") -> "CAPA_CLOSED"
      [] "faiId" \in has /\ Becomes(new, old, "APPROVED") -> "FAI_APPROVED"
      [] "mrbId" \in has /\ Disposed -> "MRB_DISPOSITIONED"
      [] OTHER -> NoEventType

QmsEventType(new, old) == IF IsNew(old) THEN QmsNewEventType(new) ELSE QmsChange(new, old)

-----------------------------------------------------------------------------
(* Every other system *)

InvoiceType(status) ==
    CASE status \in {"MATCHED", "BLOCKED"} -> Joined("INVOICE", status)
      [] OTHER -> Joined("SUPPLIER_INVOICE", Or(status, "RECEIVED"))

KitType(status) ==
    CASE status = "SHORT" -> "KIT_SHORTAGE_DETECTED"
      [] OTHER -> Joined("KIT", Or(status, "CREATED"))

SerialType(new) ==
    CASE new.sk = "CERT" -> "CERT_LINKED"
      [] new.sk = "TEST" -> "TEST_RECORDED"
      [] new.sk = "OP" /\ new.status = "SIGNED" -> "OPERATION_SIGNED"
      [] OTHER -> NoEventType

ProgramType(new) ==
    CASE new.sk = "MILESTONE" ->
            IF new.confidence < 70 THEN "MILESTONE_AT_RISK" ELSE "MILESTONE_UPDATED"
      [] new.sk = "EV" -> "EV_UPDATED"
      [] OTHER -> NoEventType

DefaultType(new, old) ==
    CASE new.status # "" /\ (IsNew(old) \/ (old.status # "" /\ new.status # old.status)) ->
            Joined(new.pk, new.status)
      [] new.status = "" /\ IsNew(old) -> Joined(new.pk, "CREATED")
      [] OTHER -> NoEventType

GenericEventType(new, old) ==
    CASE new.pk = "RECEIPT" -> "MATERIAL_RECEIVED"
      [] new.pk = "PR" -> Joined("PURCHASE_REQUISITION", Or(new.status, "CREATED"))
      [] new.pk = "INV" -> InvoiceType(new.status)
      [] new.pk = "ECR" -> Joined("CHANGE_REQUEST", Or(new.status, "SUBMITTED"))
      [] new.pk = "ECN" -> "CHANGE_NOTICE_ISSUED"
      [] new.pk = "KIT" -> KitType(new.status)
      [] new.pk = "SN" -> SerialType(new)
      [] new.pk = "PROGRAM" -> ProgramType(new)
      [] new.pk = "SUPPLIER" -> "SUPPLIER_SCORE_UPDATED"
      [] OTHER -> DefaultType(new, old)

-----------------------------------------------------------------------------

GenericIds == <<"poNumber", "receiptId", "kitId", "requisitionId", "invoiceId", "ecrId",
    "ecnId", "bomId", "supplierId", "partNumber", "drawingNumber", "ecoId", "serialNumber",
    "programId", "anomalyId", "workOrderId">>
QmsIds == <<"ncrId", "capaId", "mrbId", "faiId", "inspectionId">>

EventType(domain, new, old) ==
    IF new = NoImage THEN NoEventType ELSE
    CASE domain = "MES" -> MesEventType(new, old)
      [] domain = "QMS" -> QmsEventType(new, old)
      [] OTHER -> GenericEventType(new, old)

EntityId(domain, new) ==
    CASE domain = "MES" -> FirstId(<<"workOrderId">>, new)
      [] domain = "QMS" -> FirstId(QmsIds, new)
      [] OTHER -> FirstId(GenericIds, new)

\* The normalizer's class of a payload, by the prefix of its key.
Classify(domain, pk) ==
    CASE domain = "PLM" /\ pk = "PART" -> "MaterialDefinition"
      [] domain = "PLM" /\ pk = "DRAWING" -> "ProductDefinitionDocument"
      [] domain = "PLM" /\ pk = "ECR" -> "ChangeRequest"
      [] domain = "PLM" /\ pk = "ECO" -> "EngineeringChangeOrder"
      [] domain = "PLM" /\ pk = "ECN" -> "ChangeNotice"
      [] domain = "PLM" /\ pk = "BOM" -> "BillOfMaterials"
      [] domain = "ERP" /\ pk = "PR" -> "PurchaseRequisition"
      [] domain = "ERP" /\ pk = "PO" -> "PurchaseOrder"
      [] domain = "ERP" /\ pk = "RECEIPT" -> "GoodsReceipt"
      [] domain = "ERP" /\ pk = "INV" -> "SupplierInvoice"
      [] OTHER -> "extension"
=============================================================================
