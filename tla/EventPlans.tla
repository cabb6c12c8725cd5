------------------------------ MODULE EventPlans ------------------------------
(***************************************************************************)
(* The domain handlers of the fast consumer as functions: Plan(e) is the   *)
(* list of store calls that the handler of e's topic makes once it has     *)
(* found e unprocessed, in order.                                          *)
(*                                                                         *)
(* An event is [id, domain, type, entity, ids]: ids maps the payload       *)
(* fields that are present (and not empty) to their values.  Fields that   *)
(* only become vertex properties are left out.  `object` stands for the    *)
(* field with the object's own id (poNumber, ecoId...), `material` and     *)
(* `lot` for the two spellings of those ids, and `cell` for a cell that    *)
(* CELL_MACHINE and CELL_WORKCENTER know: it names its machine as well.    *)
(***************************************************************************)
EXTENDS GraphWriter

Has(e, f) == f \in DOMAIN e.ids
IdOr(e, f, default) == IF Has(e, f) THEN e.ids[f] ELSE default
ObjectId(e) == IdOr(e, "object", e.entity)
When(cond, seq) == IF cond THEN seq ELSE <<>>

\* A reference to another object: the vertex it names, when the field is
\* there, and the edge that links it.
RefNode(e, f, label) == When(Has(e, f), <<NodeWrite(label, e.ids[f], FALSE)>>)
RefEdge(e, f, label, src, rel) ==
    When(Has(e, f), <<EdgeWrite(src, rel, <<label, e.ids[f]>>)>>)

\* The edge of a cell's machine to its work center.
LocatedIn(e, machine, cell) ==
    When(Has(e, cell), <<EdgeWrite(<<"Equipment", machine>>, "locatedIn",
                                   <<"WorkCenter", e.ids[cell]>>)>>)

-----------------------------------------------------------------------------
(* MES *)

MesWo(e) == IdOr(e, "workOrderId", e.entity)
HasSegment(e) == Has(e, "partNumber") /\ Has(e, "operationNumber")
\* The recipe step of the part: SEG-<part>-<operation>, named by the operation.
Segment(e) == <<"ProcessSegment", e.ids["operationNumber"]>>

WoReleased(e) ==
    LET order == <<"JobOrder", MesWo(e)>>
    IN  FlushSteps(
          <<NodeWrite("JobOrder", MesWo(e), TRUE)>>
            \o RefNode(e, "assignedOperator", "Person")
            \o RefNode(e, "partNumber", "MaterialDefinition")
            \o RefNode(e, "serialNumber", "MaterialSublot"),
          RefEdge(e, "assignedOperator", "Person", order, "assignedTo")
            \o RefEdge(e, "partNumber", "MaterialDefinition", order, "producesMaterial")
            \o RefEdge(e, "serialNumber", "MaterialSublot", order, "produces")
            \o When(HasSegment(e), <<EdgeWrite(order, "requestsSegment", Segment(e))>>))

\* What a JobResponse links to, at the start and at the completion.
ResponseNodes(e) ==
    RefNode(e, "partNumber", "MaterialDefinition")
      \o RefNode(e, "serialNumber", "MaterialSublot")
      \o RefNode(e, "cell", "Equipment")
ResponseEdges(e, resp) ==
    RefEdge(e, "partNumber", "MaterialDefinition", resp, "producesMaterial")
      \o RefEdge(e, "serialNumber", "MaterialSublot", resp, "produces")
      \o RefEdge(e, "cell", "Equipment", resp, "equipmentActual")
      \o When(Has(e, "cell"), LocatedIn(e, e.ids["cell"], "cell"))

WoStarted(e) ==
    LET resp  == <<"JobResponse", MesWo(e)>>
        order == <<"JobOrder", MesWo(e)>>
    IN  FlushSteps(
          <<NodeWrite("JobResponse", MesWo(e), TRUE), NodeWrite("JobOrder", MesWo(e), FALSE)>>
            \o RefNode(e, "assignedOperator", "Person") \o ResponseNodes(e),
          <<EdgeWrite(order, "requestsExecution", resp)>>
            \o RefEdge(e, "assignedOperator", "Person", resp, "assignedTo")
            \o ResponseEdges(e, resp))

OpCompleted(e) ==
    LET resp == <<"JobResponse", MesWo(e)>>
    IN  FlushSteps(
          <<NodeWrite("JobResponse", MesWo(e), TRUE)>> \o ResponseNodes(e),
          ResponseEdges(e, resp)
            \o When(HasSegment(e), <<EdgeWrite(resp, "executedSegment", Segment(e))>>))

\* Also what the handler does for HOLD_RELEASED.
HoldPlaced(e) == UpdateNodeStep("JobResponse", MesWo(e))

MesPlan(e) ==
    CASE e.type = "WORK_ORDER_RELEASED" -> WoReleased(e)
      [] e.type \in {"WORK_ORDER_STARTED", "WO_STARTED"} -> WoStarted(e)
      [] e.type \in {"OPERATION_COMPLETED", "WORK_ORDER_COMPLETED", "WO_COMPLETED"} -> OpCompleted(e)
      [] e.type \in {"HOLD_PLACED", "HOLD_RELEASED", "WO_HOLD"} -> HoldPlaced(e)
      [] OTHER -> <<>>
-----------------------------------------------------------------------------
(* QMS: only NON_CONFORMANCE_RAISED reaches the graph. *)

NcrRaised(e) ==
    LET ncr == <<"OperationsPerformance", e.entity>>
        sn  == <<"MaterialSublot", IdOr(e, "serialNumber", "SN-0047")>>
    IN  FlushSteps(
          <<NodeWrite("OperationsPerformance", e.entity, TRUE),
            NodeWrite("MaterialSublot", sn[2], FALSE)>>
            \o RefNode(e, "partNumber", "MaterialDefinition")
            \o RefNode(e, "supplierId", "Supplier")
            \o RefNode(e, "lotNumber", "MaterialLot"),
          <<EdgeWrite(ncr, "appliesTo", sn)>>
            \o RefEdge(e, "partNumber", "MaterialDefinition", ncr, "affectsMaterial")
            \o RefEdge(e, "supplierId", "Supplier", ncr, "attributedTo")
            \o RefEdge(e, "lotNumber", "MaterialLot", sn, "madeFrom")
            \o When(Has(e, "lotNumber"),
                 LET lot == <<"MaterialLot", e.ids["lotNumber"]>>
                 IN  RefEdge(e, "supplierId", "Supplier", lot, "suppliedBy")
                       \o RefEdge(e, "partNumber", "MaterialDefinition", lot, "definesMaterial")))

QmsPlan(e) == IF e.type = "NON_CONFORMANCE_RAISED" THEN NcrRaised(e) ELSE <<>>

-----------------------------------------------------------------------------
(* PLM: a part is written with a bare upsert_node, the rest in a batch of  *)
(* the object and what it refers to.                                       *)

PlmLinked(e, label, nodes, edges) ==
    FlushSteps(<<NodeWrite(label, ObjectId(e), TRUE)>> \o nodes, edges)

PartEvent(e) == UpsertNodeStep("MaterialDefinition", IdOr(e, "partNumber", e.entity))

\* hasDocument and changedBy point from the part to the object.
FromPart(e, label, rel) ==
    When(Has(e, "partNumber"),
         <<EdgeWrite(<<"MaterialDefinition", e.ids["partNumber"]>>, rel, <<label, ObjectId(e)>>)>>)

DrawingEvent(e) ==
    PlmLinked(e, "ProductDefinitionDocument",
              RefNode(e, "partNumber", "MaterialDefinition"),
              FromPart(e, "ProductDefinitionDocument", "hasDocument"))
ChangeRequestEvent(e) ==
    PlmLinked(e, "ChangeRequest", RefNode(e, "partNumber", "MaterialDefinition"),
              RefEdge(e, "partNumber", "MaterialDefinition",
                      <<"ChangeRequest", ObjectId(e)>>, "requestsChangeTo"))
EcoEvent(e) ==
    LET eco == <<"EngineeringChangeOrder", ObjectId(e)>>
    IN  PlmLinked(e, "EngineeringChangeOrder",
                  RefNode(e, "partNumber", "MaterialDefinition")
                    \o RefNode(e, "ecrId", "ChangeRequest"),
                  FromPart(e, "EngineeringChangeOrder", "changedBy")
                    \o RefEdge(e, "ecrId", "ChangeRequest", eco, "originatesFrom"))
ChangeNoticeEvent(e) ==
    LET ecn == <<"ChangeNotice", ObjectId(e)>>
    IN  PlmLinked(e, "ChangeNotice",
                  RefNode(e, "ecoId", "EngineeringChangeOrder")
                    \o RefNode(e, "partNumber", "MaterialDefinition"),
                  RefEdge(e, "ecoId", "EngineeringChangeOrder", ecn, "releases")
                    \o RefEdge(e, "partNumber", "MaterialDefinition", ecn, "effectiveOn"))
\* The changed components are represented by one.
BomRevised(e) ==
    LET bom == <<"BillOfMaterials", ObjectId(e)>>
    IN  PlmLinked(e, "BillOfMaterials",
                  RefNode(e, "partNumber", "MaterialDefinition")
                    \o RefNode(e, "component", "MaterialDefinition"),
                  RefEdge(e, "partNumber", "MaterialDefinition", bom, "billOf")
                    \o RefEdge(e, "component", "MaterialDefinition", bom, "includesComponent"))

\* The handlers match prefixes: the types with that prefix.
PartTypes == {"PART_CREATED", "PART_RELEASED"}
DrawingTypes == {"DRAWING_CREATED", "DRAWING_RELEASED"}
EcoTypes == {"ECO_INITIATED", "ECO_APPROVED"}

PlmPlan(e) ==
    CASE e.type \in PartTypes -> PartEvent(e)
      [] e.type \in DrawingTypes -> DrawingEvent(e)
      [] e.type \in {"CHANGE_REQUEST_SUBMITTED", "CHANGE_REQUEST_EVALUATED"} -> ChangeRequestEvent(e)
      [] e.type \in EcoTypes -> EcoEvent(e)
      [] e.type = "CHANGE_NOTICE_ISSUED" -> ChangeNoticeEvent(e)
      [] e.type = "BOM_REVISED" -> BomRevised(e)
      [] OTHER -> <<>>

-----------------------------------------------------------------------------
(* ERP: procurement documents; `material` is the canonical material id.    *)

ErpLinked(e, label, supplierRel, materialRel) ==
    LET doc == <<label, ObjectId(e)>>
    IN  FlushSteps(
          <<NodeWrite(label, ObjectId(e), TRUE)>>
            \o When(supplierRel # NoRel, RefNode(e, "supplierId", "Supplier"))
            \o When(materialRel # NoRel, RefNode(e, "material", "MaterialDefinition")),
          When(supplierRel # NoRel, RefEdge(e, "supplierId", "Supplier", doc, supplierRel))
            \o When(materialRel # NoRel, RefEdge(e, "material", "MaterialDefinition", doc, materialRel)))

Requisition(e) == ErpLinked(e, "PurchaseRequisition", NoRel, "ordersMaterial")
PurchaseOrder(e) == ErpLinked(e, "PurchaseOrder", "orderedFrom", "ordersMaterial")
Invoice(e) == ErpLinked(e, "SupplierInvoice", "invoicedBy", NoRel)

\* Without a lot the receipt is dropped.
MaterialReceived(e) ==
    When(Has(e, "lot"),
      LET lot == <<"MaterialLot", e.ids["lot"]>>
      IN  FlushSteps(
            <<NodeWrite("GoodsReceipt", ObjectId(e), TRUE), NodeWrite("MaterialLot", lot[2], TRUE)>>
              \o RefNode(e, "supplierId", "Supplier")
              \o RefNode(e, "material", "MaterialDefinition"),
            <<EdgeWrite(<<"GoodsReceipt", ObjectId(e)>>, "receivedMaterial", lot)>>
              \o RefEdge(e, "supplierId", "Supplier", lot, "suppliedBy")
              \o RefEdge(e, "material", "MaterialDefinition", lot, "definesMaterial")))

ErpPlan(e) ==
    CASE e.type \in {"PURCHASE_REQUISITION_CREATED", "PURCHASE_REQUISITION_APPROVED"} -> Requisition(e)
      [] e.type \in {"PO_ISSUED", "PO_CONFIRMED"} -> PurchaseOrder(e)
      [] e.type \in {"MATERIAL_RECEIVED", "RECEIPT_CREATED"} -> MaterialReceived(e)
      [] e.type \in {"SUPPLIER_INVOICE_RECEIVED", "INVOICE_MATCHED", "INVOICE_BLOCKED"} -> Invoice(e)
      [] OTHER -> <<>>
-----------------------------------------------------------------------------
(* DHR: certificates, tests and operation signoffs, told apart by the      *)
(* fields the payload has when the type does not say.                      *)

\* A quality record of kind certificate or test: `person` signed it, `rel`
\* links it to the part, and `other` is the edge to what else it is about.
QualityRecord(e, id, person, rel, otherField, otherLabel, otherRel) ==
    LET rec == <<"OperationsPerformance", IdOr(e, id, e.entity)>>
    IN  FlushSteps(
          <<NodeWrite("OperationsPerformance", rec[2], TRUE)>>
            \o RefNode(e, "serialNumber", "MaterialSublot")
            \o RefNode(e, person, "Person")
            \o RefNode(e, "partNumber", "MaterialDefinition")
            \o RefNode(e, otherField, otherLabel),
          When(Has(e, "serialNumber"),
               <<EdgeWrite(<<"MaterialSublot", e.ids["serialNumber"]>>, "testsAppliedTo", rec)>>)
            \o RefEdge(e, person, "Person", rec, "signedBy")
            \o RefEdge(e, "partNumber", "MaterialDefinition", rec, rel)
            \o RefEdge(e, otherField, otherLabel, rec, otherRel))

CertLinked(e) ==
    QualityRecord(e, "certNumber", IF Has(e, "issuedBy") THEN "issuedBy" ELSE "signedBy",
                  "certifies", "lotNumber", "MaterialLot", "certifies")
TestRecorded(e) ==
    QualityRecord(e, "testId", "recordedBy", "testsAppliedTo", "workOrderId", "JobResponse", "executedDuring")

\* Without a serial number the signoff is dropped.
OpSigned(e) ==
    When(Has(e, "serialNumber"),
      LET sn == <<"MaterialSublot", e.ids["serialNumber"]>>
          worker == /\ Has(e, "completedBy")
                    /\ Has(e, "signedBy") => e.ids["completedBy"] # e.ids["signedBy"]
      IN  FlushSteps(
            <<NodeWrite("MaterialSublot", sn[2], TRUE)>>
              \o RefNode(e, "signedBy", "Person")
              \o When(worker, RefNode(e, "completedBy", "Person")),
            RefEdge(e, "signedBy", "Person", sn, "signedBy")
              \o When(worker, RefEdge(e, "completedBy", "Person", sn, "completedBy"))))

DhrPlan(e) ==
    IF e.type = "CERT_LINKED" \/ Has(e, "certNumber") \/ Has(e, "certType") THEN CertLinked(e)
    ELSE IF e.type = "TEST_RECORDED" \/ Has(e, "testId") \/ Has(e, "testType") THEN TestRecorded(e)
    ELSE When(\/ e.type = "OPERATION_SIGNED"
              \/ Has(e, "operationNumber") /\ Has(e, "status") /\ e.ids["status"] = "SIGNED",
              OpSigned(e))

-----------------------------------------------------------------------------
(* SRM, WMS, program, in-service and SCADA *)

\* The types with prefix SUPPLIER_.
SupplierTypes == {"SUPPLIER_SCORE_UPDATED", "SUPPLIER_OTD_DEGRADED"}
SupplierScore(e) ==
    When(e.type \in SupplierTypes,
         UpsertNodeStep("Supplier", IdOr(e, "supplierId", e.entity)))

KitEvent(e) ==
    LET kit == <<"MaterialSublot", IdOr(e, "kitId", e.entity)>>
    IN  When(e.type \in {"KIT_STAGED", "KIT_SHORTAGE_DETECTED", "KIT_SHORT"}, FlushSteps(
          <<NodeWrite("MaterialSublot", kit[2], TRUE)>> \o RefNode(e, "lotNumber", "MaterialLot"),
          \* the work order is left to a stub
          RefEdge(e, "workOrderId", "JobResponse", kit, "consumedBy")
            \o RefEdge(e, "lotNumber", "MaterialLot", kit, "madeFrom")))

\* Every tracked part is linked to the milestone; a name alone is not enough.
MilestoneParts == <<"44821-003", "44821-007", "44821-012", "55192-001", "55192-004">>
MilestoneEvent(e) ==
    When(Has(e, "milestoneId"),
      LET milestone == <<"Milestone", e.ids["milestoneId"]>>
      IN  FlushSteps(
            <<NodeWrite("Milestone", milestone[2], TRUE)>>
              \o [i \in DOMAIN MilestoneParts |->
                    NodeWrite("MaterialDefinition", MilestoneParts[i], FALSE)],
            [i \in DOMAIN MilestoneParts |->
                EdgeWrite(<<"MaterialDefinition", MilestoneParts[i]>>, "trackedBy", milestone)]))

\* Without a serial number telemetry is dropped; an anomaly is a vertex too.
TwinEvent(e) ==
    When(Has(e, "serialNumber"),
      LET sn == e.ids["serialNumber"]
          anomaly == IdOr(e, "status", "NORMAL") = "ANOMALY"
      IN  FlushSteps(
            <<NodeWrite("DigitalTwin", sn, TRUE)>>
              \o When(anomaly, <<NodeWrite("FleetAnomaly", e.id, TRUE)>>)
              \o <<NodeWrite("MaterialSublot", sn, FALSE)>>,
            <<EdgeWrite(<<"MaterialSublot", sn>>, "instantiatedAs", <<"DigitalTwin", sn>>)>>
              \o When(anomaly, <<EdgeWrite(<<"FleetAnomaly", e.id>>, "observedOn",
                                           <<"DigitalTwin", sn>>)>>)))

MachineEvent(e) ==
    When(Has(e, "machineId"),
      FlushSteps(<<NodeWrite("Equipment", e.ids["machineId"], TRUE)>>,
                 LocatedIn(e, e.ids["machineId"], "cellId")))

-----------------------------------------------------------------------------
\* TOPIC_HANDLERS: the calls of the handler of the event's topic.
Plan(e) ==
    CASE e.domain = "qms" -> QmsPlan(e)
      [] e.domain = "mes" -> MesPlan(e)
      [] e.domain = "plm" -> PlmPlan(e)
      [] e.domain = "erp" -> ErpPlan(e)
      [] e.domain = "srm" -> SupplierScore(e)
      [] e.domain = "wms" -> KitEvent(e)
      [] e.domain = "dhr" -> DhrPlan(e)
      [] e.domain = "program" -> MilestoneEvent(e)
      [] e.domain = "inservice" -> TwinEvent(e)
      [] e.domain = "scada" -> MachineEvent(e)
=============================================================================
