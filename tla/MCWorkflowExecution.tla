------------------------ MODULE MCWorkflowExecution ------------------------
(* TLC instance of WorkflowExecution: one compiled and one host provider,   *)
(* two parsers, batches for every admission error.                          *)
EXTENDS WorkflowExecution

MCBackends == 1..2

MCDescriptors == {[ops |-> {"merge3"}, allowed |-> {}]}

Item(rid, flaw, backend) ==
  [rid |-> rid, flaw |-> flaw, backend |-> backend, op |-> "merge3"]

Plain == Item("r1", "none", None)

MCBatches ==
  {<<>>,
   <<Plain, Item("r2", "none", 2)>>,
   <<[Plain EXCEPT !.op = "diff2"]>>,
   <<Plain, Item("r1", "none", None)>>,
   <<Plain, Item("r2", "workflow.unsupported_parser_constraint", None)>>,
   <<Plain, Item("r2", "query", None)>>,
   <<Plain, Item("r2", "request.invalid", None)>>,
   <<Plain, Plain, Plain>>}

=============================================================================
