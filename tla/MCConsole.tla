------------------------------ MODULE MCConsole ------------------------------
(* Small instances of Console: overlapping requests of two tabs around a       *)
(* renewal and a key rotation, and one reader of a changing queue.             *)
EXTENDS Console

CONSTANTS t1, t2

MCReason == [type |-> "MATCH_REASON", code |-> "PRICE", source |-> "run"]
MCSignal(source) == [type |-> "RISK_SIGNAL", code |-> "DUPLICATE", source |-> source]

MCCaseFilter ==
    {Everything, [Everything EXCEPT !.assigned = TRUE, !.after = 1]}

MCTriggerFilter ==
    {[Everything EXCEPT !.reason = "PRICE"],
     [Everything EXCEPT !.code = "DUPLICATE"],
     [Everything EXCEPT !.type = "RISK_SIGNAL"],
     [Everything EXCEPT !.type = "RISK_SIGNAL", !.reason = "PRICE"]}

MCFilter == MCCaseFilter \cup MCTriggerFilter \cup {[Everything EXCEPT !.list = "invoices"]}

\* Two tabs around the end of a token, a key rotation, an outage and a logout.
MCRenewal ==
    [tabs |-> {t1, t2}, cases |-> {}, triggers |-> {}, signals |-> {}, faults |-> 1,
     changes |-> FALSE, logout |-> TRUE,
     filters |-> {Everything}, limits |-> {1}, roles |-> {"reviewer"},
     asks |-> 2, horizon |-> 2, keys |-> 2]

\* One reader of the pages of a changing queue.
MCReading ==
    [tabs |-> {t1}, cases |-> {1, 2, 3}, faults |-> 0, triggers |-> {{}}, signals |-> {},
     changes |-> TRUE, logout |-> FALSE,
     filters |-> MCCaseFilter, limits |-> {1, 2}, roles |-> {"reviewer"},
     asks |-> 3, horizon |-> 0, keys |-> 1]

\* The filters that join triggers.
MCFiltering ==
    [MCReading EXCEPT !.filters = MCTriggerFilter, !.changes = FALSE, !.cases = {1, 2},
                      !.triggers = {{MCReason}, {MCSignal("first")}},
                      !.signals = {MCSignal("second")}]

\* A role that reads one of the lists only.
MCOperator ==
    [MCReading EXCEPT !.cases = {}, !.filters = MCFilter, !.roles = {"operator"}]

MCScene ==
    [renewal |-> MCRenewal, reading |-> MCReading, filtering |-> MCFiltering,
     operator |-> MCOperator]
=============================================================================
