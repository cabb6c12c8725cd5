------------------------------ MODULE MCScada ------------------------------
EXTENDS ScadaForwarder
Reading(m, metric, v, t) ==
    [machine |-> m, metric |-> metric, value |-> v, threshold |-> t,
     status |-> "ANOMALY", previous |-> ""]
MCReadings == {Reading("mill3", "spindle_vibration", 21, 18), Reading("mill3", "oee_percent", 60, 75),
               Reading("mill3", "spindle_vibration", 10, 18)}
=============================================================================
