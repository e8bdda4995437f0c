------------------------ MODULE MCTelemetryPublisher ------------------------
(* Two slots and indices that wrap after four samples.                     *)
EXTENDS TelemetryPublisher

MCTopics == {"system.monitor", "robot.sensors"}
=============================================================================
