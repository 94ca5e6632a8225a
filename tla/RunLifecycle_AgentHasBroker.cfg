SPECIFICATION Spec
CONSTANT InspectTries = 2
CHECK_DEADLOCK FALSE
INVARIANT AgentHasBroker
