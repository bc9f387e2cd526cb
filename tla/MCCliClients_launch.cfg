SPECIFICATION ClientFairSpec
CHECK_DEADLOCK FALSE
PROPERTIES
    LaunchProceeds
