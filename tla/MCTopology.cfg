SPECIFICATION Spec
CONSTANTS
    Clusters <- OneCluster
    Inventory <- Platform
    Existing <- Start
    Movable <- ComeAndGo
    Questions <- Asked
    MaxChanges = 2
    MaxFailures = 1
 
PROPERTIES  StoreCatchesUp 
CHECK_DEADLOCK FALSE
