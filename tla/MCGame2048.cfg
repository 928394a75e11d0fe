CONSTANT N = 2
SPECIFICATION Spec
INVARIANTS CountersInStep OverIsStuck StuckIsOver MovesFollowRules
PROPERTIES SumGrowsByNewTile
CHECK_DEADLOCK FALSE
