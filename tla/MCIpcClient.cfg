\* A reference count of two bits; overlays and sysmodules without bound.
SPECIFICATION FairSpec
CONSTANT RefLimit = 4
INVARIANTS TypeOK SessionIsCounted WaitsHaveAReason
PROPERTIES StartFailsOnlyOnProbe OverlayDecides
