SPECIFICATION PlayerSpec
CONSTANT Axes = {0, 126, 127, 128}
INVARIANTS
    ReportSaysWhatIsHeld
PROPERTY WhammyFollowsTheBar
