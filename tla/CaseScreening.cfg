CONSTANTS
  gan = gan
  dia = dia
  pkg = pkg
  Route = {gan, dia, pkg}
  Diamond = {gan, dia}
  GanOnDiamond = gan
  MaxPatterns = 2
SPECIFICATION Spec
INVARIANTS ReadyHidesNoGap DeferredAreFramed NoActionIsCut
PROPERTIES SelectionNeverReadies ReadyIsLostToGaps
