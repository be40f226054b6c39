\* One administrator, whose handlers overlap.
SPECIFICATION Spec
CONSTANTS
    MaxPosition = 3
    Admins = {a1}
    k1 = k1
    k2 = k2
    Keys = {k1, k2}
    ServerParams <- MCServerParams
    AddParams <- MCAddParams
    EditParams <- MCEditParams
    Required <- MCRequired
    Catalogues <- MCCatalogues
    FirstKeys <- MCKeys
    Positions = {1, 3}
    Duties <- MCDuties
    MaxRunning = 2
INVARIANTS ServerIsPlaced StoredWhereOpened SavedFromOneWizard
