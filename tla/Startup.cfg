CONSTANTS
    Instances = {e1, e2}
    Options = {"default", "--no-save-config"}
SPECIFICATION Spec
INVARIANTS
    WholeUnlessCut
    StartSucceeds
PROPERTIES
    NeverOverwritten
