CONSTANTS
    Instances = {e1}
    Options = {"--data-directory"}
SPECIFICATION Spec
INVARIANTS
    StartSucceeds
