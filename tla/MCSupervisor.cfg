SPECIFICATION FairSpec
CONSTANTS
    e1 = e1
    f1 = f1
    None = none
    Env = {e1}
    Folder = {f1}
    FolderOf <- MCOneFolder
    Targets = {{e1}}
    Sup = {1, 2}
    Operator = {operator}
    Portal = portal
    PortalFolder = f1
    Viewer = {viewer}
    Disturbances = {"crash", "nokill", "setup", "nospawn", "portal"}
    MaxFaults = 1
INVARIANTS TypeOK  StopReaches
PROPERTIES StopIsServed PanelRecovers
