SPECIFICATION Spec
CONSTANTS
    nA = nA  nB = nB  nC = nC  nT = nT
    scene1 = scene1  scene2 = scene2  tmpl = tmpl
    own = own  shared = shared
    Component = {own, shared}
    Node = {nA, nB, nC, nT}
    Value = {nA, nB, nC, nT}
    NoValue = NoValue
    File = {scene1, scene2, tmpl}
    Name = {"x", "y", "z"}
    NoName = NoName
    Documents <- TemplateDocuments
    DebugBuild = TRUE
    MaxDepth = 10
INVARIANT
    TemplateHasSourceComponents
CHECK_DEADLOCK FALSE
