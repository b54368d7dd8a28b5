SPECIFICATION Spec
CONSTANTS
    d1 = d1
    d2 = d2
    h1 = h1
    h2 = h2
    e1 = e1
    f1 = f1
    x1 = x1
    t0 = t0
    t1 = t1
    None = None
    Document <- MCDocument
    Html <- MCHtml
    Element <- MCElement
    Text <- MCText
    Comment <- MCNone
    Fragment <- MCFragment
    Task <- MCTask
    DefaultTask = t0
PROPERTIES
    InsertsBefore
