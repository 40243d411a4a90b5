\* Two questions about a canvas of at most two widgets that the user goes on editing.
CONSTANTS
    q1 = q1
    q2 = q2
    w1 = w1
    w2 = w2
    w3 = w3
    c1 = c1
    c2 = c2
    None = None
    Turns = {q1, q2}
    Widgets = {w1, w2, w3}
    Start = {w1}
    Contents = {c1}
    MaxWidgets = 2
    MaxHistory = 1
SPECIFICATION Spec
INVARIANTS OnlyTheCurrentStreams ProposalFitsSnapshot
PROPERTIES LateProposalKeepsTheRest QuestionSettles
