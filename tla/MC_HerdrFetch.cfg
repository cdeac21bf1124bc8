SPECIFICATION HerdrSpec
CONSTANTS
    Workspaces = {"w1", "w2"}
    Panes = {"p1", "p2"}
    Titles = {"build", "test"}
    LabelOf <- MCLabelOf
INVARIANTS
    StayersReported
    NothingInvented
