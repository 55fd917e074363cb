\* Two other threads, and three tasks that are pushed again and again.
CONSTANTS
    Task = {t1, t2, t3}
    Thread = {p1, p2}
    Self = self
    Nil = nil
SPECIFICATION TasksSpec
INVARIANTS
    ListsIntact
    SubmittedOnce
PROPERTIES
    EveryTaskCalled
