\* Two overlapping agents, two concurrent handlers, three messages.
CONSTANTS
    Agents = {a1, a2}
    Handlers = {h1, h2}
    MaxGen = 3
    MaxSends = 3
    MaxStarts = 3
SPECIFICATION Spec
SYMMETRY Symmetry
INVARIANTS TypeOK PersistedBehindHub RecordedHasEffect
PROPERTY RefinesGenerationLog
\* Behaviours end when the bounds are used up.
CHECK_DEADLOCK FALSE
