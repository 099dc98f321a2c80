\* Two tasks; texts that are empty, short, as long as fits, and too long. The
\* kernel's messages interrupt them.
SPECIFICATION Spec
CONSTANTS
    Tasks = 2
    SIZE = 5
    Lengths = {0, 2, 3, 4, 5}
    KernelLengths = {1, 3}
INVARIANTS
    TypeOK
    PutsWillEnd
