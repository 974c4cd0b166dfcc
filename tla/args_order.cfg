\* The same lines; each number should be the program's parameter of its place.
CONSTANTS
    Lines <- Typed
    Room = 12
    BootBufs <- Memory
    WRAP = 65536
SPECIFICATION Spec
CHECK_DEADLOCK FALSE
INVARIANT ArgsInOrder
