\* Short lines of every form between lines that fill the buffer.  The model
\* stops where something was stored behind the buffer or the arguments, or is
\* read behind the buffer.
CONSTANTS
    Lines <- Typed
    Room = 12
    BootBufs <- Memory
    WRAP = 65536
SPECIFICATION Spec
CHECK_DEADLOCK FALSE
INVARIANTS
    StaysInBuffer
    ArgsArrive
    BareInitRepeats
