CONSTANTS
    BufSize = 12
    WordSizes = {1, 4}
    Lens = {0, 3, 9}
    Header = 2
    FieldsMax = 3

SPECIFICATION CodecSpec

INVARIANT
    WrittenIsSent

\* A write beyond the buffer, or a message too long for the array that the reply
\* is put together in, ends what the model says about the program.
CHECK_DEADLOCK FALSE
