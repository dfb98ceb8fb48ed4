CONSTANTS
    BufSize = 12
    WordSizes = {1, 4}
    Lens = {0, 3, 9}
    Header = 2
    FieldsMax = 4

SPECIFICATION CodecSpec

INVARIANTS
    CodecTypeOK
    OnlyRawOverruns
    ReadsBack
    ReadsStayInside

\* A write beyond the buffer, or a message too long for the array that the reply
\* is put together in, ends what the model says about the program.
CHECK_DEADLOCK FALSE
