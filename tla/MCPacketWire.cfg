SPECIFICATION Spec
CONSTANTS
    SizeMaxes = {15, 31}
    UINT32_MAX = 15
    SENSOR_WAV_HEADER_LEN = 2
    RIFF_EXTRA = 1
    SAVVY_PACKET_HEADER_LEN = 4
    SENSOR_BZIP_BOUND_DIVISOR = 4
    SENSOR_BZIP_BOUND_EXTRA = 2
    MIN_CAPACITY = 4
    SENSOR_BZIP_MAX_LOOP_ITERATIONS = 10
    Excess = 1
    MaxPayloads = {0, 3, 9, 15}
    Radix = 4
    RECV_CHUNK = 6
    Bodies = {0, 3}
    MaxResponses = 3
    MaxRequests = 2
INVARIANTS
    TypeOK
    PayloadFits
    HeapBalanced
    PacketsAsSent
    ProtocolErrorJustified
    NothingLeftInBuffer
CHECK_DEADLOCK FALSE
