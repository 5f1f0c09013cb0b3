SPECIFICATION SizesSpec
CONSTANT WORD = 128
INVARIANTS ChunkHoldsRequest NoFalseAlarm
CHECK_DEADLOCK FALSE
