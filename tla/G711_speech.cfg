CONSTANT Stride = 1

SPECIFICATION G711Spec
INVARIANT SpeechSurvives
CHECK_DEADLOCK FALSE
