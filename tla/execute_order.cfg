SPECIFICATION Spec
CONSTANTS
    Words <- MCCompare
    Before <- MCSmall
PROPERTY
    ComparisonsOrder
CHECK_DEADLOCK FALSE
