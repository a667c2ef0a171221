SPECIFICATION Spec
CONSTANTS
    NoValue = NoValue
 
PROPERTIES  LetsGo  LateAddressServed
CHECK_DEADLOCK FALSE
