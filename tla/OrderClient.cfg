CONSTANT MaxRetries = 3
SPECIFICATION ResponsiveSpec
INVARIANT KeyedCallsPlaceOnce
PROPERTIES ContractSpec CallsReturn
