SPECIFICATION Spec
CONSTANT N = 3
INVARIANTS
  TypeOK
  ConnectionSound
  SchemaBeforeMadd
  SuccessStores
  StaleConnectionMasked
PROPERTIES
  ImplementsMetricSink
  CallReturns
  Recovers
