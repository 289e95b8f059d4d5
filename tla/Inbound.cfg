SPECIFICATION Spec
CONSTANTS
  q1 = q1
  q2 = q2
  q3 = q3
  Nobody = Nobody
  Requests = {q1, q2, q3}
  TenantOf <- Tenants
  Endpoints <- AllEndpoints
  Marks <- AnyMark
  Verdicts <- AnyVerdict
  MaxTerms = 1
SYMMETRY Twins
INVARIANTS
  WorkOncePerTtl
  RepeatsAreTrue
  ClaimsAreSettled
  HandedKeysNeverSilence
