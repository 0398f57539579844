SPECIFICATION FairSpec
CONSTANTS
    Scenarios <- MCScenarios
INVARIANTS
    OneCA
    OneSource
PROPERTIES
    IssuedOnce
    CertificatesAreIssued
