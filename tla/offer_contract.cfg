SPECIFICATION Spec
CONSTANTS
    Calls <- MCCalls
    Codes <- MCCodes
    Lower <- MCLower
INVARIANTS
    ContractAccepts
