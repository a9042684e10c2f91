SPECIFICATION Spec
CONSTANTS
    GF = 256
    PP = 285
INVARIANTS
    IndicesInTable
    MulIsPolynomialProduct
    FieldLaws
