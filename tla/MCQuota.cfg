CONSTANTS
    Users = {u1, u2}
    Uploads = {r1, r2}
    Deleters = {d1}
    Admins = {a1}
    Sizes = {1, 2}
    MaxFiles = 2
    MaxDeleted = 1
    Contributions = {2, 3}
    Quotas = {0, 1, 2}
    DefaultQuotas = {0, 2}
    None = None
SPECIFICATION Spec
SYMMETRY QuotaSymmetry
CONSTRAINT Searched
INVARIANTS
    
    
    QuotasBacked
    
